------------------------------ MODULE Service ------------------------------
(***************************************************************************)
(* The key-value service as its clients see it: the state machines of      *)
(* kv.py fed from one committed log by _set_commit_index, snapshots and    *)
(* crashes of node.py, and the client driver and history of cluster.py.    *)
(*                                                                         *)
(* How the log comes to be is RaftNode's business; here it is what         *)
(* CommittedLog promises, one sequence that grows, and a read confirmed by *)
(* ReadIndex has the floor that ReadsFresh promises.  RaftNode never       *)
(* commits a request twice (AppliedOnce), but the session table is there   *)
(* so that nobody has to rely on that, so here it may.                     *)
(*                                                                         *)
(* Time is the number of operations invoked so far: one operation precedes *)
(* another iff it returned at an earlier time than the other's.            *)
(***************************************************************************)
EXTENDS KVStateMachine, FiniteSets

CONSTANTS
    Nodes,
    SnapshotThreshold,  \* RaftConfig.snapshot_threshold; 0 never compacts
    Modes,              \* how reads are served: "log", "readindex", "stale"
    Workload,           \* the operations clients invoke
    MaxInvocations,     \* BOUND: operations invoked in a run
    MaxLog,             \* BOUND: requests committed, repeats included
    MaxReads,           \* BOUND: ReadIndex reads waiting at a time
    MaxCrashes          \* BOUND: crashes in a run

ASSUME ServiceAssumption ==
    /\ Modes \subseteq {"log", "readindex", "stale"}
    /\ Workload \subseteq Operations
    /\ {SnapshotThreshold, MaxInvocations, MaxLog, MaxReads, MaxCrashes} \subseteq Nat

VARIABLES
    mode,       \* fixed for a run
    decided,    \* the committed log
    position,   \* per server, last_applied
    image,      \* per server, its state machine
    snapshot,   \* per server, [index, image] compacted; survives a crash
    reads,      \* ReadIndex reads being confirmed: [node, client, req, floor]
    history,    \* the client-observed history, in the order of invocation
    crashes

clusterVars == <<decided, position, image, snapshot, reads, crashes>>
serviceVars == <<mode, clusterVars, history>>

\* A row: returned = 0 and observed = Absent until the operation completes.
Rows == [client : Clients, req : Nat \ {0}, o : Operations, invoked : Nat \ {0},
         returned : Nat, observed : Results]

Completed(row) == row.returned # 0

-----------------------------------------------------------------------------
(***************************************************************************)
(* Clients.                                                                *)
(***************************************************************************)
RowsOf(c) == {i \in DOMAIN history : history[i].client = c}
Pending(c) == {i \in RowsOf(c) : ~Completed(history[i])}
Command(row) == [client |-> row.client, req |-> row.req, o |-> row.o]

\* _client_tick for an idle client: it invokes a new operation.
Invoke(c) ==
    /\ Len(history) < MaxInvocations
    /\ Pending(c) = {}
    /\ \E o \in Workload :
         history' = Append(history,
           [client |-> c, req |-> Cardinality(RowsOf(c)) + 1, o |-> o,
            invoked |-> Len(history) + 1, returned |-> 0, observed |-> Absent])
    /\ UNCHANGED <<mode, clusterVars>>

\* _on_apply in the history rows: the first application of an operation that
\* is still outstanding completes it; later ones change nothing.
OnApply(rows, cmd, result) ==
    [i \in DOMAIN rows |->
       IF Command(rows[i]) = cmd /\ ~Completed(rows[i])
       THEN [rows[i] EXCEPT !.returned = Len(rows), !.observed = result]
       ELSE rows[i]]

-----------------------------------------------------------------------------
(***************************************************************************)
(* Servers.                                                                *)
(***************************************************************************)
\* State machine and history once cmds are applied, in order, from start.
AfterApplying(start, cmds) ==
    FoldLeft(LAMBDA acc, cmd :
               LET a == Apply(acc.image, cmd)
               IN [image |-> a.image, rows |-> OnApply(acc.rows, cmd, a.result)],
             start, cmds)

\* _set_commit_index(upto) on server n with committed log lg, and the
\* compaction it ends with.
SetCommitIndex(n, lg, upto) ==
    LET fed == AfterApplying([image |-> image[n], rows |-> history],
                             SubSeq(lg, position[n] + 1, upto))
    IN /\ position' = [position EXCEPT ![n] = upto]
       /\ image' = [image EXCEPT ![n] = fed.image]
       /\ history' = fed.rows
       /\ snapshot' =
            IF SnapshotThreshold > 0 /\ upto - snapshot[n].index >= SnapshotThreshold
            THEN [snapshot EXCEPT ![n] = [index |-> upto, image |-> fed.image]]
            ELSE snapshot

\* A request travels through the log: all but reads, unless reads do as well.
Logged(row) == row.o.op # "get" \/ mode = "log"

\* What may be committed next: any request a client has made, again or not.
Submitted == {Command(row) : row \in {r \in Range(history) : Logged(r)}}

\* A leader commits an entry and applies it in the same step.
Commit(n) ==
    /\ Len(decided) < MaxLog
    /\ \E cmd \in Submitted :
         /\ decided' = Append(decided, cmd)
         /\ SetCommitIndex(n, decided', Len(decided) + 1)
    /\ UNCHANGED <<mode, reads, crashes>>

\* A follower learns that more of the log is committed.
Learn(n) ==
    /\ \E upto \in position[n] + 1 .. Len(decided) : SetCommitIndex(n, decided, upto)
    /\ UNCHANGED <<mode, decided, reads, crashes>>

\* _on_install_snapshot of p's snapshot, unless n has committed all it covers.
Install(n, p) ==
    /\ snapshot[p].index > position[n]
    /\ position' = [position EXCEPT ![n] = snapshot[p].index]
    /\ image' = [image EXCEPT ![n] = Restore(snapshot[p].image)]
    /\ snapshot' = [snapshot EXCEPT ![n] = snapshot[p]]
    /\ UNCHANGED <<mode, decided, reads, history, crashes>>

\* pause: the state machine comes back from the snapshot, reads are dropped.
Crash(n) ==
    /\ crashes < MaxCrashes
    /\ crashes' = crashes + 1
    /\ position' = [position EXCEPT ![n] = snapshot[n].index]
    /\ image' = [image EXCEPT ![n] = Restore(snapshot[n].image)]
    /\ reads' = {r \in reads : r.node # n}
    /\ UNCHANGED <<mode, decided, snapshot, history>>

-----------------------------------------------------------------------------
(***************************************************************************)
(* Reads that leave no trace in the log.                                   *)
(***************************************************************************)
\* request_read at n, also for a retry.  The floor is what any server had
\* committed by then.
RequestRead(n, c) ==
    /\ mode = "readindex"
    /\ Cardinality(reads) < MaxReads
    /\ \E i \in Pending(c) :
         /\ ~Logged(history[i])
         /\ reads' = reads \cup {[node |-> n, client |-> c, req |-> history[i].req,
                                  floor |-> Len(decided)]}
    /\ UNCHANGED <<mode, decided, position, image, snapshot, history, crashes>>

\* DEFECT: a read is answered before its index is applied.
ServableEarly(r) == TRUE

\* A confirmed read is served once its index is applied.
Servable(r) == position[r.node] >= r.floor

\* apply_read for the row's operation, through the apply callback.
Answer(n, row) ==
    history' = OnApply(history, Command(row), image[n].store[row.o.key])

\* _try_serve_read.  The row is the one the read was requested for, which
\* another server may have answered meanwhile.
ServeRead ==
    /\ \E r \in reads :
         /\ Servable(r)
         /\ reads' = reads \ {r}
         /\ \E row \in Range(history) :
              /\ row.client = r.client /\ row.req = r.req
              /\ Answer(r.node, row)
    /\ UNCHANGED <<mode, decided, position, image, snapshot, crashes>>

\* bugs.stale_local_reads: whoever believes it leads answers at once.
StaleRead(n, c) ==
    /\ mode = "stale"
    /\ \E i \in Pending(c) : ~Logged(history[i]) /\ Answer(n, history[i])
    /\ UNCHANGED <<mode, clusterVars>>

-----------------------------------------------------------------------------
ServiceInit ==
    /\ mode \in Modes
    /\ decided = <<>>
    /\ position = [n \in Nodes |-> 0]
    /\ image = [n \in Nodes |-> EmptyImage]
    /\ snapshot = [n \in Nodes |-> [index |-> 0, image |-> EmptyImage]]
    /\ reads = {}
    /\ history = <<>>
    /\ crashes = 0

ServiceNext ==
    \/ \E c \in Clients : Invoke(c)
    \/ \E n \in Nodes : Commit(n) \/ Learn(n) \/ Crash(n)
    \/ \E n, p \in Nodes : Install(n, p)
    \/ \E n \in Nodes, c \in Clients : RequestRead(n, c) \/ StaleRead(n, c)
    \/ ServeRead

-----------------------------------------------------------------------------
\* Every variable has its type (KVStateMachine.__init__, Cluster.__init__).
ServiceTypeOK ==
    /\ mode \in Modes
    /\ decided \in Seq(Requests)
    /\ position \in [Nodes -> 0 .. Len(decided)]
    /\ image \in [Nodes -> Images]
    /\ snapshot \in [Nodes -> [index : 0 .. Len(decided), image : Images]]
    /\ reads \subseteq [node : Nodes, client : Clients, req : Nat, floor : Nat]
    /\ history \in Seq(Rows)
    /\ crashes \in Nat

\* What a state machine is after the first k entries of lg if each request is
\* executed where it first occurs and nowhere else.
First(lg, i) == \A j \in 1 .. i - 1 : lg[j] # lg[i]

OnceEach(lg, k) ==
    FoldLeft(LAMBDA img, i :
               LET cmd  == lg[i]
                   done == Execute(img.store, cmd.o)
               IN IF First(lg, i)
                  THEN [store |-> done.store,
                        sessions |-> [img.sessions EXCEPT ![cmd.client] =
                                        [req |-> cmd.req, result |-> done.result]]]
                  ELSE img,
             EmptyImage, [i \in 1 .. k |-> i])

\* Every state machine and every snapshot is the exactly-once image of the log
\* it covers, however often requests were committed again, replayed after a
\* crash or skipped by a snapshot on the way (KVStateMachine's docstring:
\* "every node dedups identically").
ExactlyOnce ==
    \A n \in Nodes :
      /\ image[n] = OnceEach(decided, position[n])
      /\ snapshot[n].image = OnceEach(decided, snapshot[n].index)
=============================================================================

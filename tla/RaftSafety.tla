----------------------------- MODULE RaftSafety -----------------------------
(***************************************************************************)
(* What the servers of RaftNode promise: the invariants that               *)
(* deterministic_raft/invariants.py checks at run time, stated over every  *)
(* interleaving, and the promises the code makes only in comments.         *)
(***************************************************************************)
EXTENDS RaftNode

\* Server v stores the committed entry of rec, in its log or its snapshot.
Holds(v, rec) ==
    \/ rec.index <= Base(v)
    \/ /\ rec.index <= LastIndex(v)
       /\ EntryAt(v, rec.index) = rec.entry

-----------------------------------------------------------------------------
\* At most one server is ever leader of a term, over the whole history
\* (InvariantChecker._check_election_safety).
ElectionSafety ==
    \A l1, l2 \in leadersByTerm : l1[1] = l2[1] => l1 = l2

\* Two logs that agree on the term of an entry agree on every entry up to it
\* that neither has compacted (InvariantChecker._check_log_matching).
LogMatching ==
    \A n1, n2 \in Nodes :
      LET low == Larger(Base(n1), Base(n2)) + 1
          top == Smaller(LastIndex(n1), LastIndex(n2))
      IN \A i \in low .. top :
           TermAt(n1, i) = TermAt(n2, i) =>
             \A j \in low .. i : EntryAt(n1, j) = EntryAt(n2, j)

\* Terms never decrease along a log, from the snapshot's boundary on: the commit
\* rule stops at the first older entry on that ground (_advance_commit), and an
\* entry spliced in at a wrong offset breaks it (_on_append_entries below the
\* snapshot).
TermsOrdered ==
    \A n \in Nodes : \A i \in Base(n) .. LastIndex(n) - 1 :
      TermAt(n, i) <= TermAt(n, i + 1)

\* A leader stores every entry committed in its term or an earlier one
\* (InvariantChecker._check_leader_completeness).
LeaderCompleteness ==
    \A n \in Nodes : role[n] = "leader" =>
      \A rec \in committed : rec.term <= term[n] => Holds(n, rec)

\* Every server feeds its state machine, live, from a snapshot or after a
\* restart, the command that was first committed at each index
\* (InvariantChecker._check_state_machine_safety; _on_install_snapshot must
\* not install an image that disagrees).
StateMachineSafety ==
    \A n \in Nodes, rec \in committed :
      /\ rec.index <= commitIndex[n] =>
           rec.index <= Len(applied[n]) /\ applied[n][rec.index] = rec.entry.cmd
      /\ rec.index <= Base(n) => snapshot[n].image[rec.index] = rec.entry.cmd

\* The first observation of a commit is backed by a majority of the committing
\* server's configuration (InvariantChecker._observe_commits).
CommitQuorum ==
    [][\A rec \in committed' \ committed :
         \E n \in Nodes :
           /\ commitIndex'[n] >= rec.index
           /\ commitIndex[n] < rec.index
           /\ Majority({v \in Nodes : Holds(v, rec)'}, config'[n].voters)]_vars

\* With a fixed configuration a committed entry stays on a majority for ever:
\* no truncation, snapshot or crash makes it lose its quorum
\* (_on_append_entries, _on_install_snapshot, pause).
CommittedDurable ==
    \A rec \in committed : Majority({v \in Nodes : Holds(v, rec)}, InitialVoters)

\* Only a crash lowers a commit index (InvariantChecker._observe_commits; the
\* max() of _on_append_entries and the covered branch of _on_install_snapshot).
CommitIndexMonotonic ==
    [][\A n \in Nodes : commitIndex'[n] < commitIndex[n] => alive[n] /\ ~alive'[n]]_vars

\* No message that can still be accepted would make its receiver replace an entry
\* it has committed: the merge loop of _on_append_entries "never truncates
\* committed entries", however late and from however old a leader the message is.
TruncatesNoCommit ==
    \A m \in network :
      m.type = "AppendEntries" /\ m.term >= term[m.to] =>
        LET a == AboveBase(m.to, m)
        IN Consistent(m.to, a) => \A i \in Conflicts(m.to, a) : i > commitIndex[m.to]

-----------------------------------------------------------------------------
Voting(cmds) ==
    LET last == SelectLastInSeq(cmds, LAMBDA cmd : cmd.kind = "config")
    IN IF last = 0 THEN InitialVoters ELSE cmds[last].voters

\* The configuration in force is the last one among everything a server stores,
\* compacted or not, whatever was truncated, compacted, installed or lost in a
\* crash on the way, and a snapshot records that of its own prefix
\* (_rebuild_config: "membership is derived state"; _maybe_compact).
ConfigDerived ==
    \A n \in Nodes :
      /\ config[n].voters =
           Voting(snapshot[n].image \o [i \in 1 .. Len(log[n]) |-> log[n][i].cmd])
      /\ snapshot[n].voters = Voting(snapshot[n].image)

\* A server always waits for exactly the timer its role needs, so a leader
\* beats and every other live server can campaign (_arm_election_timer and
\* _arm_heartbeat_timer share one sequence number).
TimerMatchesRole ==
    \A n \in Nodes :
      timer[n] = IF ~alive[n] THEN "none"
                 ELSE IF role[n] = "leader" THEN "heartbeat" ELSE "election"

\* When the state machine first sees a request of a client it has seen all the
\* earlier ones the client sent through the log, though retries append several
\* copies through several leaders: otherwise apply's "req_id <= last" would drop
\* a request that never ran (KVStateMachine.apply).
SessionsInOrder ==
    \A n \in Nodes : \A j \in 1 .. Len(applied[n]) :
      LET cmd == applied[n][j]
      IN cmd.kind = "client" =>
           \A r \in 1 .. cmd.req - 1 :
             <<cmd.client, r>> \notin Reads =>
               \E k \in 1 .. j - 1 : applied[n][k] = Request(cmd.client, r)

\* No state machine sees a request twice, though a client sends it to every
\* leader it meets until it is applied: a leader that holds a copy of it, its own
\* or inherited, appends no other, and a copy that is replaced never runs
\* (client_command and _rebuild_client_index; the session table of
\* KVStateMachine.apply would hide a violation).
AppliedOnce ==
    \A n \in Nodes : \A i, j \in 1 .. Len(applied[n]) :
      applied[n][i].kind = "client" /\ applied[n][i] = applied[n][j] => i = j

\* Together the servers are one log that only grows: what is committed first is
\* never revised, and each state machine, live, after a snapshot or after a
\* crash, has been fed a prefix of it (_set_commit_index, _on_install_snapshot,
\* pause).
CommittedCommands ==
    [i \in 1 .. Cardinality(committed) |->
       (CHOOSE rec \in committed : rec.index = i).entry.cmd]

OneLog == INSTANCE CommittedLog WITH history <- CommittedCommands, fed <- applied

AppliesOneLog == OneLog!Spec

\* A read is answered from a state machine that has applied everything any
\* server had committed when the read was requested (request_read,
\* _try_serve_read: ReadIndex reads are linearizable).
ReadsFresh ==
    [][\A n \in Nodes :
         /\ \A r \in pendingReads[n] :
              (/\ role'[n] = "leader"
               /\ term'[n] = term[n]
               /\ \A q \in pendingReads'[n] : q.id # r.id)
              => commitIndex[n] >= r.floor
         /\ (nextReadId'[n] # nextReadId[n] /\ nextReq' # nextReq)
              => commitIndex[n] >= HighestCommitted]_vars
=============================================================================

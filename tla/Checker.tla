------------------------------ MODULE Checker ------------------------------
(***************************************************************************)
(* The invariant checker of deterministic_raft/invariants.py, run after    *)
(* every simulator step and once more inside a step that compacts.         *)
(*                                                                         *)
(* The checker is judged, not the servers: these follow no protocol and    *)
(* may do anything a broken Raft could do, as long as they keep what       *)
(* NodeView says of log_version and incarnation.  The variable truth keeps *)
(* what really happened, from every state, and no cache.                   *)
(***************************************************************************)
EXTENDS Naturals, Sequences, FiniteSets, SequencesExt

CONSTANTS
    N,              \* servers are 1 .. N, all of them voters
    MaxTerm,        \* BOUND: terms
    Entries,        \* log entries, [term, command]
    MaxLog,         \* BOUND: logical length of a log
    MaxVersions,    \* BOUND: changes to logs, in all
    MaxRestarts     \* BOUND: restarts, in all

ASSUME CheckerAssumption ==
    /\ {N, MaxTerm, MaxLog, MaxVersions, MaxRestarts} \subseteq Nat
    /\ \A e \in Entries : e.term \in Nat

VARIABLES
    view,           \* NodeView of each server
    checker,        \* the caches of InvariantChecker
    alarm,          \* the invariant that check raised, or "none"
    truth           \* [led, committed, applied, violated]

vars == <<view, checker, alarm, truth>>

Nodes == 1 .. N
Terms == 1 .. MaxTerm

LastIndex(v) == v.base + Len(v.log)
EntryAt(v, i) == v.log[i - v.base]
Applied(v) == v.base + Len(v.applied)       \* highest index applied
Higher(a, b) == IF a >= b THEN a ELSE b

\* _holds.
Holds(v, i, e) == i <= v.base \/ (i <= LastIndex(v) /\ EntryAt(v, i) = e)

Backed(views, i, e) == 2 * Cardinality({m \in Nodes : Holds(views[m], i, e)}) > N

\* Two logs that agree on the term at an index agree on everything up to it, as
\* far as neither has compacted it.
Match(v, w) ==
    LET both == Higher(v.base, w.base) + 1 ..
                  (IF LastIndex(v) <= LastIndex(w) THEN LastIndex(v) ELSE LastIndex(w))
    IN \A top \in both :
         EntryAt(v, top).term = EntryAt(w, top).term =>
           \A i \in both : i <= top => EntryAt(v, i) = EntryAt(w, i)

\* A log that only grew at its end, or was compacted, between two moments.
OnlyExtends(old, new) ==
    /\ LastIndex(new) >= LastIndex(old)
    /\ \A i \in Higher(old.base, new.base) + 1 .. LastIndex(old) :
         EntryAt(old, i) = EntryAt(new, i)

\* The leader v has every entry of record that its term binds it to.
Complete(v, record) ==
    \A i \in DOMAIN record :
      record[i].term <= v.term /\ i > v.base =>
        i <= LastIndex(v) /\ EntryAt(v, i) = record[i].entry

-----------------------------------------------------------------------------
(***************************************************************************)
(* InvariantChecker: each test reads the caches as the one before left     *)
(* them.                                                                   *)
(***************************************************************************)
Leaders(views) == {n \in Nodes : views[n].role = "leader"}

\* DEFECT: a restart is taken for a step like any other.
HandleRestartsNever(c, views) ==
    [c EXCEPT !.incarnation = [n \in Nodes |-> views[n].incarnation]]

\* _handle_restarts.
HandleRestarts(c, views) ==
    LET restarted == {n \in Nodes : c.incarnation[n] # views[n].incarnation}
    IN [c EXCEPT
          !.incarnation = [n \in Nodes |-> views[n].incarnation],
          !.prevCommit = [n \in Nodes |-> IF n \in restarted THEN views[n].commit
                                          ELSE @[n]],
          !.appliedSeen = [n \in Nodes |-> IF n \in restarted THEN Applied(views[n])
                                           ELSE @[n]]]

\* _check_election_safety.
TwoLeaders(c, views) ==
    \/ \E n \in Leaders(views) : c.leaders[views[n].term] \notin {0, n}
    \/ \E n, m \in Leaders(views) : n # m /\ views[n].term = views[m].term

SeeLeaders(c, views) ==
    [c EXCEPT !.leaders = [t \in Terms |->
       IF \E n \in Leaders(views) : views[n].term = t
       THEN CHOOSE n \in Leaders(views) : views[n].term = t ELSE @[t]]]

\* _check_leader_append_only: against the copy kept since the leader's last change.
Kept(c, views, n) == n \in Leaders(views) /\ c.copy[n].term = views[n].term

Mutated(c, views) ==
    \E n \in Nodes :
      /\ Kept(c, views, n)
      /\ c.copy[n].version # views[n].version
      /\ ~OnlyExtends(c.copy[n], views[n])

NoCopy == [term |-> 0, version |-> 0, base |-> 0, log |-> <<>>]

CopyLeaders(c, views) ==
    [c EXCEPT !.copy = [n \in Nodes |->
       IF n \notin Leaders(views) THEN NoCopy
       ELSE IF Kept(c, views, n) /\ @[n].version = views[n].version THEN @[n]
       ELSE [term |-> views[n].term, version |-> views[n].version,
             base |-> views[n].base, log |-> views[n].log]]]

\* DEFECT: a pair is known by the version of its first log.
VersionsOfFirst(views, n, m) == <<views[n].version>>

\* _check_log_matching: only pairs of which a version has changed.
Versions(views, n, m) == <<views[n].version, views[m].version>>
Pairs == {p \in Nodes \X Nodes : p[1] < p[2]}

Diverged(c, views) ==
    \E p \in Pairs :
      /\ c.pairs[p] # Versions(views, p[1], p[2])
      /\ ~Match(views[p[1]], views[p[2]])

ComparePairs(c, views) ==
    [c EXCEPT !.pairs = [p \in Pairs |-> Versions(views, p[1], p[2])]]

\* _observe_commits: entries of server n above its compaction point that it had
\* not committed when it was last seen.
NewCommits(c, views, n) == Higher(c.prevCommit[n], views[n].base) + 1 .. views[n].commit

Regressed(c, views) == \E n \in Nodes : views[n].commit < c.prevCommit[n]

\* Servers are observed in order: the first to commit an index puts it on record.
Committers(c, views, i) == {n \in Nodes : i \in NewCommits(c, views, n)}

CommitOnRecord(c, views, i) ==
    IF i \in DOMAIN c.committed THEN c.committed[i]
    ELSE LET n == Min(Committers(c, views, i))
         IN [entry |-> EntryAt(views[n], i), term |-> views[n].term]

CommittedTwice(c, views) ==
    \E n \in Nodes : \E i \in NewCommits(c, views, n) :
      CommitOnRecord(c, views, i).entry # EntryAt(views[n], i)

\* A commit is judged by its quorum when it is above what any server, up to this
\* one, was seen to have committed.
Unbacked(c, views) ==
    \E n \in Nodes : \E i \in NewCommits(c, views, n) :
      /\ i > c.maxCommit
      /\ \A m \in 1 .. n - 1 : i > views[m].commit
      /\ ~Backed(views, i, EntryAt(views[n], i))

ObserveCommits(c, views) ==
    [c EXCEPT
       !.committed = [i \in DOMAIN @ \cup UNION {NewCommits(c, views, n) : n \in Nodes} |->
                        CommitOnRecord(c, views, i)],
       !.maxCommit = Max({@} \cup {views[n].commit : n \in Nodes}),
       !.prevCommit = [n \in Nodes |-> views[n].commit]]

\* _check_leader_completeness: unless nothing it depends on has changed.
CompletenessState(c, v) == <<v.term, v.version, Cardinality(DOMAIN c.committed)>>

Incomplete(c, views) ==
    \E n \in Leaders(views) :
      /\ c.complete[n] # CompletenessState(c, views[n])
      /\ ~Complete(views[n], c.committed)

SeeComplete(c, views) ==
    [c EXCEPT !.complete = [n \in Nodes |->
       IF n \in Leaders(views) THEN CompletenessState(c, views[n]) ELSE <<>>]]

\* _check_state_machine_safety, likewise.
NewApplied(c, views, n) == Higher(c.appliedSeen[n], views[n].base) + 1 .. Applied(views[n])
CommandAt(v, i) == v.applied[i - v.base]

Appliers(c, views, i) == {n \in Nodes : i \in NewApplied(c, views, n)}

AppliedOnRecord(c, views, i) ==
    IF i \in DOMAIN c.applied THEN c.applied[i]
    ELSE CommandAt(views[Min(Appliers(c, views, i))], i)

AppliedTwice(c, views) ==
    \E n \in Nodes : \E i \in NewApplied(c, views, n) :
      AppliedOnRecord(c, views, i) # CommandAt(views[n], i)

SeeApplied(c, views) ==
    [c EXCEPT
       !.applied = [i \in DOMAIN @ \cup UNION {NewApplied(c, views, n) : n \in Nodes} |->
                      AppliedOnRecord(c, views, i)],
       !.appliedSeen = [n \in Nodes |-> Higher(@[n], Applied(views[n]))]]

\* check: the first test that fails raises, and nothing runs after it.
Check(c, views) ==
    LET c1 == HandleRestarts(c, views)
        c2 == SeeLeaders(c1, views)
        c3 == CopyLeaders(c2, views)
        c4 == ComparePairs(c3, views)
        c5 == ObserveCommits(c4, views)
        c6 == SeeComplete(c5, views)
    IN [checker |-> SeeApplied(c6, views),
        alarm |-> IF TwoLeaders(c1, views) THEN "ElectionSafety"
                  ELSE IF Mutated(c2, views) THEN "LeaderAppendOnly"
                  ELSE IF Diverged(c3, views) THEN "LogMatching"
                  ELSE IF Regressed(c4, views) THEN "CommitIndexMonotonic"
                  ELSE IF CommittedTwice(c4, views) THEN "StateMachineSafety"
                  ELSE IF Unbacked(c4, views) THEN "CommitQuorum"
                  ELSE IF Incomplete(c5, views) THEN "LeaderCompleteness"
                  ELSE IF AppliedTwice(c6, views) THEN "StateMachineSafety"
                  ELSE "none"]

-----------------------------------------------------------------------------
(***************************************************************************)
(* What really happens between two moments of the servers, old and new.    *)
(***************************************************************************)
\* What v newly reaches between low and high, unless it restarted.
Advance(old, new, low, high) ==
    IF old.incarnation = new.incarnation THEN Higher(low, new.base) + 1 .. high ELSE {}

Commits(old, new, n) == Advance(old[n], new[n], old[n].commit, new[n].commit)
Applies(old, new, n) == Advance(old[n], new[n], Applied(old[n]), Applied(new[n]))

Led(t, new) == t.led \cup {<<new[n].term, n>> : n \in Leaders(new)}

Committed(t, old, new) ==
    [i \in DOMAIN t.committed \cup UNION {Commits(old, new, n) : n \in Nodes} |->
       IF i \in DOMAIN t.committed THEN t.committed[i]
       ELSE LET n == CHOOSE m \in Nodes : i \in Commits(old, new, m)
            IN [entry |-> EntryAt(new[n], i), term |-> new[n].term]]

AppliedFirst(t, old, new) ==
    [i \in DOMAIN t.applied \cup UNION {Applies(old, new, n) : n \in Nodes} |->
       IF i \in DOMAIN t.applied THEN t.applied[i]
       ELSE CommandAt(new[CHOOSE m \in Nodes : i \in Applies(old, new, m)], i)]

\* The step from old to new, before which t was the record, violates invariant name.
Violated(t, old, new, name) ==
    CASE name = "ElectionSafety" ->
           \E l, m \in Led(t, new) : l[1] = m[1] /\ l[2] # m[2]
      [] name = "LeaderAppendOnly" ->
           \E n \in Leaders(old) \cap Leaders(new) :
             old[n].term = new[n].term /\ ~OnlyExtends(old[n], new[n])
      [] name = "LogMatching" -> \E p \in Pairs : ~Match(new[p[1]], new[p[2]])
      [] name = "CommitIndexMonotonic" ->
           \E n \in Nodes : /\ old[n].incarnation = new[n].incarnation
                            /\ new[n].commit < old[n].commit
      [] name = "StateMachineSafety" ->
           \E n \in Nodes :
             \/ \E i \in Commits(old, new, n) :
                  Committed(t, old, new)[i].entry # EntryAt(new[n], i)
             \/ \E i \in Applies(old, new, n) :
                  AppliedFirst(t, old, new)[i] # CommandAt(new[n], i)
      [] name = "CommitQuorum" ->
           \E n \in Nodes : \E i \in Commits(old, new, n) :
             i \notin DOMAIN t.committed /\ ~Backed(new, i, EntryAt(new[n], i))
      [] name = "LeaderCompleteness" ->
           \E n \in Leaders(new) : ~Complete(new[n], Committed(t, old, new))

Judge(t, old, new) ==
    [led |-> Led(t, new),
     committed |-> Committed(t, old, new),
     applied |-> AppliedFirst(t, old, new),
     violated |->
       {name \in {"ElectionSafety", "LeaderAppendOnly", "LogMatching",
                  "CommitIndexMonotonic", "StateMachineSafety", "CommitQuorum",
                  "LeaderCompleteness"} : Violated(t, old, new, name)}]

-----------------------------------------------------------------------------
(***************************************************************************)
(* One simulator step: a handler of server n, cut in two where it compacts *)
(* (_check_mid_step), and the check after it.                              *)
(***************************************************************************)
\* _maybe_compact, of all that is applied.
Compacted(v) ==
    [v EXCEPT !.base = v.commit,
              !.log = SubSeq(v.log, v.commit - v.base + 1, Len(v.log)),
              !.applied = <<>>,
              !.version = @ + 1]

\* DEFECT: the servers are looked at between steps only.
SeenStepOnce(n, v, compacts) ==
    LET last == IF compacts THEN Compacted(v) ELSE v
    IN << [view EXCEPT ![n] = last] >>

\* The states the checker sees in a step in which n becomes v, then compacts or not.
SeenStep(n, v, compacts) ==
    << [view EXCEPT ![n] = v] >>
    \o (IF compacts THEN << [view EXCEPT ![n] = Compacted(v)] >> ELSE <<>>)

\* The states that the servers go through.
Moments(n, v, compacts) ==
    << [view EXCEPT ![n] = v] >>
    \o (IF compacts THEN << [view EXCEPT ![n] = Compacted(v)] >> ELSE <<>>)

\* check raises out of the handler: what follows it does not happen.
Looked(seen) ==
    LET first == Check(checker, seen[1])
    IN IF first.alarm # "none" \/ Len(seen) = 1 THEN first
       ELSE Check(first.checker, seen[2])

Judged(moments) ==
    LET first == Judge(truth, view, moments[1])
    IN IF first.violated # {} \/ Len(moments) = 1 THEN first
       ELSE Judge(first, moments[1], moments[2])

Step(n, v, compacts) ==
    LET moments == Moments(n, v, compacts)
        look == Looked(SeenStep(n, v, compacts))
    IN /\ view' = moments[Len(moments)]
       /\ checker' = look.checker
       /\ alarm' = look.alarm
       /\ truth' = Judged(moments)

\* A count of all servers, for the bounds.
Total(F(_)) == FoldLeft(LAMBDA sum, n : sum + F(n), 0, [n \in 1 .. N |-> n])

\* Commit or uncommit up to c, applying what is new.
CommittedTo(v, c) ==
    [v EXCEPT !.commit = c,
              !.applied = [k \in 1 .. c - v.base |->
                             IF k <= Len(@) THEN @[k] ELSE v.log[k].command]]

\* A server leads a term of its own or a later one, or no longer leads.
TakeRole(n) ==
    \/ \E t \in Higher(view[n].term, 1) .. MaxTerm :
         Step(n, [view[n] EXCEPT !.role = "leader", !.term = t], FALSE)
    \/ Step(n, [view[n] EXCEPT !.role = "follower"], FALSE)

\* A server cuts its log somewhere, writes at most one entry there, commits some
\* of the log and may compact; every change of the log is a new version.
Write(n) ==
    \E upto \in 0 .. Len(view[n].log), tail \in {<<>>} \cup {<<e>> : e \in Entries} :
      LET log == SubSeq(view[n].log, 1, upto) \o tail
          changed == log # view[n].log
          v == [view[n] EXCEPT !.log = log, !.version = IF changed THEN @ + 1 ELSE @]
      IN /\ view[n].base + Len(log) <= MaxLog
         /\ \E c \in view[n].base .. LastIndex(v), compacts \in BOOLEAN :
              /\ compacts => c > view[n].commit
              /\ Step(n, CommittedTo(v, c), compacts)

\* _on_install_snapshot of what another server compacted.
Install(n, m) ==
    /\ view[m].base > view[n].commit
    /\ \E keeps \in BOOLEAN :
         /\ keeps => LastIndex(view[n]) > view[m].base
         /\ Step(n, [view[n] EXCEPT
                       !.log = IF keeps THEN SubSeq(@, view[m].base - view[n].base + 1,
                                                    Len(@)) ELSE <<>>,
                       !.base = view[m].base,
                       !.commit = view[m].base,
                       !.applied = <<>>,
                       !.version = @ + 1], FALSE)

\* _reset_volatile.
Restart(n) ==
    Step(n, [view[n] EXCEPT !.role = "follower",
                            !.commit = view[n].base,
                            !.applied = <<>>,
                            !.incarnation = @ + 1], FALSE)

Init ==
    /\ view = [n \in Nodes |->
                 [role |-> "follower", term |-> 0, log |-> <<>>, base |-> 0, commit |-> 0,
                  applied |-> <<>>, version |-> 0, incarnation |-> 0]]
    /\ checker = [leaders |-> [t \in Terms |-> 0],
                  committed |-> <<>>,
                  applied |-> <<>>,
                  maxCommit |-> 0,
                  prevCommit |-> [n \in Nodes |-> 0],
                  appliedSeen |-> [n \in Nodes |-> 0],
                  incarnation |-> [n \in Nodes |-> 0],
                  copy |-> [n \in Nodes |-> NoCopy],
                  pairs |-> [p \in Pairs |-> <<>>],
                  complete |-> [n \in Nodes |-> <<>>]]
    /\ alarm = "none"
    /\ truth = [led |-> {}, committed |-> <<>>, applied |-> <<>>, violated |-> {}]

Next ==
    /\ alarm = "none"
    /\ \E n \in Nodes :
         \/ TakeRole(n)
         \/ Total(LAMBDA m : view[m].version) < MaxVersions /\ Write(n)
         \/ \E m \in Nodes : Total(LAMBDA q : view[q].version) < MaxVersions /\ Install(n, m)
         \/ Total(LAMBDA m : view[m].incarnation) < MaxRestarts /\ Restart(n)

Spec == Init /\ [][Next]_vars

-----------------------------------------------------------------------------
\* The checker raises nothing but what is so: no cache makes it blame a run for
\* what did not happen (_handle_restarts: "instead of flagging the reset as a
\* regression").
AlarmTrue == alarm # "none" => alarm \in truth.violated

\* The checker misses nothing: whatever a step did, also to what the same step
\* compacted, the check after it raises (_check_mid_step's docstring).
NothingMissed == truth.violated # {} => alarm # "none"

\* The record of committed entries that later leaders are held to is what was
\* committed, and first in which term (InvariantChecker.committed).
RecordTrue == alarm = "none" => checker.committed = truth.committed
=============================================================================

--------------------------- MODULE CheckerProofs ---------------------------
(***************************************************************************)
(* The invariant checker is exact, for any number of servers, terms and    *)
(* entries: facts about the caches it keeps, one lemma per test, one per   *)
(* way a server changes, then the theorems.                                *)
(***************************************************************************)
EXTENDS Checker, FiniteSetTheorems, SequenceTheorems, TLAPS

-----------------------------------------------------------------------------
(***************************************************************************)
(* The invariant: between two checks the caches say what the servers are   *)
(* and what they have done.                                                *)
(***************************************************************************)
Orders == {e.command : e \in Entries}
CommitRecords == [entry : Entries, term : Nat]

Views == [role : {"leader", "follower"}, term : Nat, log : Seq(Entries), base : Nat,
          commit : Nat, applied : Seq(Orders), version : Nat, incarnation : Nat]

\* A server applies what it commits, and what it commits it stores.
SoundView(v) ==
    /\ v \in Views
    /\ v.base <= v.commit
    /\ v.commit <= LastIndex(v)
    /\ LastIndex(v) <= MaxLog
    /\ Len(v.applied) = v.commit - v.base
    /\ v.role = "leader" => v.term \in Terms

Caches ==
    [leaders : [Terms -> 0 .. N], committed : Seq(CommitRecords), applied : Seq(Orders),
     maxCommit : Nat, prevCommit : [Nodes -> Nat], appliedSeen : [Nodes -> Nat],
     incarnation : [Nodes -> Nat],
     copy : [Nodes -> [term : Nat, version : Nat, base : Nat, log : Seq(Entries)]],
     pairs : [Pairs -> Seq(Nat)], complete : [Nodes -> Seq(Nat)]]

CopyOf(v) == [term |-> v.term, version |-> v.version, base |-> v.base, log |-> v.log]

\* The progress of each server is known.
ProgressKnown(c, views) ==
    \A n \in Nodes : /\ c.incarnation[n] = views[n].incarnation
                     /\ c.prevCommit[n] = views[n].commit
                     /\ c.appliedSeen[n] = Applied(views[n])
                     /\ views[n].commit <= c.maxCommit

\* So are all leaders, commits and applications there ever were.
RecordsKnown(c, t) ==
    /\ t.led \subseteq Terms \X Nodes
    /\ \A u \in Terms, n \in Nodes : <<u, n>> \in t.led <=> c.leaders[u] = n
    /\ c.committed = t.committed /\ Len(c.committed) = c.maxCommit
    /\ c.applied = t.applied /\ Len(c.applied) = c.maxCommit

\* What is skipped next time, as long as nothing it depends on changes, passed.
TestsPassed(c, views) ==
    /\ \A n \in Nodes :
         c.copy[n] = IF n \in Leaders(views) THEN CopyOf(views[n]) ELSE NoCopy
    /\ \A p \in Pairs : /\ Match(views[p[1]], views[p[2]])
                        /\ c.pairs[p] \in {<<>>, Versions(views, p[1], p[2])}
    /\ \A n \in Nodes :
         c.complete[n] # <<>> =>
           /\ c.complete[n] = CompletenessState(c, views[n])
           /\ Complete(views[n], c.committed)

Synced(c, t, views) ==
    /\ c \in Caches
    /\ ProgressKnown(c, views)
    /\ RecordsKnown(c, t)
    /\ TestsPassed(c, views)

SoundViews(views) == views \in [Nodes -> Views] /\ \A n \in Nodes : SoundView(views[n])

Exact ==
    /\ alarm = "none" => /\ SoundViews(view)
                         /\ truth.violated = {}
                         /\ Synced(checker, truth, view)
    /\ alarm # "none" => alarm \in truth.violated

-----------------------------------------------------------------------------
(***************************************************************************)
(* The caches as the tests pass them on.                                   *)
(***************************************************************************)
\* A record with the fields of the caches, whatever is in them.
IsCache(c) ==
    c = [leaders |-> c.leaders, committed |-> c.committed, applied |-> c.applied,
         maxCommit |-> c.maxCommit, prevCommit |-> c.prevCommit,
         appliedSeen |-> c.appliedSeen, incarnation |-> c.incarnation,
         copy |-> c.copy, pairs |-> c.pairs, complete |-> c.complete]

Restarted(c, views, n) == c.incarnation[n] # views[n].incarnation

LEMMA CacheFields == \A c \in Caches : IsCache(c)
BY DEF Caches, IsCache

RestartsAreHandled(c, views, d) ==
    /\ IsCache(d)
    /\ d.leaders = c.leaders /\ d.committed = c.committed /\ d.applied = c.applied
    /\ d.maxCommit = c.maxCommit /\ d.copy = c.copy /\ d.pairs = c.pairs
    /\ d.complete = c.complete
    /\ d.incarnation = [n \in Nodes |-> views[n].incarnation]
    /\ d.prevCommit = [n \in Nodes |-> IF Restarted(c, views, n) THEN views[n].commit
                                       ELSE c.prevCommit[n]]
    /\ d.appliedSeen = [n \in Nodes |-> IF Restarted(c, views, n)
                                        THEN Applied(views[n]) ELSE c.appliedSeen[n]]

LEMMA RestartsHandled ==
    ASSUME NEW c, NEW views, IsCache(c), NEW d, d = HandleRestarts(c, views)
    PROVE  RestartsAreHandled(c, views, d)
<1> DEFINE R == {n \in Nodes : c.incarnation[n] # views[n].incarnation}
           P == [n \in Nodes |-> IF n \in R THEN views[n].commit ELSE c.prevCommit[n]]
           A == [n \in Nodes |-> IF n \in R THEN Applied(views[n]) ELSE c.appliedSeen[n]]
           I == [n \in Nodes |-> views[n].incarnation]
<1>1. d = [c EXCEPT !.incarnation = I, !.prevCommit = P, !.appliedSeen = A]
  BY DEF HandleRestarts, IsCache
<1>2. d = [leaders |-> c.leaders, committed |-> c.committed, applied |-> c.applied,
           maxCommit |-> c.maxCommit, prevCommit |-> P, appliedSeen |-> A,
           incarnation |-> I, copy |-> c.copy, pairs |-> c.pairs, complete |-> c.complete]
  <2> HIDE DEF P, A, I
  <2> QED  BY <1>1 DEF IsCache
<1>3. /\ P = [n \in Nodes |-> IF Restarted(c, views, n) THEN views[n].commit
                              ELSE c.prevCommit[n]]
      /\ A = [n \in Nodes |-> IF Restarted(c, views, n) THEN Applied(views[n])
                              ELSE c.appliedSeen[n]]
  BY Zenon DEF Restarted
<1> HIDE DEF P, A
<1> QED  BY <1>2, <1>3 DEF RestartsAreHandled, IsCache

LeadersAreSeen(c, views, d) ==
    /\ IsCache(d)
    /\ d.committed = c.committed /\ d.applied = c.applied /\ d.maxCommit = c.maxCommit
    /\ d.prevCommit = c.prevCommit /\ d.appliedSeen = c.appliedSeen
    /\ d.incarnation = c.incarnation /\ d.copy = c.copy /\ d.pairs = c.pairs
    /\ d.complete = c.complete
    /\ d.leaders = [u \in Terms |->
         IF \E n \in Leaders(views) : views[n].term = u
         THEN CHOOSE n \in Leaders(views) : views[n].term = u ELSE c.leaders[u]]

LEMMA LeadersSeen ==
    ASSUME NEW c, NEW views, IsCache(c), NEW d, d = SeeLeaders(c, views)
    PROVE  LeadersAreSeen(c, views, d)
<1> DEFINE L == [u \in Terms |->
                   IF \E n \in Leaders(views) : views[n].term = u
                   THEN CHOOSE n \in Leaders(views) : views[n].term = u ELSE c.leaders[u]]
<1>1. d = [c EXCEPT !.leaders = L]
  BY DEF SeeLeaders, IsCache
<1> HIDE DEF L
<1>2. d = [leaders |-> L, committed |-> c.committed, applied |-> c.applied,
           maxCommit |-> c.maxCommit, prevCommit |-> c.prevCommit,
           appliedSeen |-> c.appliedSeen, incarnation |-> c.incarnation,
           copy |-> c.copy, pairs |-> c.pairs, complete |-> c.complete]
  BY <1>1 DEF IsCache
<1> QED  BY <1>2 DEF LeadersAreSeen, IsCache, L

LeadersAreCopied(c, views, d) ==
    /\ IsCache(d)
    /\ d.leaders = c.leaders /\ d.committed = c.committed /\ d.applied = c.applied
    /\ d.maxCommit = c.maxCommit /\ d.prevCommit = c.prevCommit
    /\ d.appliedSeen = c.appliedSeen /\ d.incarnation = c.incarnation
    /\ d.pairs = c.pairs /\ d.complete = c.complete
    /\ d.copy = [n \in Nodes |->
         IF n \notin Leaders(views) THEN NoCopy
         ELSE IF Kept(c, views, n) /\ c.copy[n].version = views[n].version
         THEN c.copy[n] ELSE CopyOf(views[n])]

LEMMA LeadersCopied ==
    ASSUME NEW c, NEW views, IsCache(c), NEW d, d = CopyLeaders(c, views)
    PROVE  LeadersAreCopied(c, views, d)
<1> DEFINE L == [n \in Nodes |->
                   IF n \notin Leaders(views) THEN NoCopy
                   ELSE IF Kept(c, views, n) /\ c.copy[n].version = views[n].version
                   THEN c.copy[n] ELSE CopyOf(views[n])]
<1>1. d = [c EXCEPT !.copy = L]
  BY DEF CopyLeaders, IsCache, CopyOf
<1> HIDE DEF L
<1>2. d = [leaders |-> c.leaders, committed |-> c.committed, applied |-> c.applied,
           maxCommit |-> c.maxCommit, prevCommit |-> c.prevCommit,
           appliedSeen |-> c.appliedSeen, incarnation |-> c.incarnation,
           copy |-> L, pairs |-> c.pairs, complete |-> c.complete]
  BY <1>1 DEF IsCache
<1> QED  BY <1>2 DEF LeadersAreCopied, IsCache, L

PairsAreCompared(c, views, d) ==
    /\ IsCache(d)
    /\ d.leaders = c.leaders /\ d.committed = c.committed /\ d.applied = c.applied
    /\ d.maxCommit = c.maxCommit /\ d.prevCommit = c.prevCommit
    /\ d.appliedSeen = c.appliedSeen /\ d.incarnation = c.incarnation
    /\ d.copy = c.copy /\ d.complete = c.complete
    /\ d.pairs = [p \in Pairs |-> Versions(views, p[1], p[2])]

LEMMA PairsCompared ==
    ASSUME NEW c, NEW views, IsCache(c), NEW d, d = ComparePairs(c, views)
    PROVE  PairsAreCompared(c, views, d)
<1> DEFINE L == [p \in Pairs |-> Versions(views, p[1], p[2])]
<1>1. d = [c EXCEPT !.pairs = L]
  BY DEF ComparePairs, IsCache
<1> HIDE DEF L
<1>2. d = [leaders |-> c.leaders, committed |-> c.committed, applied |-> c.applied,
           maxCommit |-> c.maxCommit, prevCommit |-> c.prevCommit,
           appliedSeen |-> c.appliedSeen, incarnation |-> c.incarnation,
           copy |-> c.copy, pairs |-> L, complete |-> c.complete]
  BY <1>1 DEF IsCache
<1> QED  BY <1>2 DEF PairsAreCompared, IsCache, L

CommitsAreObserved(c, views, d) ==
    /\ IsCache(d)
    /\ d.leaders = c.leaders /\ d.applied = c.applied
    /\ d.appliedSeen = c.appliedSeen /\ d.incarnation = c.incarnation
    /\ d.copy = c.copy /\ d.pairs = c.pairs /\ d.complete = c.complete
    /\ d.committed = [i \in DOMAIN c.committed
                            \cup UNION {NewCommits(c, views, n) : n \in Nodes} |->
                        CommitOnRecord(c, views, i)]
    /\ d.maxCommit = Max({c.maxCommit} \cup {views[n].commit : n \in Nodes})
    /\ d.prevCommit = [n \in Nodes |-> views[n].commit]

LEMMA CommitsObserved ==
    ASSUME NEW c, NEW views, IsCache(c), NEW d, d = ObserveCommits(c, views)
    PROVE  CommitsAreObserved(c, views, d)
<1> DEFINE L == [i \in DOMAIN c.committed
                         \cup UNION {NewCommits(c, views, n) : n \in Nodes} |->
                   CommitOnRecord(c, views, i)]
           M == Max({c.maxCommit} \cup {views[n].commit : n \in Nodes})
           P == [n \in Nodes |-> views[n].commit]
<1>1. d = [c EXCEPT !.committed = L, !.maxCommit = M, !.prevCommit = P]
  BY DEF ObserveCommits, IsCache
<1> HIDE DEF L, M, P
<1>2. d = [leaders |-> c.leaders, committed |-> L, applied |-> c.applied,
           maxCommit |-> M, prevCommit |-> P,
           appliedSeen |-> c.appliedSeen, incarnation |-> c.incarnation,
           copy |-> c.copy, pairs |-> c.pairs, complete |-> c.complete]
  BY <1>1 DEF IsCache
<1> QED  BY <1>2 DEF CommitsAreObserved, IsCache, L, M, P

CompleteAreSeen(c, views, d) ==
    /\ IsCache(d)
    /\ d.leaders = c.leaders /\ d.committed = c.committed /\ d.applied = c.applied
    /\ d.maxCommit = c.maxCommit /\ d.prevCommit = c.prevCommit
    /\ d.appliedSeen = c.appliedSeen /\ d.incarnation = c.incarnation
    /\ d.copy = c.copy /\ d.pairs = c.pairs
    /\ d.complete = [n \in Nodes |-> IF n \in Leaders(views)
                                     THEN CompletenessState(c, views[n]) ELSE <<>>]

LEMMA CompleteSeen ==
    ASSUME NEW c, NEW views, IsCache(c), NEW d, d = SeeComplete(c, views)
    PROVE  CompleteAreSeen(c, views, d)
<1> DEFINE L == [n \in Nodes |-> IF n \in Leaders(views)
                                 THEN CompletenessState(c, views[n]) ELSE <<>>]
<1>1. d = [c EXCEPT !.complete = L]
  BY DEF SeeComplete, IsCache
<1> HIDE DEF L
<1>2. d = [leaders |-> c.leaders, committed |-> c.committed, applied |-> c.applied,
           maxCommit |-> c.maxCommit, prevCommit |-> c.prevCommit,
           appliedSeen |-> c.appliedSeen, incarnation |-> c.incarnation,
           copy |-> c.copy, pairs |-> c.pairs, complete |-> L]
  BY <1>1 DEF IsCache
<1> QED  BY <1>2 DEF CompleteAreSeen, IsCache, L

AppliedAreSeen(c, views, d) ==
    /\ IsCache(d)
    /\ d.leaders = c.leaders /\ d.committed = c.committed
    /\ d.maxCommit = c.maxCommit /\ d.prevCommit = c.prevCommit
    /\ d.incarnation = c.incarnation
    /\ d.copy = c.copy /\ d.pairs = c.pairs /\ d.complete = c.complete
    /\ d.applied = [i \in DOMAIN c.applied
                          \cup UNION {NewApplied(c, views, n) : n \in Nodes} |->
                      AppliedOnRecord(c, views, i)]
    /\ d.appliedSeen = [n \in Nodes |-> Higher(c.appliedSeen[n], Applied(views[n]))]

LEMMA AppliedSeen ==
    ASSUME NEW c, NEW views, IsCache(c), NEW d, d = SeeApplied(c, views)
    PROVE  AppliedAreSeen(c, views, d)
<1> DEFINE L == [i \in DOMAIN c.applied \cup UNION {NewApplied(c, views, n) : n \in Nodes} |->
                   AppliedOnRecord(c, views, i)]
           A == [n \in Nodes |-> Higher(c.appliedSeen[n], Applied(views[n]))]
<1>1. d = [c EXCEPT !.applied = L, !.appliedSeen = A]
  BY DEF SeeApplied, IsCache
<1> HIDE DEF L, A
<1>2. d = [leaders |-> c.leaders, committed |-> c.committed, applied |-> L,
           maxCommit |-> c.maxCommit, prevCommit |-> c.prevCommit,
           appliedSeen |-> A, incarnation |-> c.incarnation,
           copy |-> c.copy, pairs |-> c.pairs, complete |-> c.complete]
  BY <1>1 DEF IsCache
<1> QED  BY <1>2 DEF AppliedAreSeen, IsCache, L, A

-----------------------------------------------------------------------------
(***************************************************************************)
(* One step: a single server k changes, from old[k] to new[k].             *)
(***************************************************************************)
\* A changed log has a new version, only what some server committed is compacted,
\* and who restarts has committed nothing else.
Change(k, old, new) ==
    /\ SoundViews(old)
    /\ SoundViews(new)
    /\ k \in Nodes
    /\ \A n \in Nodes \ {k} : new[n] = old[n]
    /\ \E m \in Nodes : new[k].base \in {old[m].base, old[m].commit}
    /\ new[k].version = old[k].version =>
         new[k].log = old[k].log /\ new[k].base = old[k].base
    /\ new[k].incarnation # old[k].incarnation => new[k].commit = new[k].base

LEMMA ViewFields ==
    ASSUME NEW v, SoundView(v)
    PROVE  /\ v.base \in Nat /\ v.commit \in Nat /\ v.base <= v.commit
           /\ Applied(v) = v.commit
           /\ v.term \in Nat /\ v.version \in Nat /\ v.incarnation \in Nat
           /\ v.log \in Seq(Entries) /\ Len(v.log) \in Nat
           /\ LastIndex(v) = v.base + Len(v.log) /\ v.commit <= LastIndex(v)
           /\ v.applied \in Seq(Orders) /\ Len(v.applied) = v.commit - v.base
<1>1. v \in Views
  BY DEF SoundView
<1>2. /\ v.base \in Nat /\ v.commit \in Nat /\ v.log \in Seq(Entries)
      /\ v.applied \in Seq(Orders) /\ v.term \in Nat /\ v.version \in Nat
      /\ v.incarnation \in Nat
  BY <1>1 DEF Views
<1>3. Len(v.log) \in Nat
  BY <1>2
<1>4. v.base + (v.commit - v.base) = v.commit
  BY <1>2
<1> QED  BY <1>2, <1>3, <1>4 DEF SoundView, LastIndex, Applied

\* Only k commits and applies, and it applies what it commits.
LEMMA OneAdvances ==
    ASSUME NEW k, NEW old, NEW new, Change(k, old, new)
    PROVE  /\ \A n \in Nodes \ {k} : Commits(old, new, n) = {}
           /\ \A n \in Nodes : Applies(old, new, n) = Commits(old, new, n)
           /\ UNION {Commits(old, new, n) : n \in Nodes} = Commits(old, new, k)
           /\ \A i : {n \in Nodes : i \in Commits(old, new, n)} =
                       IF i \in Commits(old, new, k) THEN {k} ELSE {}
<1>1. ASSUME NEW n \in Nodes \ {k} PROVE Commits(old, new, n) = {}
  <2>1. new[n] = old[n] /\ SoundView(new[n])
    BY DEF Change, SoundViews
  <2>2. PICK b \in Nat, x \in Nat : b = new[n].base /\ x = new[n].commit /\ b <= x
    BY <2>1, ViewFields
  <2>3. Higher(x, b) = x
    BY <2>2 DEF Higher
  <2>4. x + 1 .. x = {}
    BY <2>2
  <2> QED  BY <2>1, <2>2, <2>3, <2>4 DEF Commits, Advance
<1>2. ASSUME NEW n \in Nodes PROVE Applies(old, new, n) = Commits(old, new, n)
  <2>1. SoundView(new[n]) /\ SoundView(old[n])
    BY DEF Change, SoundViews
  <2>2. Applied(new[n]) = new[n].commit /\ Applied(old[n]) = old[n].commit
    BY <2>1, ViewFields
  <2> QED  BY <2>2 DEF Applies, Commits
<1>3. k \in Nodes
  BY DEF Change
<1> HIDE DEF Commits
<1>4. UNION {Commits(old, new, n) : n \in Nodes} = Commits(old, new, k)
  BY <1>1, <1>3
<1>5. ASSUME NEW i
      PROVE  {n \in Nodes : i \in Commits(old, new, n)} =
               IF i \in Commits(old, new, k) THEN {k} ELSE {}
  BY <1>1, <1>3
<1> QED  BY <1>1, <1>2, <1>4, <1>5

\* The caches' view of what is new is what is new.
LEMMA NewIsNew ==
    ASSUME NEW k, NEW old, NEW new, Change(k, old, new),
           NEW c, NEW t, Synced(c, t, old), NEW d,
           d.prevCommit = [n \in Nodes |-> IF Restarted(c, new, n) THEN new[n].commit
                                           ELSE c.prevCommit[n]],
           NEW n \in Nodes
    PROVE  NewCommits(d, new, n) = Commits(old, new, n)
<1>1. SoundView(new[n])
  BY DEF Change, SoundViews
<1>2. /\ c.incarnation[n] = old[n].incarnation
      /\ c.prevCommit[n] = old[n].commit
  BY DEF Synced, ProgressKnown
<1>3. CASE Restarted(c, new, n)
  <2>1. d.prevCommit[n] = new[n].commit
    BY <1>3
  <2>2. PICK b \in Nat, x \in Nat : b = new[n].base /\ x = new[n].commit /\ b <= x
    BY <1>1, ViewFields
  <2>3. Higher(x, b) + 1 .. x = {}
    BY <2>2 DEF Higher
  <2>4. Commits(old, new, n) = {}
    BY <1>2, <1>3 DEF Commits, Advance, Restarted
  <2> QED  BY <2>1, <2>2, <2>3, <2>4 DEF NewCommits
<1>4. CASE ~Restarted(c, new, n)
  <2>1. d.prevCommit[n] = old[n].commit
    BY <1>2, <1>4
  <2>2. old[n].incarnation = new[n].incarnation
    BY <1>2, <1>4 DEF Restarted
  <2> QED  BY <2>1, <2>2 DEF NewCommits, Commits, Advance
<1> QED  BY <1>3, <1>4

LEMMA NewAppliedIsNew ==
    ASSUME NEW k, NEW old, NEW new, Change(k, old, new),
           NEW c, NEW t, Synced(c, t, old), NEW d,
           d.appliedSeen = [n \in Nodes |-> IF Restarted(c, new, n) THEN Applied(new[n])
                                            ELSE c.appliedSeen[n]],
           NEW n \in Nodes
    PROVE  NewApplied(d, new, n) = Applies(old, new, n)
<1>1. SoundView(new[n])
  BY DEF Change, SoundViews
<1>2. /\ c.incarnation[n] = old[n].incarnation
      /\ c.appliedSeen[n] = Applied(old[n])
  BY DEF Synced, ProgressKnown
<1>3. CASE Restarted(c, new, n)
  <2>1. d.appliedSeen[n] = Applied(new[n])
    BY <1>3
  <2>2. PICK b \in Nat, x \in Nat : b = new[n].base /\ x = Applied(new[n]) /\ b <= x
    BY <1>1, ViewFields
  <2>3. Higher(x, b) + 1 .. x = {}
    BY <2>2 DEF Higher
  <2>4. Applies(old, new, n) = {}
    BY <1>2, <1>3 DEF Applies, Advance, Restarted
  <2> QED  BY <2>1, <2>2, <2>3, <2>4 DEF NewApplied
<1>4. CASE ~Restarted(c, new, n)
  <2>1. d.appliedSeen[n] = Applied(old[n])
    BY <1>2, <1>4
  <2>2. old[n].incarnation = new[n].incarnation
    BY <1>2, <1>4 DEF Restarted
  <2> QED  BY <2>1, <2>2 DEF NewApplied, Applies, Advance
<1> QED  BY <1>3, <1>4

LEMMA HigherIs ==
    ASSUME NEW a \in Nat, NEW b \in Nat
    PROVE  /\ Higher(a, b) \in Nat
           /\ Higher(a, b) \in {a, b}
           /\ a <= Higher(a, b)
           /\ b <= Higher(a, b)
BY DEF Higher

LEMMA MaxIs ==
    ASSUME NEW S \in SUBSET Nat, NEW x \in S, \A y \in S : y <= x
    PROVE  Max(S) = x
<1>1. x \in S /\ \A y \in S : x >= y
  OBVIOUS
<1>2. Max(S) \in S /\ \A y \in S : Max(S) >= y
  <2>1. Max(S) = CHOOSE z \in S : \A y \in S : z >= y
    BY Zenon DEF Max
  <2> QED  BY <1>1, <2>1
<1>3. PICK m \in Nat : m = Max(S)
  BY <1>2
<1>4. m <= x /\ x <= m
  BY <1>1, <1>2, <1>3
<1> QED  BY <1>3, <1>4

LEMMA MinOfOne ==
    ASSUME NEW k \in Nat
    PROVE  Min({k}) = k
<1>1. Min({k}) = CHOOSE z \in {k} : \A y \in {k} : z <= y
  BY Zenon DEF Min
<1> QED  BY <1>1

\* The highest index that is on record as committed, or committed now.
Highest(c, views) == Max({c.maxCommit} \cup {views[n].commit : n \in Nodes})

\* What is new continues what is on record, up to the highest commit.
LEMMA RecordGrows ==
    ASSUME NEW k, NEW old, NEW new, Change(k, old, new), NEW c, NEW t, Synced(c, t, old)
    PROVE  /\ Highest(c, new) \in Nat
           /\ c.maxCommit \in Nat /\ c.maxCommit <= Highest(c, new)
           /\ \A n \in Nodes : new[n].commit <= Highest(c, new)
           /\ 1 .. c.maxCommit \cup Commits(old, new, k) = 1 .. Highest(c, new)
           /\ new[k].base <= c.maxCommit
<1>1. k \in Nodes /\ SoundView(new[k]) /\ SoundView(old[k])
  BY DEF Change, SoundViews
<1>2. PICK p \in Nat : p = c.maxCommit
  BY DEF Synced, Caches
<1>3. \A n \in Nodes : old[n].base \in Nat /\ old[n].commit \in Nat /\ old[n].base <= old[n].commit
  BY ViewFields DEF Change, SoundViews
<1>4. \A n \in Nodes : old[n].commit <= p
  BY <1>2 DEF Synced, ProgressKnown
<1>5. PICK b \in Nat, x \in Nat, o \in Nat :
        b = new[k].base /\ x = new[k].commit /\ o = old[k].commit /\ b <= x
  BY <1>1, <1>3, ViewFields
<1>6. b <= p
  <2>1. PICK m \in Nodes : b = old[m].base \/ b = old[m].commit
    BY <1>5 DEF Change
  <2>2. PICK y \in Nat, z \in Nat : y = old[m].base /\ z = old[m].commit /\ y <= z /\ z <= p
    BY <1>3, <1>4, <2>1
  <2> QED  BY <2>1, <2>2
<1>7. o <= p
  BY <1>1, <1>4, <1>5
<1>8. PICK M \in Nat : M = Higher(p, x) /\ M \in {p, x} /\ p <= M /\ x <= M
  BY HigherIs
<1>9. \A n \in Nodes : new[n].commit \in Nat /\ new[n].commit <= M
  <2> TAKE n \in Nodes
  <2>1. CASE n = k
    BY <1>5, <1>8, <2>1
  <2>2. CASE n # k
    <3>1. new[n] = old[n]
      BY <2>2 DEF Change
    <3>2. PICK z \in Nat : z = old[n].commit /\ z <= p
      BY <1>3, <1>4
    <3> QED  BY <1>8, <3>1, <3>2
  <2> QED  BY <2>1, <2>2
<1>10. M = Max({p} \cup {new[n].commit : n \in Nodes})
  <2> DEFINE S == {p} \cup {new[n].commit : n \in Nodes}
  <2>1. S \in SUBSET Nat
    BY <1>9
  <2>2. \A y \in S : y <= M
    BY <1>8, <1>9
  <2>3. M \in S
    BY <1>1, <1>5, <1>8
  <2>4. Max(S) = M
    <3> HIDE DEF S
    <3> QED  BY <2>1, <2>2, <2>3, MaxIs
  <2> QED  BY <2>4
<1>11. 1 .. p \cup Commits(old, new, k) = 1 .. M
  <2>1. CASE new[k].incarnation # old[k].incarnation
    <3>1. x = b
      BY <1>5, <2>1 DEF Change
    <3>2. M = p
      BY <1>6, <1>8, <3>1
    <3>3. Commits(old, new, k) = {}
      BY <2>1 DEF Commits, Advance
    <3> QED  BY <3>2, <3>3
  <2>2. CASE new[k].incarnation = old[k].incarnation
    <3>1. PICK h \in Nat : h = Higher(o, b) /\ h <= p
      BY <1>6, <1>7, HigherIs
    <3>2. Commits(old, new, k) = h + 1 .. x
      BY <1>5, <2>2, <3>1 DEF Commits, Advance
    <3>3. 1 .. p \cup (h + 1 .. x) = 1 .. M
      BY <1>8, <3>1
    <3> QED  BY <3>2, <3>3
  <2> QED  BY <2>1, <2>2
<1>12. Highest(c, new) = M
  BY <1>2, <1>10 DEF Highest
<1> QED  BY <1>2, <1>5, <1>6, <1>8, <1>9, <1>11, <1>12

\* The record of c, with what k newly committed, or applied.
IsCommitRecord(R, c, k, old, new) ==
    /\ R = [i \in DOMAIN c.committed \cup Commits(old, new, k) |-> R[i]]
    /\ \A i \in DOMAIN c.committed \cup Commits(old, new, k) :
         R[i] = IF i \in DOMAIN c.committed THEN c.committed[i]
                ELSE [entry |-> EntryAt(new[k], i), term |-> new[k].term]

IsAppliedRecord(R, c, k, old, new) ==
    /\ R = [i \in DOMAIN c.applied \cup Commits(old, new, k) |-> R[i]]
    /\ \A i \in DOMAIN c.applied \cup Commits(old, new, k) :
         R[i] = IF i \in DOMAIN c.applied THEN c.applied[i] ELSE CommandAt(new[k], i)

\* What was really committed, and applied, so far is what is on record and what is new.
LEMMA CommittedIs ==
    ASSUME NEW k, NEW old, NEW new, Change(k, old, new), NEW c, NEW t, Synced(c, t, old)
    PROVE  IsCommitRecord(Committed(t, old, new), c, k, old, new)
<1>1. t.committed = c.committed
  BY DEF Synced, RecordsKnown
<1>2. ASSUME NEW i \in DOMAIN c.committed \cup Commits(old, new, k)
      PROVE  Committed(t, old, new)[i] =
               IF i \in DOMAIN c.committed THEN c.committed[i]
               ELSE [entry |-> EntryAt(new[k], i), term |-> new[k].term]
  <2>1. i \in DOMAIN t.committed \cup UNION {Commits(old, new, n) : n \in Nodes}
    BY <1>1, OneAdvances
  <2>2. Committed(t, old, new)[i] =
          IF i \in DOMAIN t.committed THEN t.committed[i]
          ELSE LET n == CHOOSE m \in Nodes : i \in Commits(old, new, m)
               IN [entry |-> EntryAt(new[n], i), term |-> new[n].term]
    BY <2>1 DEF Committed
  <2>3. CASE i \in DOMAIN c.committed
    BY <1>1, <2>2, <2>3
  <2>4. CASE i \notin DOMAIN c.committed
    <3>1. {n \in Nodes : i \in Commits(old, new, n)} = {k}
      BY <2>4, OneAdvances
    <3>2. (CHOOSE m \in Nodes : i \in Commits(old, new, m)) = k
      BY <3>1
    <3> QED  BY <1>1, <2>2, <2>4, <3>2
  <2> QED  BY <2>3, <2>4
<1>3. DOMAIN Committed(t, old, new) = DOMAIN c.committed \cup Commits(old, new, k)
  BY <1>1, OneAdvances DEF Committed
<1>4. Committed(t, old, new) =
        [i \in DOMAIN Committed(t, old, new) |-> Committed(t, old, new)[i]]
  BY DEF Committed
<1> HIDE DEF Committed
<1> QED  BY <1>2, <1>3, <1>4 DEF IsCommitRecord

LEMMA AppliedIs ==
    ASSUME NEW k, NEW old, NEW new, Change(k, old, new), NEW c, NEW t, Synced(c, t, old)
    PROVE  IsAppliedRecord(AppliedFirst(t, old, new), c, k, old, new)
<1>1. t.applied = c.applied
  BY DEF Synced, RecordsKnown
<1>2. /\ \A n \in Nodes : Applies(old, new, n) = Commits(old, new, n)
      /\ UNION {Applies(old, new, n) : n \in Nodes} = Commits(old, new, k)
  <2>1. \A n \in Nodes : Applies(old, new, n) = Commits(old, new, n)
    BY OneAdvances
  <2>2. UNION {Applies(old, new, n) : n \in Nodes} = UNION {Commits(old, new, n) : n \in Nodes}
    BY <2>1
  <2> QED  BY <2>1, <2>2, OneAdvances
<1>3. ASSUME NEW i \in DOMAIN c.applied \cup Commits(old, new, k)
      PROVE  AppliedFirst(t, old, new)[i] =
               IF i \in DOMAIN c.applied THEN c.applied[i] ELSE CommandAt(new[k], i)
  <2>1. i \in DOMAIN t.applied \cup UNION {Applies(old, new, n) : n \in Nodes}
    BY <1>1, <1>2
  <2>2. AppliedFirst(t, old, new)[i] =
          IF i \in DOMAIN t.applied THEN t.applied[i]
          ELSE CommandAt(new[CHOOSE m \in Nodes : i \in Applies(old, new, m)], i)
    BY <2>1 DEF AppliedFirst
  <2>3. CASE i \in DOMAIN c.applied
    BY <1>1, <2>2, <2>3
  <2>4. CASE i \notin DOMAIN c.applied
    <3>1. {n \in Nodes : i \in Commits(old, new, n)} = {k}
      BY <2>4, OneAdvances
    <3>2. {n \in Nodes : i \in Applies(old, new, n)} = {k}
      BY <1>2, <3>1
    <3>3. (CHOOSE m \in Nodes : i \in Applies(old, new, m)) = k
      BY <3>2
    <3> QED  BY <1>1, <2>2, <2>4, <3>3
  <2> QED  BY <2>3, <2>4
<1>4. DOMAIN AppliedFirst(t, old, new) = DOMAIN c.applied \cup Commits(old, new, k)
  BY <1>1, <1>2 DEF AppliedFirst
<1>5. AppliedFirst(t, old, new) =
        [i \in DOMAIN AppliedFirst(t, old, new) |-> AppliedFirst(t, old, new)[i]]
  BY DEF AppliedFirst
<1> HIDE DEF AppliedFirst
<1> QED  BY <1>3, <1>4, <1>5 DEF IsAppliedRecord

\* Caches d that have not yet taken in what a step to new commits, or applies.
CommitsAhead(d, c, old, new) ==
    /\ d.committed = c.committed
    /\ d.maxCommit = c.maxCommit
    /\ \A n \in Nodes : NewCommits(d, new, n) = Commits(old, new, n)

AppliesAhead(d, c, old, new) ==
    /\ d.applied = c.applied
    /\ \A n \in Nodes : NewApplied(d, new, n) = Applies(old, new, n)

\* R is what caches d are about to put on record.
WillRecord(d, views, R) ==
    /\ \A i \in DOMAIN R : CommitOnRecord(d, views, i) = R[i]
    /\ R = [i \in DOMAIN d.committed \cup UNION {NewCommits(d, views, n) : n \in Nodes} |->
              CommitOnRecord(d, views, i)]

WillRecordApplied(d, views, R) ==
    /\ \A i \in DOMAIN R : AppliedOnRecord(d, views, i) = R[i]
    /\ R = [i \in DOMAIN d.applied \cup UNION {NewApplied(d, views, n) : n \in Nodes} |->
              AppliedOnRecord(d, views, i)]

\* What the checker puts on record as committed is what was.
LEMMA SameCommits ==
    ASSUME NEW k, NEW old, NEW new, Change(k, old, new), NEW c, NEW t, Synced(c, t, old),
           NEW d, CommitsAhead(d, c, old, new)
    PROVE  WillRecord(d, new, Committed(t, old, new))
<1>1. k \in Nodes
  BY DEF Change
<1>2. /\ d.committed = c.committed
      /\ \A n \in Nodes : NewCommits(d, new, n) = Commits(old, new, n)
  BY DEF CommitsAhead
<1>3. UNION {NewCommits(d, new, n) : n \in Nodes} = Commits(old, new, k)
  <2>1. UNION {NewCommits(d, new, n) : n \in Nodes} = UNION {Commits(old, new, n) : n \in Nodes}
    BY <1>2
  <2> QED  BY <2>1, OneAdvances
<1>4. IsCommitRecord(Committed(t, old, new), c, k, old, new)
  BY CommittedIs
<1>5. ASSUME NEW i \in DOMAIN c.committed \cup Commits(old, new, k)
      PROVE  Committed(t, old, new)[i] = CommitOnRecord(d, new, i)
  <2>1. Committed(t, old, new)[i] =
          IF i \in DOMAIN c.committed THEN c.committed[i]
          ELSE [entry |-> EntryAt(new[k], i), term |-> new[k].term]
    BY <1>4 DEF IsCommitRecord
  <2>2. CASE i \in DOMAIN c.committed
    BY <1>2, <2>1, <2>2 DEF CommitOnRecord
  <2>3. CASE i \notin DOMAIN c.committed
    <3>1. {n \in Nodes : i \in Commits(old, new, n)} = {k}
      BY <2>3, OneAdvances
    <3>2. Committers(d, new, i) = {k}
      BY <1>2, <3>1 DEF Committers
    <3>3. Min(Committers(d, new, i)) = k
      BY <1>1, <3>2, MinOfOne DEF Nodes
    <3> QED  BY <1>2, <2>1, <2>3, <3>3 DEF CommitOnRecord
  <2> QED  BY <2>2, <2>3
<1>6. DOMAIN d.committed \cup UNION {NewCommits(d, new, n) : n \in Nodes} =
        DOMAIN Committed(t, old, new)
  BY <1>2, <1>3, <1>4 DEF IsCommitRecord
<1> QED  BY <1>4, <1>5, <1>6 DEF IsCommitRecord, WillRecord

\* The same of what it puts on record as applied.
LEMMA SameApplications ==
    ASSUME NEW k, NEW old, NEW new, Change(k, old, new), NEW c, NEW t, Synced(c, t, old),
           NEW d, AppliesAhead(d, c, old, new)
    PROVE  WillRecordApplied(d, new, AppliedFirst(t, old, new))
<1>1. k \in Nodes
  BY DEF Change
<1>2. /\ d.applied = c.applied
      /\ \A n \in Nodes : NewApplied(d, new, n) = Commits(old, new, n)
  BY OneAdvances DEF AppliesAhead
<1>3. UNION {NewApplied(d, new, n) : n \in Nodes} = Commits(old, new, k)
  <2>1. UNION {NewApplied(d, new, n) : n \in Nodes} = UNION {Commits(old, new, n) : n \in Nodes}
    BY <1>2
  <2> QED  BY <2>1, OneAdvances
<1>4. IsAppliedRecord(AppliedFirst(t, old, new), c, k, old, new)
  BY AppliedIs
<1>5. ASSUME NEW i \in DOMAIN c.applied \cup Commits(old, new, k)
      PROVE  AppliedFirst(t, old, new)[i] = AppliedOnRecord(d, new, i)
  <2>1. AppliedFirst(t, old, new)[i] =
          IF i \in DOMAIN c.applied THEN c.applied[i] ELSE CommandAt(new[k], i)
    BY <1>4 DEF IsAppliedRecord
  <2>2. CASE i \in DOMAIN c.applied
    BY <1>2, <2>1, <2>2 DEF AppliedOnRecord
  <2>3. CASE i \notin DOMAIN c.applied
    <3>1. {n \in Nodes : i \in Commits(old, new, n)} = {k}
      BY <2>3, OneAdvances
    <3>2. Appliers(d, new, i) = {k}
      BY <1>2, <3>1 DEF Appliers
    <3>3. Min(Appliers(d, new, i)) = k
      BY <1>1, <3>2, MinOfOne DEF Nodes
    <3> QED  BY <1>2, <2>1, <2>3, <3>3 DEF AppliedOnRecord
  <2> QED  BY <2>2, <2>3
<1>6. DOMAIN d.applied \cup UNION {NewApplied(d, new, n) : n \in Nodes} =
        DOMAIN AppliedFirst(t, old, new)
  BY <1>2, <1>3, <1>4 DEF IsAppliedRecord
<1> QED  BY <1>4, <1>5, <1>6 DEF IsAppliedRecord, WillRecordApplied

\* The records stay sequences.
LEMMA RecordsTyped ==
    ASSUME NEW k, NEW old, NEW new, Change(k, old, new), NEW c, NEW t, Synced(c, t, old)
    PROVE  /\ Committed(t, old, new) \in Seq(CommitRecords)
           /\ Len(Committed(t, old, new)) = Highest(c, new)
           /\ AppliedFirst(t, old, new) \in Seq(Orders)
           /\ Len(AppliedFirst(t, old, new)) = Highest(c, new)
<1> DEFINE C == Committed(t, old, new)
           A == AppliedFirst(t, old, new)
<1>1. SoundView(new[k])
  BY DEF Change, SoundViews
<1>2. PICK b \in Nat, x \in Nat, z \in Nat :
        /\ b = new[k].base /\ x = new[k].commit /\ z = Len(new[k].log)
        /\ b <= x /\ x <= b + z
  <2>1. /\ new[k].base \in Nat /\ new[k].commit \in Nat /\ Len(new[k].log) \in Nat
        /\ new[k].base <= new[k].commit
    BY <1>1, ViewFields
  <2>2. new[k].commit <= new[k].base + Len(new[k].log)
    BY <1>1, ViewFields
  <2> QED  BY <2>1, <2>2
<1>3. /\ new[k].log \in Seq(Entries) /\ new[k].applied \in Seq(Orders)
      /\ Len(new[k].applied) = x - b /\ new[k].term \in Nat
  BY <1>1, <1>2, ViewFields
<1>4. ASSUME NEW i \in Commits(old, new, k)
      PROVE  EntryAt(new[k], i) \in Entries /\ CommandAt(new[k], i) \in Orders
  <2>1. SoundView(old[k])
    BY DEF Change, SoundViews
  <2>2. PICK o \in Nat : o = old[k].commit
    BY <2>1, ViewFields
  <2>3. i \in Higher(o, b) + 1 .. x
    BY <1>2, <2>2 DEF Commits, Advance
  <2>4. PICK h \in Nat : h = Higher(o, b) /\ b <= h
    BY HigherIs
  <2>5. i - b \in 1 .. z /\ i - b \in 1 .. x - b
    <3>1. PICK j \in Int : j = i /\ h + 1 <= j /\ j <= x
      BY <2>3, <2>4
    <3>2. 1 <= j - b
      BY <1>2, <2>4, <3>1
    <3>3. j - b <= z
      <4>1. j <= b + z
        BY <1>2, <3>1
      <4> QED  BY <1>2, <3>1, <4>1
    <3>4. j - b <= x - b
      BY <1>2, <3>1
    <3> QED  BY <3>1, <3>2, <3>3, <3>4
  <2>6. new[k].log[i - b] \in Entries
    <3>1. i - b \in DOMAIN new[k].log
      BY <1>2, <1>3, <2>5
    <3> QED  BY <1>3, <3>1
  <2>7. new[k].applied[i - b] \in Orders
    BY <1>3, <2>5
  <2> QED  BY <1>2, <2>6, <2>7 DEF EntryAt, CommandAt
<1>5. /\ c.committed \in Seq(CommitRecords) /\ c.applied \in Seq(Orders)
      /\ Len(c.committed) = c.maxCommit /\ Len(c.applied) = c.maxCommit
  BY DEF Synced, Caches, RecordsKnown
<1>6. DOMAIN c.committed = 1 .. c.maxCommit /\ DOMAIN c.applied = 1 .. c.maxCommit
  BY <1>5
<1>7. PICK M \in Nat :
        M = Highest(c, new) /\ 1 .. c.maxCommit \cup Commits(old, new, k) = 1 .. M
  BY RecordGrows
<1>20. IsCommitRecord(Committed(t, old, new), c, k, old, new)
  BY CommittedIs
<1>8. /\ DOMAIN C = 1 .. M
      /\ C = [i \in 1 .. M |-> C[i]]
      /\ \A i \in 1 .. M : C[i] = IF i \in DOMAIN c.committed THEN c.committed[i]
                                   ELSE [entry |-> EntryAt(new[k], i), term |-> new[k].term]
  BY <1>6, <1>7, <1>20 DEF IsCommitRecord
<1>21. IsAppliedRecord(AppliedFirst(t, old, new), c, k, old, new)
  BY AppliedIs
<1>9. /\ DOMAIN A = 1 .. M
       /\ A = [i \in 1 .. M |-> A[i]]
       /\ \A i \in 1 .. M : A[i] = IF i \in DOMAIN c.applied THEN c.applied[i]
                                    ELSE CommandAt(new[k], i)
  BY <1>6, <1>7, <1>21 DEF IsAppliedRecord
<1> HIDE DEF C, A
<1>10. \A i \in 1 .. M : C[i] \in CommitRecords
  <2> TAKE i \in 1 .. M
  <2>1. CASE i \in DOMAIN c.committed
    <3>1. C[i] = c.committed[i]
      BY <1>8, <2>1
    <3> QED  BY <1>5, <2>1, <3>1
  <2>2. CASE i \notin DOMAIN c.committed
    <3>1. i \in Commits(old, new, k)
      BY <1>6, <1>7, <2>2
    <3>2. C[i] = [entry |-> EntryAt(new[k], i), term |-> new[k].term]
      BY <1>8, <2>2
    <3> QED  BY <1>3, <1>4, <3>1, <3>2 DEF CommitRecords
  <2> QED  BY <2>1, <2>2
<1>11. \A i \in 1 .. M : A[i] \in Orders
  <2> TAKE i \in 1 .. M
  <2>1. CASE i \in DOMAIN c.applied
    BY <1>5, <1>9, <2>1
  <2>2. CASE i \notin DOMAIN c.applied
    <3>1. i \in Commits(old, new, k)
      BY <1>6, <1>7, <2>2
    <3> QED  BY <1>4, <1>9, <2>2, <3>1
  <2> QED  BY <2>1, <2>2
<1>12. C \in Seq(CommitRecords) /\ Len(C) = M
  <2>1. C \in [1 .. M -> CommitRecords]
    BY <1>10, <1>8
  <2> QED  BY <2>1
<1>13. A \in Seq(Orders) /\ Len(A) = M
  <2>1. A \in [1 .. M -> Orders]
    BY <1>11, <1>9
  <2> QED  BY <2>1
<1> QED  BY <1>7, <1>12, <1>13 DEF C, A

-----------------------------------------------------------------------------
(***************************************************************************)
(* Each test fails exactly when its invariant is violated.                 *)
(***************************************************************************)
\* A second leader of a term is seen, beside the first or on record.
LEMMA ElectionTest ==
    ASSUME NEW k, NEW old, NEW new, Change(k, old, new), NEW c, NEW t, Synced(c, t, old),
           NEW d, d.leaders = c.leaders
    PROVE  TwoLeaders(d, new) <=> Violated(t, old, new, "ElectionSafety")
<1>1. Violated(t, old, new, "ElectionSafety") <=>
        \E l, m \in Led(t, new) : l[1] = m[1] /\ l[2] # m[2]
  BY DEF Violated
<1>2. \A n \in Leaders(new) : n \in Nodes /\ new[n].term \in Terms
  BY DEF Leaders, Change, SoundViews, SoundView
<1>3. /\ t.led \subseteq Terms \X Nodes
      /\ \A u \in Terms, n \in Nodes : <<u, n>> \in t.led <=> c.leaders[u] = n
      /\ c.leaders \in [Terms -> 0 .. N]
  BY DEF Synced, RecordsKnown, Caches
<1>4. N \in Nat
  BY CheckerAssumption
<1>5. ASSUME TwoLeaders(d, new)
      PROVE  \E l, m \in Led(t, new) : l[1] = m[1] /\ l[2] # m[2]
  <2>1. CASE \E n \in Leaders(new) : c.leaders[new[n].term] \notin {0, n}
    <3>1. PICK n \in Leaders(new) : c.leaders[new[n].term] \notin {0, n}
      BY <2>1
    <3>2. PICK u \in Terms, m \in Nodes : u = new[n].term /\ m = c.leaders[u] /\ m # n
      BY <1>2, <1>3, <1>4, <3>1 DEF Nodes
    <3>3. <<u, m>> \in Led(t, new) /\ <<u, n>> \in Led(t, new)
      BY <1>3, <3>2 DEF Led
    <3> QED  BY <3>2, <3>3
  <2>2. CASE \E n, m \in Leaders(new) : n # m /\ new[n].term = new[m].term
    <3>1. PICK n, m \in Leaders(new) : n # m /\ new[n].term = new[m].term
      BY <2>2
    <3>2. <<new[n].term, n>> \in Led(t, new) /\ <<new[m].term, m>> \in Led(t, new)
      BY DEF Led
    <3> QED  BY <3>1, <3>2
  <2> QED  BY <1>5, <2>1, <2>2 DEF TwoLeaders
<1>6. ASSUME NEW l \in Led(t, new), NEW m \in Led(t, new), l[1] = m[1], l[2] # m[2]
      PROVE  TwoLeaders(d, new)
  <2>1. ASSUME NEW e \in t.led, NEW n \in Leaders(new), e[1] = new[n].term, e[2] # n
        PROVE  TwoLeaders(d, new)
    <3>1. PICK u \in Terms, q \in Nodes : e = <<u, q>>
      BY <1>3
    <3>2. c.leaders[u] = q /\ u = new[n].term /\ q # n /\ q # 0
      BY <1>3, <2>1, <3>1 DEF Nodes
    <3> QED  BY <3>2 DEF TwoLeaders
  <2>2. CASE l \in t.led /\ m \in t.led
    <3>1. PICK u \in Terms, p \in Nodes : l = <<u, p>>
      BY <1>3, <2>2
    <3>2. PICK w \in Terms, q \in Nodes : m = <<w, q>>
      BY <1>3, <2>2
    <3>3. c.leaders[u] = p /\ c.leaders[w] = q
      BY <1>3, <2>2, <3>1, <3>2
    <3> QED  BY <1>6, <3>1, <3>2, <3>3
  <2>3. CASE l \in t.led /\ m \notin t.led
    <3>1. PICK n \in Leaders(new) : m = <<new[n].term, n>>
      BY <2>3 DEF Led
    <3> QED  BY <1>6, <2>1, <2>3, <3>1
  <2>4. CASE l \notin t.led /\ m \in t.led
    <3>1. PICK n \in Leaders(new) : l = <<new[n].term, n>>
      BY <2>4 DEF Led
    <3> QED  BY <1>6, <2>1, <2>4, <3>1
  <2>5. CASE l \notin t.led /\ m \notin t.led
    <3>1. PICK n \in Leaders(new) : l = <<new[n].term, n>>
      BY <2>5 DEF Led
    <3>2. PICK p \in Leaders(new) : m = <<new[p].term, p>>
      BY <2>5 DEF Led
    <3> QED  BY <1>6, <3>1, <3>2 DEF TwoLeaders
  <2> QED  BY <2>2, <2>3, <2>4, <2>5
<1> QED  BY <1>1, <1>5, <1>6

\* The copy of a leader's log is what it was, and only changed logs are compared.
LEMMA AppendTest ==
    ASSUME NEW k, NEW old, NEW new, Change(k, old, new), NEW c, NEW t, Synced(c, t, old),
           NEW d, d.copy = c.copy
    PROVE  Mutated(d, new) <=> Violated(t, old, new, "LeaderAppendOnly")
<1>1. Violated(t, old, new, "LeaderAppendOnly") <=>
        \E n \in Leaders(old) \cap Leaders(new) :
          old[n].term = new[n].term /\ ~OnlyExtends(old[n], new[n])
  BY DEF Violated
<1>2. \A n \in Nodes :
        c.copy[n] = IF n \in Leaders(old) THEN CopyOf(old[n]) ELSE NoCopy
  BY DEF Synced, TestsPassed
<1>3. \A n \in Leaders(new) : n \in Nodes /\ new[n].term \in Terms
  BY DEF Leaders, Change, SoundViews, SoundView
<1>4. 0 \notin Terms
  BY CheckerAssumption DEF Terms
<1>5. \A n \in Nodes : Kept(d, new, n) <=>
        n \in Leaders(old) /\ n \in Leaders(new) /\ old[n].term = new[n].term
  <2> TAKE n \in Nodes
  <2>1. CASE n \in Leaders(old)
    <3>0. d.copy[n] = CopyOf(old[n])
      BY <1>2, <2>1
    <3>1. d.copy[n].term = old[n].term
      BY <3>0 DEF CopyOf
    <3> QED  BY <2>1, <3>1 DEF Kept
  <2>2. CASE n \notin Leaders(old)
    <3>1. d.copy[n].term = 0
      BY <1>2, <2>2 DEF NoCopy
    <3> QED  BY <1>3, <1>4, <2>2, <3>1 DEF Kept
  <2> QED  BY <2>1, <2>2
<1>6. \A n \in Leaders(old) : /\ d.copy[n].version = old[n].version
                              /\ OnlyExtends(d.copy[n], new[n]) <=> OnlyExtends(old[n], new[n])
  <2> TAKE n \in Leaders(old)
  <2>1. d.copy[n] = CopyOf(old[n])
    BY <1>2 DEF Leaders
  <2>2. /\ d.copy[n].version = old[n].version
        /\ d.copy[n].base = old[n].base
        /\ d.copy[n].log = old[n].log
    BY <2>1 DEF CopyOf
  <2> QED  BY <2>2, Zenon DEF OnlyExtends, LastIndex, EntryAt
<1>7. ASSUME NEW n \in Nodes, old[n].version = new[n].version
      PROVE  OnlyExtends(old[n], new[n])
  <2>1. new[n].log = old[n].log /\ new[n].base = old[n].base
    BY <1>7 DEF Change
  <2>2. SoundView(old[n])
    BY DEF Change, SoundViews
  <2>3. LastIndex(old[n]) = LastIndex(new[n]) /\ LastIndex(old[n]) \in Nat
    BY <2>1, <2>2, ViewFields DEF LastIndex
  <2> QED  BY <2>1, <2>3 DEF OnlyExtends, EntryAt
<1>8. Leaders(old) \subseteq Nodes /\ Leaders(new) \subseteq Nodes
  BY DEF Leaders
<1> QED  BY <1>1, <1>5, <1>6, <1>7, <1>8 DEF Mutated

\* A pair that differs now differs in a log that is new to the checker.
LEMMA MatchTest ==
    ASSUME NEW k, NEW old, NEW new, Change(k, old, new), NEW c, NEW t, Synced(c, t, old),
           NEW d, d.pairs = c.pairs
    PROVE  Diverged(d, new) <=> Violated(t, old, new, "LogMatching")
<1>1. Violated(t, old, new, "LogMatching") <=> \E p \in Pairs : ~Match(new[p[1]], new[p[2]])
  BY DEF Violated
<1>2. ASSUME NEW p \in Pairs, c.pairs[p] = Versions(new, p[1], p[2])
      PROVE  Match(new[p[1]], new[p[2]])
  <2>1. p[1] \in Nodes /\ p[2] \in Nodes
    BY DEF Pairs
  <2>2. /\ Match(old[p[1]], old[p[2]])
        /\ c.pairs[p] \in {<<>>, Versions(old, p[1], p[2])}
    BY DEF Synced, TestsPassed
  <2>3. Versions(new, p[1], p[2]) = Versions(old, p[1], p[2])
    BY <1>2, <2>2 DEF Versions
  <2>4. new[p[1]].version = old[p[1]].version /\ new[p[2]].version = old[p[2]].version
    BY <2>3 DEF Versions
  <2>5. \A n \in {p[1], p[2]} : new[n].log = old[n].log /\ new[n].base = old[n].base
    BY <2>1, <2>4 DEF Change
  <2> QED  BY <2>2, <2>5 DEF Match, EntryAt, LastIndex
<1> QED  BY <1>1, <1>2 DEF Diverged

\* A commit index that falls is blamed unless the server restarted.
LEMMA MonotonicTest ==
    ASSUME NEW k, NEW old, NEW new, Change(k, old, new), NEW c, NEW t, Synced(c, t, old),
           NEW d,
           d.prevCommit = [n \in Nodes |-> IF Restarted(c, new, n) THEN new[n].commit
                                           ELSE c.prevCommit[n]]
    PROVE  Regressed(d, new) <=> Violated(t, old, new, "CommitIndexMonotonic")
<1>1. Violated(t, old, new, "CommitIndexMonotonic") <=>
        \E n \in Nodes : /\ old[n].incarnation = new[n].incarnation
                         /\ new[n].commit < old[n].commit
  BY DEF Violated
<1>2. ASSUME NEW n \in Nodes
      PROVE  new[n].commit < d.prevCommit[n] <=>
               old[n].incarnation = new[n].incarnation /\ new[n].commit < old[n].commit
  <2>1. SoundView(new[n])
    BY DEF Change, SoundViews
  <2>2. new[n].commit \in Nat /\ ~(new[n].commit < new[n].commit)
    BY <2>1, ViewFields
  <2>3. c.incarnation[n] = old[n].incarnation /\ c.prevCommit[n] = old[n].commit
    BY DEF Synced, ProgressKnown
  <2> QED  BY <2>2, <2>3 DEF Restarted
<1> QED  BY <1>1, <1>2 DEF Regressed

\* What is committed a second time as something else is caught, and so is what is
\* applied as something else.
LEMMA SafetyTest ==
    ASSUME NEW k, NEW old, NEW new, Change(k, old, new), NEW c, NEW t, Synced(c, t, old),
           NEW d, CommitsAhead(d, c, old, new), NEW e, AppliesAhead(e, c, old, new)
    PROVE  CommittedTwice(d, new) \/ AppliedTwice(e, new)
             <=> Violated(t, old, new, "StateMachineSafety")
<1>1. Violated(t, old, new, "StateMachineSafety") <=>
        \E n \in Nodes :
          \/ \E i \in Commits(old, new, n) :
               Committed(t, old, new)[i].entry # EntryAt(new[n], i)
          \/ \E i \in Applies(old, new, n) :
               AppliedFirst(t, old, new)[i] # CommandAt(new[n], i)
  BY DEF Violated
<1>2. ASSUME NEW n \in Nodes, NEW i \in Commits(old, new, n)
      PROVE  CommitOnRecord(d, new, i) = Committed(t, old, new)[i]
  <2>1. i \in DOMAIN Committed(t, old, new)
    BY OneAdvances DEF Committed
  <2>2. WillRecord(d, new, Committed(t, old, new))
    BY SameCommits
  <2> QED  BY <2>1, <2>2 DEF WillRecord
<1>3. ASSUME NEW n \in Nodes, NEW i \in Applies(old, new, n)
      PROVE  AppliedOnRecord(e, new, i) = AppliedFirst(t, old, new)[i]
  <2>1. i \in DOMAIN AppliedFirst(t, old, new)
    BY DEF AppliedFirst
  <2>2. WillRecordApplied(e, new, AppliedFirst(t, old, new))
    BY SameApplications
  <2> QED  BY <2>1, <2>2 DEF WillRecordApplied
<1>4. CommittedTwice(d, new) <=>
        \E n \in Nodes : \E i \in Commits(old, new, n) :
          Committed(t, old, new)[i].entry # EntryAt(new[n], i)
  BY <1>2 DEF CommittedTwice, CommitsAhead
<1>5. AppliedTwice(e, new) <=>
        \E n \in Nodes : \E i \in Applies(old, new, n) :
          AppliedFirst(t, old, new)[i] # CommandAt(new[n], i)
  BY <1>3 DEF AppliedTwice, AppliesAhead
<1> QED  BY <1>1, <1>4, <1>5, Zenon

\* An index above all that was ever committed is one that is not on record.
LEMMA QuorumTest ==
    ASSUME NEW k, NEW old, NEW new, Change(k, old, new), NEW c, NEW t, Synced(c, t, old),
           NEW d, CommitsAhead(d, c, old, new)
    PROVE  Unbacked(d, new) <=> Violated(t, old, new, "CommitQuorum")
<1>1. Violated(t, old, new, "CommitQuorum") <=>
        \E n \in Nodes : \E i \in Commits(old, new, n) :
          i \notin DOMAIN t.committed /\ ~Backed(new, i, EntryAt(new[n], i))
  BY DEF Violated
<1>2. k \in Nodes /\ Nodes \subseteq Nat
  BY DEF Change, Nodes
<1>3. PICK p \in Nat : p = c.maxCommit
  BY DEF Synced, Caches
<1>4. DOMAIN t.committed = 1 .. p
  <2>1. c.committed \in Seq(CommitRecords) /\ Len(c.committed) = p /\ t.committed = c.committed
    BY <1>3 DEF Synced, Caches, RecordsKnown
  <2> QED  BY <2>1
<1>5. \A m \in Nodes \ {k} : new[m].commit \in Nat /\ new[m].commit <= p
  <2> TAKE m \in Nodes \ {k}
  <2>1. new[m] = old[m] /\ SoundView(old[m])
    BY DEF Change, SoundViews
  <2>2. new[m].commit \in Nat
    BY <2>1, ViewFields
  <2>3. new[m].commit <= p
    BY <1>3, <2>1 DEF Synced, ProgressKnown
  <2> QED  BY <2>2, <2>3
<1>6. \A n \in Nodes : \A i \in Commits(old, new, n) : n = k
  BY OneAdvances
<1>7. \A i \in Commits(old, new, k) : i \in Nat \ {0}
  BY RecordGrows
<1>8. ASSUME NEW i \in Commits(old, new, k)
      PROVE  /\ i > d.maxCommit
             /\ \A m \in 1 .. k - 1 : i > new[m].commit
             <=> i \notin DOMAIN t.committed
  <2>1. i \notin DOMAIN t.committed <=> i > p
    BY <1>3, <1>4, <1>7
  <2>2. ASSUME i > p, NEW m \in 1 .. k - 1 PROVE i > new[m].commit
    <3>1. m \in Nodes \ {k}
      BY <1>2, CheckerAssumption DEF Nodes
    <3>2. PICK z \in Nat : z = new[m].commit /\ z <= p
      BY <1>5, <3>1
    <3> QED  BY <1>3, <1>7, <2>2, <3>2
  <2>3. d.maxCommit = p
    BY <1>3 DEF CommitsAhead
  <2> QED  BY <2>1, <2>2, <2>3
<1>9. Unbacked(d, new) <=>
        \E i \in Commits(old, new, k) :
          /\ i > d.maxCommit
          /\ \A m \in 1 .. k - 1 : i > new[m].commit
          /\ ~Backed(new, i, EntryAt(new[k], i))
  <2> HIDE DEF Backed, EntryAt
  <2> QED  BY <1>2, <1>6 DEF Unbacked, CommitsAhead
<1>10. Unbacked(d, new) <=>
         \E i \in Commits(old, new, k) :
           i \notin DOMAIN t.committed /\ ~Backed(new, i, EntryAt(new[k], i))
  BY <1>8, <1>9
<1> QED  BY <1>1, <1>2, <1>6, <1>10

\* A leader that is skipped has every entry of a record that has not grown.
LEMMA CompletenessTest ==
    ASSUME NEW k, NEW old, NEW new, Change(k, old, new), NEW c, NEW t, Synced(c, t, old),
           NEW d, d.complete = c.complete, d.committed = Committed(t, old, new)
    PROVE  Incomplete(d, new) <=> Violated(t, old, new, "LeaderCompleteness")
<1>1. Violated(t, old, new, "LeaderCompleteness") <=>
        \E n \in Leaders(new) : ~Complete(new[n], Committed(t, old, new))
  BY DEF Violated
<1>2. PICK p \in Nat : p = c.maxCommit
  BY DEF Synced, Caches
<1>3. DOMAIN c.committed = 1 .. p /\ t.committed = c.committed
  <2>1. c.committed \in Seq(CommitRecords) /\ Len(c.committed) = p
    BY <1>2 DEF Synced, Caches, RecordsKnown
  <2> QED  BY <2>1 DEF Synced, RecordsKnown
<1>4. PICK M \in Nat : 1 .. p \cup Commits(old, new, k) = 1 .. M
  BY <1>2, RecordGrows
<1>5. DOMAIN Committed(t, old, new) = 1 .. M
  BY <1>3, <1>4, OneAdvances DEF Committed
<1>6. Cardinality(1 .. M) = M /\ Cardinality(1 .. p) = p
  BY FS_Interval
<1>7. ASSUME NEW n \in Leaders(new), c.complete[n] = CompletenessState(d, new[n])
      PROVE  Complete(new[n], Committed(t, old, new))
  <2>1. n \in Nodes
    BY DEF Leaders
  <2>2. c.complete[n] # <<>>
    BY <1>7 DEF CompletenessState
  <2>3. /\ c.complete[n] = CompletenessState(c, old[n])
        /\ Complete(old[n], c.committed)
    BY <2>1, <2>2 DEF Synced, TestsPassed
  <2>4. /\ new[n].term = old[n].term
        /\ new[n].version = old[n].version
        /\ M = p
    BY <1>3, <1>5, <1>6, <1>7, <2>3 DEF CompletenessState
  <2>5. new[n].log = old[n].log /\ new[n].base = old[n].base
    BY <2>1, <2>4 DEF Change
  <2>6. Committed(t, old, new) = c.committed
    <3>1. \A i \in 1 .. p : Committed(t, old, new)[i] = c.committed[i]
      BY <1>3, <1>5, <2>4 DEF Committed
    <3>2. c.committed = [i \in 1 .. p |-> c.committed[i]]
      <4>1. c.committed \in Seq(CommitRecords)
        BY DEF Synced, Caches
      <4> QED  BY <1>3, <4>1
    <3>3. Committed(t, old, new) = [i \in 1 .. p |-> Committed(t, old, new)[i]]
      BY <1>5, <2>4 DEF Committed
    <3> HIDE DEF Committed
    <3> QED  BY <3>1, <3>2, <3>3
  <2> HIDE DEF Committed
  <2> QED  BY <2>3, <2>4, <2>5, <2>6 DEF Complete, LastIndex, EntryAt
<1> HIDE DEF Committed
<1> QED  BY <1>1, <1>7 DEF Incomplete

-----------------------------------------------------------------------------
(***************************************************************************)
(* A whole check: it raises only what the step violated, and if it raises  *)
(* nothing the step violated nothing and the caches are right again.       *)
(***************************************************************************)
\* The caches as the seven parts of a check leave them.
Passes(c, views, c1, c2, c3, c4, c5, c6, c7) ==
    /\ c1 = HandleRestarts(c, views)
    /\ c2 = SeeLeaders(c1, views)
    /\ c3 = CopyLeaders(c2, views)
    /\ c4 = ComparePairs(c3, views)
    /\ c5 = ObserveCommits(c4, views)
    /\ c6 = SeeComplete(c5, views)
    /\ c7 = SeeApplied(c6, views)

\* The caches that a test depends on are as before the check.
TestedOn(c, old, new, t, c1, c2, c3, c4, c5, c6) ==
    /\ c1.leaders = c.leaders
    /\ c2.copy = c.copy
    /\ c3.pairs = c.pairs
    /\ c4.prevCommit = [n \in Nodes |-> IF Restarted(c, new, n) THEN new[n].commit
                                        ELSE c.prevCommit[n]]
    /\ CommitsAhead(c4, c, old, new)
    /\ c5.complete = c.complete
    /\ c5.committed = Committed(t, old, new)
    /\ AppliesAhead(c6, c, old, new)

\* All of the caches after it, when only the last part may have raised.
Renewed(c, t, old, new, d) ==
    /\ IsCache(d)
    /\ d.leaders = [u \in Terms |->
         IF \E n \in Leaders(new) : new[n].term = u
         THEN CHOOSE n \in Leaders(new) : new[n].term = u ELSE c.leaders[u]]
    /\ d.committed = Committed(t, old, new)
    /\ d.applied = AppliedFirst(t, old, new)
    /\ d.maxCommit = Highest(c, new)
    /\ d.prevCommit = [n \in Nodes |-> new[n].commit]
    /\ d.appliedSeen = [n \in Nodes |->
         Higher(IF Restarted(c, new, n) THEN Applied(new[n]) ELSE c.appliedSeen[n],
                Applied(new[n]))]
    /\ d.incarnation = [n \in Nodes |-> new[n].incarnation]
    /\ d.copy = [n \in Nodes |->
         IF n \notin Leaders(new) THEN NoCopy
         ELSE IF Kept(c, new, n) /\ c.copy[n].version = new[n].version
         THEN c.copy[n] ELSE CopyOf(new[n])]
    /\ d.pairs = [p \in Pairs |-> Versions(new, p[1], p[2])]
    /\ d.complete = [n \in Nodes |-> IF n \in Leaders(new)
                                     THEN CompletenessState(d, new[n]) ELSE <<>>]

LEMMA ChecksOn ==
    ASSUME NEW k, NEW old, NEW new, Change(k, old, new), NEW c, NEW t, Synced(c, t, old),
           NEW c1, NEW c2, NEW c3, NEW c4, NEW c5, NEW c6, NEW c7,
           Passes(c, new, c1, c2, c3, c4, c5, c6, c7)
    PROVE  /\ TestedOn(c, old, new, t, c1, c2, c3, c4, c5, c6)
           /\ Renewed(c, t, old, new, c7)
<1> DEFINE P == [n \in Nodes |-> IF Restarted(c, new, n) THEN new[n].commit
                                 ELSE c.prevCommit[n]]
           S == [n \in Nodes |-> IF Restarted(c, new, n) THEN Applied(new[n])
                                 ELSE c.appliedSeen[n]]
           L == [u \in Terms |->
                   IF \E n \in Leaders(new) : new[n].term = u
                   THEN CHOOSE n \in Leaders(new) : new[n].term = u ELSE c.leaders[u]]
           Y == [n \in Nodes |->
                   IF n \notin Leaders(new) THEN NoCopy
                   ELSE IF Kept(c, new, n) /\ c.copy[n].version = new[n].version
                   THEN c.copy[n] ELSE CopyOf(new[n])]
           V == [p \in Pairs |-> Versions(new, p[1], p[2])]
           X == [n \in Nodes |-> IF n \in Leaders(new)
                                 THEN CompletenessState(c5, new[n]) ELSE <<>>]
           I == [n \in Nodes |-> new[n].incarnation]
<1>0. IsCache(c)
  BY CacheFields DEF Synced
<1>1. /\ IsCache(c1)
      /\ c1.leaders = c.leaders /\ c1.committed = c.committed /\ c1.applied = c.applied
      /\ c1.maxCommit = c.maxCommit /\ c1.copy = c.copy /\ c1.pairs = c.pairs
      /\ c1.complete = c.complete
      /\ c1.incarnation = I /\ c1.prevCommit = P /\ c1.appliedSeen = S
  <2>1. c1 = HandleRestarts(c, new)
    BY DEF Passes
  <2> HIDE DEF Passes
  <2>2. RestartsAreHandled(c, new, c1)
    BY <1>0, <2>1, RestartsHandled
  <2> QED  BY <2>2 DEF RestartsAreHandled
<1>2. /\ IsCache(c2)
      /\ c2.committed = c.committed /\ c2.applied = c.applied
      /\ c2.maxCommit = c.maxCommit /\ c2.copy = c.copy /\ c2.pairs = c.pairs
      /\ c2.complete = c.complete
      /\ c2.incarnation = I /\ c2.prevCommit = P /\ c2.appliedSeen = S
      /\ c2.leaders = L
  <2>1. c2 = SeeLeaders(c1, new)
    BY DEF Passes
  <2>2. LeadersAreSeen(c1, new, c2)
    BY <1>1, <2>1, LeadersSeen
  <2>3. c2.leaders = L
    BY <1>1, <2>2, Zenon DEF LeadersAreSeen
  <2> HIDE DEF I, P, S, L
  <2> QED  BY <1>1, <2>2, <2>3 DEF LeadersAreSeen
<1>3. /\ IsCache(c3)
      /\ c3.committed = c.committed /\ c3.applied = c.applied
      /\ c3.maxCommit = c.maxCommit /\ c3.pairs = c.pairs
      /\ c3.complete = c.complete
      /\ c3.incarnation = I /\ c3.prevCommit = P /\ c3.appliedSeen = S
      /\ c3.leaders = L /\ c3.copy = Y
  <2>1. c3 = CopyLeaders(c2, new)
    BY DEF Passes
  <2>2. LeadersAreCopied(c2, new, c3)
    BY <1>2, <2>1, LeadersCopied
  <2>3. \A n : Kept(c2, new, n) <=> Kept(c, new, n)
    BY <1>2 DEF Kept
  <2>4. c3.copy = Y
    BY <1>2, <2>2, <2>3 DEF LeadersAreCopied
  <2> HIDE DEF I, P, S, L, Y
  <2> QED  BY <1>2, <2>2, <2>4 DEF LeadersAreCopied
<1>4. /\ IsCache(c4)
      /\ c4.committed = c.committed /\ c4.applied = c.applied
      /\ c4.maxCommit = c.maxCommit
      /\ c4.complete = c.complete
      /\ c4.incarnation = I /\ c4.prevCommit = P /\ c4.appliedSeen = S
      /\ c4.leaders = L /\ c4.copy = Y /\ c4.pairs = V
  <2>1. c4 = ComparePairs(c3, new)
    BY DEF Passes
  <2>2. PairsAreCompared(c3, new, c4)
    BY <1>3, <2>1, PairsCompared
  <2>3. c4.pairs = V
    BY <2>2 DEF PairsAreCompared
  <2> HIDE DEF I, P, S, L, Y, V
  <2> QED  BY <1>3, <2>2, <2>3 DEF PairsAreCompared
<1>5. CommitsAhead(c4, c, old, new)
  <2>1. \A n \in Nodes : NewCommits(c4, new, n) = Commits(old, new, n)
    BY <1>4, NewIsNew
  <2> QED  BY <1>4, <2>1 DEF CommitsAhead
<1>6. /\ IsCache(c5)
      /\ c5.committed = Committed(t, old, new) /\ c5.applied = c.applied
      /\ c5.maxCommit = Highest(c, new)
      /\ c5.complete = c.complete
      /\ c5.incarnation = I /\ c5.prevCommit = [n \in Nodes |-> new[n].commit]
      /\ c5.appliedSeen = S
      /\ c5.leaders = L /\ c5.copy = Y /\ c5.pairs = V
  <2>1. c5 = ObserveCommits(c4, new)
    BY DEF Passes
  <2>2. CommitsAreObserved(c4, new, c5)
    BY <1>4, <2>1, CommitsObserved
  <2>3. WillRecord(c4, new, Committed(t, old, new))
    BY <1>5, SameCommits
  <2>4. c5.committed = Committed(t, old, new)
    BY <2>2, <2>3 DEF WillRecord, CommitsAreObserved
  <2>5. c5.maxCommit = Highest(c, new)
    BY <1>4, <2>2 DEF Highest, CommitsAreObserved
  <2> HIDE DEF I, P, S, L, Y, V
  <2> QED  BY <1>4, <2>2, <2>4, <2>5 DEF CommitsAreObserved
<1>7. /\ IsCache(c6)
      /\ c6.committed = Committed(t, old, new) /\ c6.applied = c.applied
      /\ c6.maxCommit = Highest(c, new)
      /\ c6.incarnation = I /\ c6.prevCommit = [n \in Nodes |-> new[n].commit]
      /\ c6.appliedSeen = S
      /\ c6.leaders = L /\ c6.copy = Y /\ c6.pairs = V /\ c6.complete = X
  <2>1. c6 = SeeComplete(c5, new)
    BY DEF Passes
  <2>2. CompleteAreSeen(c5, new, c6)
    BY <1>6, <2>1, CompleteSeen
  <2>3. c6.complete = X
    BY <2>2 DEF CompleteAreSeen
  <2> HIDE DEF I, P, S, L, Y, V, X
  <2> QED  BY <1>6, <2>2, <2>3 DEF CompleteAreSeen
<1>8. AppliesAhead(c6, c, old, new)
  <2>1. \A n \in Nodes : NewApplied(c6, new, n) = Applies(old, new, n)
    BY <1>7, NewAppliedIsNew
  <2> QED  BY <1>7, <2>1 DEF AppliesAhead
<1>9. Renewed(c, t, old, new, c7)
  <2>1. c7 = SeeApplied(c6, new)
    BY DEF Passes
  <2>2. AppliedAreSeen(c6, new, c7)
    BY <1>7, <2>1, AppliedSeen
  <2>3. WillRecordApplied(c6, new, AppliedFirst(t, old, new))
    BY <1>8, SameApplications
  <2>4. c7.applied = AppliedFirst(t, old, new)
    BY <2>2, <2>3 DEF WillRecordApplied, AppliedAreSeen
  <2>5. c7.appliedSeen = [n \in Nodes |->
          Higher(IF Restarted(c, new, n) THEN Applied(new[n]) ELSE c.appliedSeen[n],
                 Applied(new[n]))]
    <3>1. \A n \in Nodes : c6.appliedSeen[n] =
            IF Restarted(c, new, n) THEN Applied(new[n]) ELSE c.appliedSeen[n]
      BY <1>7
    <3> QED  BY <2>2, <3>1 DEF AppliedAreSeen
  <2>6. X = [n \in Nodes |-> IF n \in Leaders(new)
                             THEN CompletenessState(c7, new[n]) ELSE <<>>]
    BY <1>6, <1>7, <2>2 DEF CompletenessState, AppliedAreSeen
  <2> HIDE DEF X
  <2> QED  BY <1>7, <2>2, <2>4, <2>5, <2>6 DEF Renewed, AppliedAreSeen
<1> QED  BY <1>1, <1>2, <1>3, <1>4, <1>5, <1>6, <1>8, <1>9 DEF TestedOn

\* What a check without an alarm leaves is right for the next.
LEMMA CachesTyped ==
    ASSUME NEW k, NEW old, NEW new, Change(k, old, new), NEW c, NEW t, Synced(c, t, old),
           NEW d, Renewed(c, t, old, new, d)
    PROVE  d \in Caches
<1>1. \A n \in Nodes : /\ new[n].term \in Nat /\ new[n].version \in Nat
                       /\ new[n].base \in Nat /\ new[n].log \in Seq(Entries)
                       /\ new[n].commit \in Nat /\ new[n].incarnation \in Nat
                       /\ Applied(new[n]) \in Nat
  <2> TAKE n \in Nodes
  <2>1. SoundView(new[n])
    BY DEF Change, SoundViews
  <2> QED  BY <2>1, ViewFields
<1>2. /\ c.leaders \in [Terms -> 0 .. N]
      /\ c.appliedSeen \in [Nodes -> Nat]
      /\ c.copy \in [Nodes -> [term : Nat, version : Nat, base : Nat, log : Seq(Entries)]]
  BY DEF Synced, Caches
<1>3. Nodes \subseteq 0 .. N
  BY CheckerAssumption DEF Nodes
<1>4. d.leaders \in [Terms -> 0 .. N]
  <2>1. \A u \in Terms : (\E n \in Leaders(new) : new[n].term = u) =>
          (CHOOSE n \in Leaders(new) : new[n].term = u) \in 0 .. N
    <3> TAKE u \in Terms
    <3> HAVE \E n \in Leaders(new) : new[n].term = u
    <3>1. (CHOOSE n \in Leaders(new) : new[n].term = u) \in Leaders(new)
      OBVIOUS
    <3>2. Leaders(new) \subseteq 0 .. N
      BY <1>3 DEF Leaders
    <3> QED  BY <3>1, <3>2
  <2>2. d.leaders = [u \in Terms |->
          IF \E n \in Leaders(new) : new[n].term = u
          THEN CHOOSE n \in Leaders(new) : new[n].term = u ELSE c.leaders[u]]
    BY DEF Renewed
  <2>3. ASSUME NEW u \in Terms PROVE d.leaders[u] \in 0 .. N
    <3>1. CASE \E n \in Leaders(new) : new[n].term = u
      <4>1. d.leaders[u] = CHOOSE n \in Leaders(new) : new[n].term = u
        BY <2>2, <3>1
      <4> QED  BY <2>1, <3>1, <4>1
    <3>2. CASE ~\E n \in Leaders(new) : new[n].term = u
      <4>1. d.leaders[u] = c.leaders[u]
        BY <2>2, <3>2
      <4> QED  BY <1>2, <4>1
    <3> QED  BY <3>1, <3>2
  <2> QED  BY <2>2, <2>3
<1>5. /\ d.committed \in Seq(CommitRecords)
      /\ d.applied \in Seq(Orders)
  BY RecordsTyped DEF Renewed
<1>6. d.maxCommit \in Nat
  BY RecordGrows DEF Renewed
<1>7. /\ d.prevCommit \in [Nodes -> Nat]
      /\ d.incarnation \in [Nodes -> Nat]
  BY <1>1 DEF Renewed
<1>8. d.appliedSeen \in [Nodes -> Nat]
  <2>1. d.appliedSeen = [n \in Nodes |->
          Higher(IF Restarted(c, new, n) THEN Applied(new[n]) ELSE c.appliedSeen[n],
                 Applied(new[n]))]
    BY DEF Renewed
  <2>2. \A n \in Nodes :
          Higher(IF Restarted(c, new, n) THEN Applied(new[n]) ELSE c.appliedSeen[n],
                 Applied(new[n])) \in Nat
    <3> TAKE n \in Nodes
    <3>1. PICK a \in Nat :
            a = IF Restarted(c, new, n) THEN Applied(new[n]) ELSE c.appliedSeen[n]
      BY <1>1, <1>2
    <3>2. PICK b \in Nat : b = Applied(new[n])
      BY <1>1
    <3> QED  BY <3>1, <3>2, HigherIs
  <2> QED  BY <2>1, <2>2
<1>9. d.copy \in [Nodes -> [term : Nat, version : Nat, base : Nat, log : Seq(Entries)]]
  <2>1. NoCopy \in [term : Nat, version : Nat, base : Nat, log : Seq(Entries)]
    BY DEF NoCopy
  <2>2. \A n \in Nodes : CopyOf(new[n]) \in
          [term : Nat, version : Nat, base : Nat, log : Seq(Entries)]
    BY <1>1 DEF CopyOf
  <2> QED  BY <1>2, <2>1, <2>2 DEF Renewed
<1>10. d.pairs \in [Pairs -> Seq(Nat)]
  <2>1. \A p \in Pairs : Versions(new, p[1], p[2]) \in Seq(Nat)
    BY <1>1 DEF Versions, Pairs
  <2>2. d.pairs = [p \in Pairs |-> Versions(new, p[1], p[2])]
    BY DEF Renewed
  <2> QED  BY <2>1, <2>2
<1>11. d.complete \in [Nodes -> Seq(Nat)]
  <2>1. Cardinality(DOMAIN d.committed) \in Nat
    <3>1. DOMAIN d.committed = 1 .. Len(d.committed) /\ Len(d.committed) \in Nat
      BY <1>5
    <3> QED  BY <3>1, FS_Interval
  <2>2. \A n \in Nodes : CompletenessState(d, new[n]) \in Seq(Nat)
    BY <1>1, <2>1 DEF CompletenessState
  <2>3. d.complete = [n \in Nodes |-> IF n \in Leaders(new)
                                      THEN CompletenessState(d, new[n]) ELSE <<>>]
    BY DEF Renewed
  <2>4. <<>> \in Seq(Nat)
    OBVIOUS
  <2> QED  BY <2>2, <2>3, <2>4
<1>12. IsCache(d)
  BY DEF Renewed
<1> QED  BY <1>4, <1>5, <1>6, <1>7, <1>8, <1>9, <1>10, <1>11, <1>12 DEF IsCache, Caches

LEMMA ProgressRenewed ==
    ASSUME NEW k, NEW old, NEW new, Change(k, old, new), NEW c, NEW t, Synced(c, t, old),
           NEW d, Renewed(c, t, old, new, d),
           ~Violated(t, old, new, "CommitIndexMonotonic")
    PROVE  ProgressKnown(d, new)
<1>1. /\ d.incarnation = [n \in Nodes |-> new[n].incarnation]
      /\ d.prevCommit = [n \in Nodes |-> new[n].commit]
      /\ d.maxCommit = Highest(c, new)
      /\ d.appliedSeen = [n \in Nodes |->
           Higher(IF Restarted(c, new, n) THEN Applied(new[n]) ELSE c.appliedSeen[n],
                  Applied(new[n]))]
  BY DEF Renewed
<1>2. ~\E n \in Nodes : /\ old[n].incarnation = new[n].incarnation
                        /\ new[n].commit < old[n].commit
  BY DEF Violated
<1>3. ASSUME NEW n \in Nodes PROVE d.appliedSeen[n] = Applied(new[n])
  <2>1. SoundView(new[n]) /\ SoundView(old[n])
    BY DEF Change, SoundViews
  <2>2. PICK x \in Nat : x = new[n].commit /\ x = Applied(new[n])
    BY <2>1, ViewFields
  <2>3. PICK o \in Nat : o = old[n].commit /\ o = Applied(old[n])
    BY <2>1, ViewFields
  <2>4. c.incarnation[n] = old[n].incarnation /\ c.appliedSeen[n] = o
    BY <2>3 DEF Synced, ProgressKnown
  <2>5. CASE Restarted(c, new, n)
    BY <1>1, <2>2, <2>5 DEF Higher
  <2>6. CASE ~Restarted(c, new, n)
    <3>1. o <= x
      <4>1. old[n].incarnation = new[n].incarnation
        BY <2>4, <2>6 DEF Restarted
      <4>2. ~(x < o)
        BY <1>2, <2>2, <2>3, <4>1
      <4> QED  BY <4>2
    <3>2. Higher(o, x) = x
      BY <3>1 DEF Higher
    <3> QED  BY <1>1, <2>2, <2>4, <2>6, <3>2
  <2> QED  BY <2>5, <2>6
<1>4. \A n \in Nodes : new[n].commit <= d.maxCommit
  BY <1>1, RecordGrows
<1> QED  BY <1>1, <1>3, <1>4 DEF ProgressKnown

LEMMA RecordsRenewed ==
    ASSUME NEW k, NEW old, NEW new, Change(k, old, new), NEW c, NEW t, Synced(c, t, old),
           NEW d, Renewed(c, t, old, new, d),
           ~Violated(t, old, new, "ElectionSafety"),
           NEW j, j = Judge(t, old, new)
    PROVE  RecordsKnown(d, j)
<1>1. /\ j.led = Led(t, new)
      /\ j.committed = Committed(t, old, new)
      /\ j.applied = AppliedFirst(t, old, new)
  BY DEF Judge
<1>2. /\ d.leaders = [u \in Terms |->
           IF \E n \in Leaders(new) : new[n].term = u
           THEN CHOOSE n \in Leaders(new) : new[n].term = u ELSE c.leaders[u]]
      /\ d.committed = Committed(t, old, new)
      /\ d.applied = AppliedFirst(t, old, new)
      /\ d.maxCommit = Highest(c, new)
  BY DEF Renewed
<1>3. /\ t.led \subseteq Terms \X Nodes
      /\ \A u \in Terms, n \in Nodes : <<u, n>> \in t.led <=> c.leaders[u] = n
  BY DEF Synced, RecordsKnown
<1>4. \A n \in Leaders(new) : n \in Nodes /\ new[n].term \in Terms
  BY DEF Leaders, Change, SoundViews, SoundView
<1>5. ~\E l, m \in Led(t, new) : l[1] = m[1] /\ l[2] # m[2]
  BY DEF Violated
<1>6. Led(t, new) \subseteq Terms \X Nodes
  BY <1>3, <1>4 DEF Led
<1>7. ASSUME NEW u \in Terms, NEW n \in Nodes
      PROVE  <<u, n>> \in Led(t, new) <=> d.leaders[u] = n
  <2>1. CASE \E m \in Leaders(new) : new[m].term = u
    <3>1. PICK q \in Leaders(new) : new[q].term = u /\ d.leaders[u] = q
      <4>1. d.leaders[u] = CHOOSE m \in Leaders(new) : new[m].term = u
        BY <1>2, <2>1
      <4> QED  BY <2>1, <4>1
    <3>2. <<u, q>> \in Led(t, new)
      BY <3>1 DEF Led
    <3>3. <<u, n>> \in Led(t, new) => n = q
      BY <1>5, <3>2
    <3> QED  BY <3>1, <3>2, <3>3
  <2>2. CASE ~\E m \in Leaders(new) : new[m].term = u
    <3>1. d.leaders[u] = c.leaders[u]
      BY <1>2, <2>2
    <3>2. <<u, n>> \in Led(t, new) <=> <<u, n>> \in t.led
      BY <2>2 DEF Led
    <3> QED  BY <1>3, <3>1, <3>2
  <2> QED  BY <2>1, <2>2
<1>8. Len(d.committed) = d.maxCommit /\ Len(d.applied) = d.maxCommit
  BY <1>2, RecordsTyped
<1> QED  BY <1>1, <1>2, <1>6, <1>7, <1>8 DEF RecordsKnown

LEMMA TestsRenewed ==
    ASSUME NEW k, NEW old, NEW new, Change(k, old, new), NEW c, NEW t, Synced(c, t, old),
           NEW d, Renewed(c, t, old, new, d),
           ~Violated(t, old, new, "LogMatching"),
           ~Violated(t, old, new, "LeaderCompleteness")
    PROVE  TestsPassed(d, new)
<1>1. ASSUME NEW n \in Nodes
      PROVE  d.copy[n] = IF n \in Leaders(new) THEN CopyOf(new[n]) ELSE NoCopy
  <2>1. d.copy[n] = IF n \notin Leaders(new) THEN NoCopy
                    ELSE IF Kept(c, new, n) /\ c.copy[n].version = new[n].version
                    THEN c.copy[n] ELSE CopyOf(new[n])
    BY DEF Renewed
  <2>2. c.copy[n] = IF n \in Leaders(old) THEN CopyOf(old[n]) ELSE NoCopy
    BY DEF Synced, TestsPassed
  <2>3. ASSUME n \in Leaders(new), Kept(c, new, n), c.copy[n].version = new[n].version
        PROVE  c.copy[n] = CopyOf(new[n])
    <3>1. new[n].term \in Terms
      BY <2>3 DEF Leaders, Change, SoundViews, SoundView
    <3>2. new[n].term # 0
      BY <3>1, CheckerAssumption DEF Terms
    <3>3. n \in Leaders(old)
      BY <2>2, <2>3, <3>2 DEF Kept, NoCopy
    <3>4. c.copy[n] = CopyOf(old[n])
      BY <2>2, <3>3
    <3>5. old[n].term = new[n].term /\ old[n].version = new[n].version
      BY <2>3, <3>4 DEF CopyOf, Kept
    <3>6. new[n].log = old[n].log /\ new[n].base = old[n].base
      BY <3>5 DEF Change
    <3> QED  BY <3>4, <3>5, <3>6 DEF CopyOf
  <2> QED  BY <2>1, <2>3
<1>2. ASSUME NEW p \in Pairs
      PROVE  /\ Match(new[p[1]], new[p[2]])
             /\ d.pairs[p] = Versions(new, p[1], p[2])
  BY DEF Violated, Renewed
<1>3. ASSUME NEW n \in Nodes, d.complete[n] # <<>>
      PROVE  /\ d.complete[n] = CompletenessState(d, new[n])
             /\ Complete(new[n], d.committed)
  <2>1. d.complete[n] = IF n \in Leaders(new) THEN CompletenessState(d, new[n]) ELSE <<>>
    BY DEF Renewed
  <2>2. n \in Leaders(new)
    BY <1>3, <2>1
  <2>3. Complete(new[n], Committed(t, old, new))
    BY <2>2 DEF Violated
  <2>4. d.committed = Committed(t, old, new)
    BY DEF Renewed
  <2> QED  BY <2>1, <2>2, <2>3, <2>4
<1> QED  BY <1>1, <1>2, <1>3 DEF TestsPassed

\* What a check raises, by the tests that fail.
LEMMA CheckExact ==
    ASSUME NEW k, NEW old, NEW new, Change(k, old, new), NEW c, NEW t, Synced(c, t, old),
           NEW r, r = Check(c, new), NEW j, j = Judge(t, old, new)
    PROVE  /\ r.alarm # "none" => r.alarm \in j.violated
           /\ r.alarm = "none" => j.violated = {} /\ Synced(r.checker, j, new)
<1>1. PICK c1, c2, c3, c4, c5, c6, c7 : Passes(c, new, c1, c2, c3, c4, c5, c6, c7)
  BY DEF Passes
<1>2. TestedOn(c, old, new, t, c1, c2, c3, c4, c5, c6)
  BY <1>1, ChecksOn
<1>3. Renewed(c, t, old, new, c7)
  BY <1>1, ChecksOn
<1>4. /\ r.checker = c7
      /\ r.alarm =
           IF TwoLeaders(c1, new) THEN "ElectionSafety"
           ELSE IF Mutated(c2, new) THEN "LeaderAppendOnly"
           ELSE IF Diverged(c3, new) THEN "LogMatching"
           ELSE IF Regressed(c4, new) THEN "CommitIndexMonotonic"
           ELSE IF CommittedTwice(c4, new) THEN "StateMachineSafety"
           ELSE IF Unbacked(c4, new) THEN "CommitQuorum"
           ELSE IF Incomplete(c5, new) THEN "LeaderCompleteness"
           ELSE IF AppliedTwice(c6, new) THEN "StateMachineSafety"
           ELSE "none"
  BY <1>1 DEF Check, Passes
<1>5. TwoLeaders(c1, new) <=> Violated(t, old, new, "ElectionSafety")
  <2>1. c1.leaders = c.leaders
    BY <1>2 DEF TestedOn
  <2> QED  BY <2>1, ElectionTest
<1>6. Mutated(c2, new) <=> Violated(t, old, new, "LeaderAppendOnly")
  <2>1. c2.copy = c.copy
    BY <1>2 DEF TestedOn
  <2> QED  BY <2>1, AppendTest
<1>7. Diverged(c3, new) <=> Violated(t, old, new, "LogMatching")
  <2>1. c3.pairs = c.pairs
    BY <1>2 DEF TestedOn
  <2> QED  BY <2>1, MatchTest
<1>8. Regressed(c4, new) <=> Violated(t, old, new, "CommitIndexMonotonic")
  <2>1. c4.prevCommit = [n \in Nodes |-> IF Restarted(c, new, n) THEN new[n].commit
                                         ELSE c.prevCommit[n]]
    BY <1>2 DEF TestedOn
  <2> QED  BY <2>1, MonotonicTest
<1>9. CommittedTwice(c4, new) \/ AppliedTwice(c6, new)
        <=> Violated(t, old, new, "StateMachineSafety")
  <2>1. CommitsAhead(c4, c, old, new) /\ AppliesAhead(c6, c, old, new)
    BY <1>2 DEF TestedOn
  <2> QED  BY <2>1, SafetyTest
<1>10. Unbacked(c4, new) <=> Violated(t, old, new, "CommitQuorum")
  <2>1. CommitsAhead(c4, c, old, new)
    BY <1>2 DEF TestedOn
  <2> QED  BY <2>1, QuorumTest
<1>11. Incomplete(c5, new) <=> Violated(t, old, new, "LeaderCompleteness")
  <2>1. c5.complete = c.complete /\ c5.committed = Committed(t, old, new)
    BY <1>2 DEF TestedOn
  <2> QED  BY <2>1, CompletenessTest
<1>12. \A name : name \in j.violated <=>
         /\ name \in {"ElectionSafety", "LeaderAppendOnly", "LogMatching",
                      "CommitIndexMonotonic", "StateMachineSafety", "CommitQuorum",
                      "LeaderCompleteness"}
         /\ Violated(t, old, new, name)
  <2> HIDE DEF Violated, Led, Committed, AppliedFirst
  <2> QED  BY DEF Judge
<1>13. r.alarm # "none" => r.alarm \in j.violated
  BY <1>4, <1>5, <1>6, <1>7, <1>8, <1>9, <1>10, <1>11, <1>12
<1>14. ASSUME r.alarm = "none" PROVE j.violated = {}
  BY <1>4, <1>5, <1>6, <1>7, <1>8, <1>9, <1>10, <1>11, <1>12, <1>14
<1>15. ASSUME r.alarm = "none" PROVE Synced(r.checker, j, new)
  <2>1. /\ ~Violated(t, old, new, "ElectionSafety")
        /\ ~Violated(t, old, new, "LogMatching")
        /\ ~Violated(t, old, new, "CommitIndexMonotonic")
        /\ ~Violated(t, old, new, "LeaderCompleteness")
    BY <1>12, <1>14, <1>15
  <2>2. c7 \in Caches
    BY <1>3, CachesTyped
  <2>3. ProgressKnown(c7, new)
    BY <1>3, <2>1, ProgressRenewed
  <2>4. RecordsKnown(c7, j)
    BY <1>3, <2>1, RecordsRenewed
  <2>5. TestsPassed(c7, new)
    BY <1>3, <2>1, TestsRenewed
  <2> QED  BY <1>4, <2>2, <2>3, <2>4, <2>5 DEF Synced
<1> QED  BY <1>13, <1>14, <1>15

-----------------------------------------------------------------------------
(***************************************************************************)
(* The steps of the servers.                                               *)
(***************************************************************************)
\* What becomes of one server is a change, as far as it is sound in itself.
LEMMA ChangeTo ==
    ASSUME NEW old, SoundViews(old), NEW n \in Nodes, NEW v, SoundView(v),
           \E m \in Nodes : v.base \in {old[m].base, old[m].commit},
           v.version = old[n].version => v.log = old[n].log /\ v.base = old[n].base,
           v.incarnation # old[n].incarnation => v.commit = v.base
    PROVE  Change(n, old, [old EXCEPT ![n] = v])
<1> DEFINE new == [old EXCEPT ![n] = v]
<1>1. old \in [Nodes -> Views] /\ v \in Views
  BY DEF SoundViews, SoundView
<1>2. new[n] = v /\ \A m \in Nodes \ {n} : new[m] = old[m]
  BY <1>1
<1>3. new \in [Nodes -> Views]
  BY <1>1
<1>4. \A m \in Nodes : SoundView(new[m])
  BY <1>2 DEF SoundViews
<1> HIDE DEF new
<1>5. SoundViews(new)
  BY <1>3, <1>4 DEF SoundViews
<1>6. Change(n, old, new)
  BY <1>2, <1>5 DEF Change
<1> QED  BY <1>6 DEF new

LEMMA SeenStates ==
    ASSUME NEW n, NEW v, NEW compacts \in BOOLEAN
    PROVE  /\ compacts => /\ Moments(n, v, compacts) =
                               << [view EXCEPT ![n] = v], [view EXCEPT ![n] = Compacted(v)] >>
                          /\ SeenStep(n, v, compacts) =
                               << [view EXCEPT ![n] = v], [view EXCEPT ![n] = Compacted(v)] >>
           /\ ~compacts => /\ Moments(n, v, compacts) = << [view EXCEPT ![n] = v] >>
                           /\ SeenStep(n, v, compacts) = << [view EXCEPT ![n] = v] >>
<1>1. ASSUME NEW a, NEW b PROVE <<a>> \o <<b>> = <<a, b>> /\ <<a>> \o <<>> = <<a>>
  <2>1. <<a>> \in Seq({a, b}) /\ <<b>> \in Seq({a, b}) /\ <<>> \in Seq({a, b})
    OBVIOUS
  <2>2. <<a>> \o <<>> = <<a>>
    BY <2>1, ConcatEmptySeq
  <2>3. /\ <<a>> \o <<b>> \in Seq({a, b})
        /\ Len(<<a>> \o <<b>>) = 2
        /\ (<<a>> \o <<b>>)[1] = a
        /\ (<<a>> \o <<b>>)[2] = b
    BY <2>1, ConcatProperties
  <2>4. <<a, b>> \in Seq({a, b}) /\ Len(<<a, b>>) = 2
    OBVIOUS
  <2>5. \A i \in 1 .. 2 : (<<a>> \o <<b>>)[i] = <<a, b>>[i]
    BY <2>3
  <2>6. <<a>> \o <<b>> = <<a, b>>
    <3> DEFINE s == <<a>> \o <<b>>
               u == <<a, b>>
    <3>1. s \in Seq({a, b}) /\ u \in Seq({a, b}) /\ Len(s) = Len(u)
      BY <2>3, <2>4
    <3>2. \A i \in 1 .. Len(s) : s[i] = u[i]
      BY <2>3, <2>5
    <3> HIDE DEF s, u
    <3>3. s = u
      BY <3>1, <3>2, SeqEqual
    <3> QED  BY <3>3 DEF s, u
  <2> QED  BY <2>2, <2>6
<1> DEFINE a == [view EXCEPT ![n] = v]
           b == [view EXCEPT ![n] = Compacted(v)]
<1>2. /\ Moments(n, v, compacts) = <<a>> \o (IF compacts THEN <<b>> ELSE <<>>)
      /\ SeenStep(n, v, compacts) = <<a>> \o (IF compacts THEN <<b>> ELSE <<>>)
  BY DEF Moments, SeenStep
<1>3. /\ compacts => Moments(n, v, compacts) = <<a, b>> /\ SeenStep(n, v, compacts) = <<a, b>>
      /\ ~compacts => Moments(n, v, compacts) = <<a>> /\ SeenStep(n, v, compacts) = <<a>>
  <2> HIDE DEF a, b
  <2> QED  BY <1>1, <1>2
<1> QED  BY <1>3

\* A step of changes, one or two, leaves the checker exact.
LEMMA StepExact ==
    ASSUME alarm = "none", Exact, NEW n \in Nodes, NEW v, NEW compacts \in BOOLEAN,
           Change(n, view, [view EXCEPT ![n] = v]),
           compacts => Change(n, [view EXCEPT ![n] = v], [view EXCEPT ![n] = Compacted(v)]),
           Step(n, v, compacts)
    PROVE  Exact'
<1> DEFINE A == [view EXCEPT ![n] = v]
           B == [view EXCEPT ![n] = Compacted(v)]
           look == Check(checker, A)
           judged == Judge(truth, view, A)
<1>1. Synced(checker, truth, view)
  BY DEF Exact
<1>2. /\ look.alarm # "none" => look.alarm \in judged.violated
      /\ look.alarm = "none" => judged.violated = {} /\ Synced(look.checker, judged, A)
  <2> HIDE DEF look, judged, A
  <2>1. Change(n, view, A)
    BY DEF A
  <2>2. look = Check(checker, A) /\ judged = Judge(truth, view, A)
    BY DEF look, judged
  <2> QED  BY <1>1, <2>1, <2>2, CheckExact
<1>3. CASE ~compacts \/ look.alarm # "none"
  <2>1. /\ checker' = look.checker
        /\ alarm' = look.alarm
        /\ truth' = judged
        /\ alarm' = "none" => view' = A
    <3>1. CASE ~compacts
      <4>1. Moments(n, v, compacts) = <<A>> /\ SeenStep(n, v, compacts) = <<A>>
        BY <3>1, SeenStates
      <4> HIDE DEF A, look, judged
      <4>2. Looked(<<A>>) = look /\ Judged(<<A>>) = judged
        BY DEF Looked, Judged, look, judged
      <4> QED  BY <4>1, <4>2 DEF Step
    <3>2. CASE compacts /\ look.alarm # "none"
      <4>1. Moments(n, v, compacts) = <<A, B>> /\ SeenStep(n, v, compacts) = <<A, B>>
        BY <3>2, SeenStates
      <4>2. judged.violated # {}
        BY <1>2, <3>2
      <4> HIDE DEF A, B
      <4>3. Looked(<<A, B>>) = look /\ Judged(<<A, B>>) = judged
        <5> HIDE DEF look, judged
        <5> QED  BY <3>2, <4>2 DEF Looked, Judged, look, judged
      <4> HIDE DEF look, judged
      <4> QED  BY <3>2, <4>1, <4>3 DEF Step
    <3> QED  BY <1>3, <3>1, <3>2
  <2>2. SoundViews(A)
    BY DEF Change
  <2> HIDE DEF A, look, judged
  <2> QED  BY <1>2, <2>1, <2>2 DEF Exact
<1>4. CASE compacts /\ look.alarm = "none"
  <2> DEFINE look2 == Check(look.checker, B)
             judged2 == Judge(judged, A, B)
  <2>1. /\ checker' = look2.checker
        /\ alarm' = look2.alarm
        /\ truth' = judged2
        /\ view' = B
    <3>1. Moments(n, v, compacts) = <<A, B>> /\ SeenStep(n, v, compacts) = <<A, B>>
      BY <1>4, SeenStates
    <3>2. judged.violated = {}
      BY <1>2, <1>4
    <3> HIDE DEF A, B
    <3>3. Looked(<<A, B>>) = look2 /\ Judged(<<A, B>>) = judged2
      BY <1>4, <3>2 DEF Looked, Judged
    <3> HIDE DEF look2, judged2
    <3> QED  BY <3>1, <3>3 DEF Step
  <2>2. /\ look2.alarm # "none" => look2.alarm \in judged2.violated
        /\ look2.alarm = "none" =>
             judged2.violated = {} /\ Synced(look2.checker, judged2, B)
    <3>1. Change(n, A, B)
      BY <1>4
    <3>2. Synced(look.checker, judged, A)
      BY <1>2, <1>4
    <3> HIDE DEF A, B, look, judged
    <3> QED  BY <3>1, <3>2, CheckExact
  <2>3. SoundViews(B)
    BY <1>4 DEF Change
  <2> HIDE DEF B, look2, judged2
  <2> QED  BY <2>1, <2>2, <2>3 DEF Exact
<1> QED  BY <1>3, <1>4

IsTail(s, y, last) == s \in Seq(Entries) /\ Len(s) \in Nat /\ y + Len(s) = last

\* What is left of a log from b on when it is compacted up to y.
LEMMA TailKept ==
    ASSUME NEW log \in Seq(Entries), NEW b \in Nat, NEW y \in Nat, b <= y,
           NEW z \in Nat, z = Len(log), y <= b + z
    PROVE  IsTail(SubSeq(log, y - b + 1, z), y, b + z)
<1>1. PICK g \in Nat : g = y - b /\ g <= z
  <2>1. y - b \in Nat
    OBVIOUS
  <2>2. y - b <= z
    OBVIOUS
  <2> QED  BY <2>1, <2>2
<1>2. \A i \in g + 1 .. z : log[i] \in Entries
  <2> TAKE i \in g + 1 .. z
  <2>1. i \in 1 .. Len(log)
    BY <1>1
  <2> QED  BY <2>1
<1>3. /\ SubSeq(log, g + 1, z) \in Seq(Entries)
      /\ Len(SubSeq(log, g + 1, z)) = IF g + 1 <= z THEN z - (g + 1) + 1 ELSE 0
  <2>1. g + 1 \in Int /\ z \in Int
    BY <1>1
  <2> QED  BY <1>2, <2>1, SubSeqProperties
<1>4. Len(SubSeq(log, g + 1, z)) = z - g
  BY <1>1, <1>3
<1>5. y - b + 1 = g + 1
  BY <1>1
<1>6. z - g \in Nat /\ y + (z - g) = b + z
  <2>1. z - g \in Nat
    BY <1>1
  <2>2. y + (z - g) = b + z
    BY <1>1
  <2> QED  BY <2>1, <2>2
<1> QED  BY <1>3, <1>4, <1>5, <1>6 DEF IsTail

LEMMA TakeRoleExact ==
    ASSUME alarm = "none", Exact, NEW n \in Nodes, TakeRole(n)
    PROVE  Exact'
<1>1. SoundViews(view) /\ SoundView(view[n]) /\ view[n] \in Views
  BY DEF Exact, SoundViews, SoundView
<1>2. ASSUME NEW v,
             \/ \E t \in Higher(view[n].term, 1) .. MaxTerm :
                  v = [view[n] EXCEPT !.role = "leader", !.term = t]
             \/ v = [view[n] EXCEPT !.role = "follower"],
             Step(n, v, FALSE)
      PROVE  Exact'
  <2>1. /\ v \in Views
        /\ v.log = view[n].log /\ v.base = view[n].base /\ v.commit = view[n].commit
        /\ v.applied = view[n].applied /\ v.version = view[n].version
        /\ v.incarnation = view[n].incarnation
        /\ v.role = "leader" => v.term \in Terms
    <3>1. CASE v = [view[n] EXCEPT !.role = "follower"]
      BY <1>1, <3>1 DEF Views
    <3>2. CASE \E t \in Higher(view[n].term, 1) .. MaxTerm :
                 v = [view[n] EXCEPT !.role = "leader", !.term = t]
      <4>1. PICK t \in Higher(view[n].term, 1) .. MaxTerm :
              v = [view[n] EXCEPT !.role = "leader", !.term = t]
        BY <3>2
      <4>2. PICK h \in Nat : h = Higher(view[n].term, 1) /\ 1 <= h
        <5>1. view[n].term \in Nat
          BY <1>1 DEF Views
        <5> QED  BY <5>1, HigherIs
      <4>3. MaxTerm \in Nat
        BY CheckerAssumption
      <4>4. t \in Nat /\ t \in Terms
        BY <4>1, <4>2, <4>3 DEF Terms
      <4>5. v = [view[n] EXCEPT !.role = "leader", !.term = t]
        BY <4>1
      <4> QED  BY <1>1, <4>4, <4>5 DEF Views
    <3> QED  BY <1>2, <3>1, <3>2
  <2>2. SoundView(v)
    BY <1>1, <2>1 DEF SoundView, LastIndex
  <2>3. Change(n, view, [view EXCEPT ![n] = v])
    BY <1>1, <2>1, <2>2, ChangeTo
  <2> QED  BY <1>2, <2>3, StepExact
<1> QED  BY <1>2 DEF TakeRole

LEMMA InstallExact ==
    ASSUME alarm = "none", Exact, NEW n \in Nodes, NEW m \in Nodes, Install(n, m)
    PROVE  Exact'
<1>1. SoundViews(view) /\ SoundView(view[n]) /\ view[n] \in Views /\ SoundView(view[m])
  BY DEF Exact, SoundViews, SoundView
<1>2. PICK keeps \in BOOLEAN :
        /\ keeps => LastIndex(view[n]) > view[m].base
        /\ Step(n, [view[n] EXCEPT
                      !.log = IF keeps THEN SubSeq(@, view[m].base - view[n].base + 1,
                                                   Len(@)) ELSE <<>>,
                      !.base = view[m].base,
                      !.commit = view[m].base,
                      !.applied = <<>>,
                      !.version = @ + 1], FALSE)
  BY DEF Install
<1>3. PICK b \in Nat, x \in Nat, z \in Nat, w \in Nat, log \in Seq(Entries) :
        /\ b = view[n].base /\ x = view[n].commit /\ z = Len(log) /\ log = view[n].log
        /\ b <= x /\ x <= b + z /\ b + z <= MaxLog /\ w = view[n].version
        /\ view[n].term \in Nat /\ view[n].incarnation \in Nat
  <2>1. LastIndex(view[n]) = view[n].base + Len(view[n].log)
    BY DEF LastIndex
  <2>2. LastIndex(view[n]) <= MaxLog
    BY <1>1 DEF SoundView
  <2> QED  BY <1>1, <2>1, <2>2, ViewFields
<1>4. PICK y \in Nat : y = view[m].base /\ y <= MaxLog
  <2>1. PICK p \in Nat, q \in Nat, l \in Nat :
          /\ p = view[m].base /\ q = view[m].commit /\ l = LastIndex(view[m])
          /\ p <= q /\ q <= l /\ l <= MaxLog
    <3>1. LastIndex(view[m]) \in Nat /\ LastIndex(view[m]) <= MaxLog
      <4>1. view[m].base \in Nat /\ Len(view[m].log) \in Nat
        BY <1>1, ViewFields
      <4> QED  BY <1>1, <4>1 DEF SoundView, LastIndex
    <3> QED  BY <1>1, <3>1, ViewFields
  <2> QED  BY <2>1, CheckerAssumption
<1>5. x < y
  BY <1>2, <1>3, <1>4 DEF Install
<1> DEFINE kept == IF keeps THEN SubSeq(log, y - b + 1, z) ELSE <<>>
           v == [view[n] EXCEPT !.log = kept, !.base = y, !.commit = y,
                                !.applied = <<>>, !.version = w + 1]
<1>6. Step(n, v, FALSE)
  BY <1>2, <1>3, <1>4
<1>7. kept \in Seq(Entries) /\ Len(kept) \in Nat
  <2>1. CASE keeps
    <3>1. y <= b + z
      BY <1>2, <1>3, <1>4, <2>1 DEF LastIndex
    <3>2. b <= y
      BY <1>3, <1>5
    <3>3. kept = SubSeq(log, y - b + 1, z)
      BY <2>1
    <3> HIDE DEF kept
    <3>4. IsTail(SubSeq(log, y - b + 1, z), y, b + z)
      BY <1>3, <3>1, <3>2, TailKept
    <3> QED  BY <3>3, <3>4 DEF IsTail
  <2>2. CASE ~keeps
    <3>1. kept = <<>>
      BY <2>2
    <3> HIDE DEF kept
    <3> QED  BY <3>1
  <2> QED  BY <2>1, <2>2
<1>8. y + Len(kept) <= MaxLog
  <2>1. CASE keeps
    <3>1. y <= b + z
      BY <1>2, <1>3, <1>4, <2>1 DEF LastIndex
    <3>2. b <= y
      BY <1>3, <1>5
    <3>3. kept = SubSeq(log, y - b + 1, z)
      BY <2>1
    <3> HIDE DEF kept
    <3>4. IsTail(SubSeq(log, y - b + 1, z), y, b + z)
      BY <1>3, <3>1, <3>2, TailKept
    <3> QED  BY <1>3, <3>3, <3>4 DEF IsTail
  <2>2. CASE ~keeps
    <3>1. Len(kept) = 0
      BY <2>2
    <3> HIDE DEF kept
    <3> QED  BY <1>4, <3>1
  <2> QED  BY <2>1, <2>2
<1>9. /\ v \in Views
      /\ v.role = view[n].role /\ v.term = view[n].term
      /\ v.log = kept /\ v.base = y /\ v.commit = y /\ v.applied = <<>>
      /\ v.version = w + 1 /\ v.incarnation = view[n].incarnation
  <2>1. kept \in Seq(Entries) /\ <<>> \in Seq(Orders) /\ w + 1 \in Nat
    BY <1>7
  <2> HIDE DEF kept
  <2> QED  BY <1>1, <2>1 DEF Views
<1> HIDE DEF kept, v
<1>10. SoundView(v)
  <2>1. Len(kept) \in Nat
    BY <1>7
  <2>2. LastIndex(v) = y + Len(kept) /\ y <= LastIndex(v)
    BY <1>9, <2>1 DEF LastIndex
  <2> QED  BY <1>1, <1>8, <1>9, <2>2 DEF SoundView
<1>11. Change(n, view, [view EXCEPT ![n] = v])
  <2>1. v.version # view[n].version
    BY <1>3, <1>9
  <2>2. \E q \in Nodes : v.base \in {view[q].base, view[q].commit}
    BY <1>4, <1>9
  <2> QED  BY <1>1, <1>9, <1>10, <2>1, <2>2, ChangeTo
<1> QED  BY <1>6, <1>11, StepExact

LEMMA RestartExact ==
    ASSUME alarm = "none", Exact, NEW n \in Nodes, Restart(n)
    PROVE  Exact'
<1>1. SoundViews(view) /\ SoundView(view[n]) /\ view[n] \in Views
  BY DEF Exact, SoundViews, SoundView
<1> DEFINE v == [view[n] EXCEPT !.role = "follower", !.commit = view[n].base,
                                !.applied = <<>>, !.incarnation = @ + 1]
<1>2. Step(n, v, FALSE)
  BY DEF Restart
<1>3. /\ v \in Views
      /\ v.role = "follower"
      /\ v.log = view[n].log /\ v.base = view[n].base /\ v.commit = view[n].base
      /\ v.applied = <<>> /\ v.version = view[n].version
  <2>1. <<>> \in Seq(Orders) /\ view[n].incarnation + 1 \in Nat /\ view[n].base \in Nat
    BY <1>1 DEF Views
  <2> QED  BY <1>1, <2>1 DEF Views
<1> HIDE DEF v
<1>4. SoundView(v)
  <2>1. PICK b \in Nat, x \in Nat, z \in Nat :
          /\ b = view[n].base /\ x = view[n].commit /\ z = LastIndex(view[n])
          /\ b <= x /\ x <= z /\ z <= MaxLog
    <3>1. LastIndex(view[n]) \in Nat /\ LastIndex(view[n]) <= MaxLog
      <4>1. view[n].base \in Nat /\ Len(view[n].log) \in Nat
        BY <1>1, ViewFields
      <4> QED  BY <1>1, <4>1 DEF SoundView, LastIndex
    <3> QED  BY <1>1, <3>1, ViewFields
  <2>2. LastIndex(v) = z
    BY <1>3, <2>1 DEF LastIndex
  <2>3. b <= z /\ b - b = 0
    BY <2>1
  <2> QED  BY <1>3, <2>1, <2>2, <2>3 DEF SoundView
<1>5. Change(n, view, [view EXCEPT ![n] = v])
  <2>1. \E q \in Nodes : v.base \in {view[q].base, view[q].commit}
    BY <1>3
  <2> QED  BY <1>1, <1>3, <1>4, <2>1, ChangeTo
<1> QED  BY <1>2, <1>5, StepExact

LEMMA WriteExact ==
    ASSUME alarm = "none", Exact, NEW n \in Nodes, Write(n)
    PROVE  Exact'
<1>1. SoundViews(view) /\ SoundView(view[n]) /\ view[n] \in Views
  BY DEF Exact, SoundViews, SoundView
<1>2. PICK upto \in 0 .. Len(view[n].log), tail \in {<<>>} \cup {<<e>> : e \in Entries} :
        LET log == SubSeq(view[n].log, 1, upto) \o tail
            changed == log # view[n].log
            v == [view[n] EXCEPT !.log = log, !.version = IF changed THEN @ + 1 ELSE @]
        IN /\ view[n].base + Len(log) <= MaxLog
           /\ \E c \in view[n].base .. LastIndex(v), compacts \in BOOLEAN :
                /\ compacts => c > view[n].commit
                /\ Step(n, CommittedTo(v, c), compacts)
  BY Zenon DEF Write
<1> DEFINE log == SubSeq(view[n].log, 1, upto) \o tail
           v == [view[n] EXCEPT !.log = log,
                                !.version = IF log # view[n].log THEN @ + 1 ELSE @]
<1>3. PICK c \in view[n].base .. LastIndex(v), compacts \in BOOLEAN :
        /\ compacts => c > view[n].commit
        /\ Step(n, CommittedTo(v, c), compacts)
  BY <1>2
<1>4. /\ view[n].base + Len(log) <= MaxLog
      /\ log \in Seq(Entries)
  <2>1. view[n].log \in Seq(Entries) /\ Len(view[n].log) \in Nat
    BY <1>1, ViewFields
  <2>2. upto \in Int /\ \A i \in 1 .. upto : view[n].log[i] \in Entries
    BY <2>1
  <2>3. SubSeq(view[n].log, 1, upto) \in Seq(Entries)
    BY <2>2, SubSeqProperties
  <2>4. tail \in Seq(Entries)
    <3>1. CASE tail = <<>>
      BY <3>1
    <3>2. CASE \E e \in Entries : tail = <<e>>
      BY <3>2
    <3> QED  BY <1>2, <3>1, <3>2
  <2>5. log \in Seq(Entries)
    BY <2>3, <2>4, ConcatProperties
  <2> QED  BY <1>2, <2>5
<1> HIDE DEF log
<1>5. /\ v \in Views
      /\ v.role = view[n].role /\ v.term = view[n].term /\ v.log = log
      /\ v.base = view[n].base /\ v.commit = view[n].commit
      /\ v.applied = view[n].applied /\ v.incarnation = view[n].incarnation
      /\ v.version = IF log # view[n].log THEN view[n].version + 1 ELSE view[n].version
  <2>1. view[n].version \in Nat
    BY <1>1 DEF Views
  <2>2. PICK w \in Nat :
          w = IF log # view[n].log THEN view[n].version + 1 ELSE view[n].version
    BY <2>1
  <2>3. v = [view[n] EXCEPT !.log = log, !.version = w]
    BY <2>2
  <2> HIDE DEF v
  <2> QED  BY <1>1, <1>4, <2>2, <2>3 DEF Views
<1> HIDE DEF v
<1>6. PICK b \in Nat, x \in Nat, z \in Nat :
        /\ b = view[n].base /\ x = view[n].commit /\ b <= x /\ z = Len(log)
        /\ b + z <= MaxLog /\ LastIndex(v) = b + z
  <2>1. view[n].base \in Nat /\ view[n].commit \in Nat /\ view[n].base <= view[n].commit
    BY <1>1, ViewFields
  <2>2. Len(log) \in Nat
    BY <1>4
  <2>3. LastIndex(v) = view[n].base + Len(log)
    BY <1>5 DEF LastIndex
  <2> QED  BY <1>4, <2>1, <2>2, <2>3
<1>7. c \in Nat /\ b <= c /\ c <= b + z
  <2>1. c \in b .. b + z
    BY <1>3, <1>6
  <2> QED  BY <1>6, <2>1
<1> DEFINE q == CommittedTo(v, c)
           A == [k \in 1 .. c - b |-> IF k <= Len(v.applied) THEN v.applied[k]
                                      ELSE log[k].command]
<1>8. A \in Seq(Orders) /\ Len(A) = c - b
  <2>1. v.applied \in Seq(Orders)
    BY <1>5 DEF Views
  <2>2. c - b \in Nat /\ c - b <= z
    <3>1. c - b \in Nat
      BY <1>6, <1>7
    <3>2. c - b <= z
      BY <1>6, <1>7
    <3> QED  BY <3>1, <3>2
  <2>3. ASSUME NEW k \in 1 .. c - b
        PROVE  (IF k <= Len(v.applied) THEN v.applied[k] ELSE log[k].command) \in Orders
    <3>1. k \in 1 .. z
      BY <1>6, <2>2
    <3>2. log[k] \in Entries
      BY <1>4, <1>6, <3>1
    <3>3. log[k].command \in Orders
      BY <3>2 DEF Orders
    <3>4. k <= Len(v.applied) => v.applied[k] \in Orders
      BY <2>1
    <3> QED  BY <3>3, <3>4
  <2>4. A \in [1 .. c - b -> Orders]
    BY <2>3
  <2> HIDE DEF A
  <2> QED  BY <2>2, <2>4
<1>9. /\ q \in Views
      /\ q.role = view[n].role /\ q.term = view[n].term /\ q.log = log
      /\ q.base = b /\ q.commit = c /\ q.applied = A
      /\ q.incarnation = view[n].incarnation /\ q.version = v.version
  <2>1. q = [v EXCEPT !.commit = c, !.applied = A]
    BY <1>5, <1>6 DEF CommittedTo
  <2> HIDE DEF q, A
  <2> QED  BY <1>5, <1>6, <1>7, <1>8, <2>1 DEF Views
<1> HIDE DEF q, A
<1>10. SoundView(q)
  <2>1. LastIndex(q) = b + z
    BY <1>6, <1>9 DEF LastIndex
  <2> QED  BY <1>1, <1>6, <1>7, <1>8, <1>9, <2>1 DEF SoundView
<1>11. Change(n, view, [view EXCEPT ![n] = q])
  <2>1. q.version = view[n].version => q.log = view[n].log /\ q.base = view[n].base
    <3>1. view[n].version \in Nat
      BY <1>1 DEF Views
    <3>2. view[n].version + 1 # view[n].version
      BY <3>1
    <3> QED  BY <1>5, <1>6, <1>9, <3>2
  <2>2. \E m \in Nodes : q.base \in {view[m].base, view[m].commit}
    BY <1>6, <1>9
  <2> QED  BY <1>1, <1>9, <1>10, <2>1, <2>2, ChangeTo
<1>12. ASSUME compacts
       PROVE  Change(n, [view EXCEPT ![n] = q], [view EXCEPT ![n] = Compacted(q)])
  <2> DEFINE mid == [view EXCEPT ![n] = q]
             p == Compacted(q)
             rest == SubSeq(log, c - b + 1, z)
  <2>1. mid[n] = q /\ SoundViews(mid)
    <3>1. mid[n] = q
      BY <1>1 DEF SoundViews
    <3> QED  BY <1>11, <3>1 DEF Change
  <2>2. rest \in Seq(Entries) /\ Len(rest) \in Nat /\ c + Len(rest) = b + z
    <3>1. IsTail(rest, c, b + z)
      BY <1>4, <1>6, <1>7, TailKept
    <3> QED  BY <3>1 DEF IsTail
  <2>3. p = [q EXCEPT !.base = c, !.log = rest, !.applied = <<>>, !.version = q.version + 1]
    BY <1>6, <1>9 DEF Compacted
  <2>4. q.version \in Nat
    BY <1>9 DEF Views
  <2> HIDE DEF p, rest
  <2>5. /\ p \in Views
        /\ p.role = q.role /\ p.term = q.term /\ p.log = rest
        /\ p.base = c /\ p.commit = c /\ p.applied = <<>>
        /\ p.incarnation = q.incarnation /\ p.version = q.version + 1
    <3>1. <<>> \in Seq(Orders) /\ q.version + 1 \in Nat
      BY <2>4
    <3> QED  BY <1>7, <1>9, <2>2, <2>3, <3>1 DEF Views
  <2>6. SoundView(p)
    <3>1. LastIndex(p) = b + z
      BY <2>2, <2>5 DEF LastIndex
    <3>2. p.role = "leader" => p.term \in Terms
      BY <1>10, <2>5 DEF SoundView
    <3> QED  BY <1>6, <1>7, <2>5, <3>1, <3>2 DEF SoundView
  <2>7. \E m \in Nodes : p.base \in {mid[m].base, mid[m].commit}
    <3> HIDE DEF mid
    <3> QED  BY <1>9, <2>1, <2>5
  <2>8. p.version # mid[n].version /\ p.incarnation = mid[n].incarnation
    <3> HIDE DEF mid
    <3> QED  BY <2>1, <2>4, <2>5
  <2>9. Change(n, mid, [mid EXCEPT ![n] = p])
    <3> HIDE DEF mid
    <3> QED  BY <2>1, <2>6, <2>7, <2>8, ChangeTo
  <2>10. [mid EXCEPT ![n] = p] = [view EXCEPT ![n] = p]
    BY <1>1 DEF SoundViews
  <2> QED  BY <2>9, <2>10 DEF p
<1>13. Step(n, q, compacts)
  BY <1>3 DEF q
<1> QED  BY <1>11, <1>12, <1>13, StepExact

LEMMA InitExact == Init => Exact
<1> SUFFICES ASSUME Init PROVE Exact
  OBVIOUS
<1> DEFINE v0 == [role |-> "follower", term |-> 0, log |-> <<>>, base |-> 0, commit |-> 0,
                  applied |-> <<>>, version |-> 0, incarnation |-> 0]
<1>1. view = [n \in Nodes |-> v0]
  BY DEF Init
<1>2. /\ v0 \in Views
      /\ v0.role = "follower" /\ v0.log = <<>> /\ v0.base = 0 /\ v0.commit = 0
      /\ v0.applied = <<>> /\ v0.incarnation = 0 /\ v0.version = 0
  BY DEF Views
<1> HIDE DEF v0
<1>3. LastIndex(v0) = 0 /\ Applied(v0) = 0
  BY <1>2 DEF LastIndex, Applied
<1>4. SoundViews(view)
  <2>1. SoundView(v0)
    BY <1>2, <1>3, CheckerAssumption DEF SoundView
  <2> QED  BY <1>1, <1>2, <2>1 DEF SoundViews
<1>5. checker \in Caches
  <2>1. <<>> \in Seq(CommitRecords) /\ <<>> \in Seq(Orders) /\ <<>> \in Seq(Nat)
        /\ <<>> \in Seq(Entries)
    OBVIOUS
  <2>2. 0 \in 0 .. N
    BY CheckerAssumption
  <2> QED  BY <2>1, <2>2 DEF Init, Caches, NoCopy
<1>6. /\ checker.leaders = [t \in Terms |-> 0]
      /\ checker.committed = <<>> /\ checker.applied = <<>> /\ checker.maxCommit = 0
      /\ checker.prevCommit = [n \in Nodes |-> 0]
      /\ checker.appliedSeen = [n \in Nodes |-> 0]
      /\ checker.incarnation = [n \in Nodes |-> 0]
      /\ checker.copy = [n \in Nodes |-> NoCopy]
      /\ checker.pairs = [p \in Pairs |-> <<>>]
      /\ checker.complete = [n \in Nodes |-> <<>>]
      /\ alarm = "none"
      /\ truth.led = {} /\ truth.committed = <<>> /\ truth.applied = <<>>
      /\ truth.violated = {}
  BY DEF Init
<1>7. ProgressKnown(checker, view)
  BY <1>1, <1>2, <1>3, <1>6 DEF ProgressKnown
<1>8. RecordsKnown(checker, truth)
  <2>1. \A n \in Nodes : n # 0
    BY DEF Nodes
  <2> QED  BY <1>6, <2>1 DEF RecordsKnown
<1>9. TestsPassed(checker, view)
  <2>1. Leaders(view) = {}
    BY <1>1, <1>2 DEF Leaders
  <2>2. Match(v0, v0)
    <3>1. \A top \in 1 .. 0 : FALSE
      OBVIOUS
    <3> QED  BY <1>2, <1>3, <3>1 DEF Match, Higher
  <2>3. \A p \in Pairs : p[1] \in Nodes /\ p[2] \in Nodes
    BY DEF Pairs
  <2> QED  BY <1>1, <1>6, <2>1, <2>2, <2>3 DEF TestsPassed
<1> QED  BY <1>4, <1>5, <1>6, <1>7, <1>8, <1>9 DEF Exact, Synced

\* The caches stay right: the inductive invariant.
THEOREM StaysExact == Spec => []Exact
<1>1. Init => Exact
  BY InitExact
<1>2. Exact /\ [Next]_vars => Exact'
  <2> SUFFICES ASSUME Exact, [Next]_vars PROVE Exact'
    OBVIOUS
  <2>1. CASE UNCHANGED vars
    BY <2>1 DEF vars, Exact
  <2>2. CASE Next
    <3>1. alarm = "none"
      BY <2>2 DEF Next
    <3>2. PICK n \in Nodes : TakeRole(n) \/ Write(n) \/ (\E m \in Nodes : Install(n, m))
                             \/ Restart(n)
      BY <2>2, Zenon DEF Next
    <3>3. CASE TakeRole(n)
      BY <3>1, <3>3, TakeRoleExact
    <3>4. CASE Write(n)
      BY <3>1, <3>4, WriteExact
    <3>5. CASE \E m \in Nodes : Install(n, m)
      BY <3>1, <3>5, InstallExact
    <3>6. CASE Restart(n)
      BY <3>1, <3>6, RestartExact
    <3> QED  BY <3>2, <3>3, <3>4, <3>5, <3>6
  <2> QED  BY <2>1, <2>2
<1> QED  BY <1>1, <1>2, PTL DEF Spec

\* What the checker raises is so, whatever the servers did and however many there
\* are: no cache makes it blame a run for what did not happen.
THEOREM NoFalseAlarm == Spec => []AlarmTrue
<1>1. Exact => AlarmTrue
  BY DEF Exact, AlarmTrue
<1> QED  BY <1>1, StaysExact, PTL

\* What a step violated the check after it raises: nothing it skips, because a
\* version or an incarnation has not changed, could have failed.
THEOREM NoMissedViolation == Spec => []NothingMissed
<1>1. Exact => NothingMissed
  BY DEF Exact, NothingMissed
<1> QED  BY <1>1, StaysExact, PTL

\* The record of commits that later leaders are held to is the true one.
THEOREM RecordStaysTrue == Spec => []RecordTrue
<1>1. Exact => RecordTrue
  BY DEF Exact, RecordTrue, Synced, RecordsKnown
<1> QED  BY <1>1, StaysExact, PTL

=============================================================================

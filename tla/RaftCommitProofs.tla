-------------------------- MODULE RaftCommitProofs --------------------------
(***************************************************************************)
(* What the servers commit, proved of every instance of RaftNode, and of   *)
(* those with a fixed configuration: whatever is committed is in the log   *)
(* of every later leader, and no server ever applies anything else.        *)
(***************************************************************************)
EXTENDS RaftLogProofs

-----------------------------------------------------------------------------
(***************************************************************************)
(* Commits: why what is committed is in every later leader's log.  Entry   *)
(* <<t, i>> is the one that the leader of term t appended at index i.      *)
(***************************************************************************)
Has(L, t, i) == i \in 1 .. Len(L) /\ L[i].term = t

\* v told the leader of term t, or is that leader, that it stores its log up to i.
Acked(v, t, i) ==
    \/ <<t, v>> \in leadersByTerm
    \/ \E m \in network : /\ m.type = "AppendReply"
                          /\ m.success
                          /\ m.term = t
                          /\ m.from = v
                          /\ m.match >= i

\* A majority stored entry <<t, i>> in the term it was appended in.
Chosen(lead, t, i) ==
    /\ Has(lead[t], t, i)
    /\ Majority({v \in Nodes : Acked(v, t, i)}, InitialVoters)

\* A leader after term t and up to term u is without <<t, i>>.
Dropped(lead, t, i, u) == \E w \in t + 1 .. u : Led(w) /\ ~Has(lead[w], t, i)

\* Log L holds what v acknowledged before term u, but for what a leader up to
\* term w is without.
Covers(lead, L, v, u, w) ==
    \A t, i \in Nat :
      t < u /\ Has(lead[t], t, i) /\ Acked(v, t, i) =>
        Has(L, t, i) \/ Dropped(lead, t, i, w)

\* Nothing that was acknowledged is lost but to a later leader.
AcksKept(lead, full) ==
    \A v \in Nodes : Covers(lead, full[v], v, term[v] + 1, term[v])

\* Whoever votes for a candidate knows no more than the candidate.
VotesCover(lead, full) ==
    \A c \in Nodes : role[c] = "candidate" =>
      /\ \A i \in 1 .. Len(full[c]) : full[c][i].term < term[c]
      /\ \A v \in Supporters(c, term[c]) :
           Covers(lead, full[c], v, term[c], term[c])

\* Every leader was elected by a majority that knew no more than it did, and
\* that has not acknowledged anything of earlier terms since.
LeadersCover(lead) ==
    \A u \in Nat : Led(u) =>
      \E Q \in SUBSET Nodes :
        /\ Majority(Q, InitialVoters)
        /\ \A v \in Q : term[v] >= u /\ Covers(lead, lead[u], v, u, u - 1)

\* The first k entries of L were chosen in term u or before.
Settled(lead, L, u, k) ==
    k = 0 \/ \E t, i \in Nat : /\ t <= u
                               /\ k <= i
                               /\ Chosen(lead, t, i)
                               /\ SameUpTo(L, lead[t], k)

\* The commands cmds are those of the first k entries of L.
IsImage(cmds, L, k) == k <= Len(L) /\ \A j \in 1 .. k : cmds[j] = L[j].cmd

\* What n, whose log is L, has committed, applied and compacted is settled.
ServerSettled(lead, L, n) ==
    /\ Settled(lead, L, term[n], commitIndex[n])
    /\ IsImage(applied[n], L, commitIndex[n])
    /\ IsImage(snapshot[n].image, L, Base(n))

\* So is what was first observed as committed.
RecordSettled(lead, rec) ==
    \E t, i \in Nat : /\ t <= rec.term
                      /\ rec.index \in 1 .. i
                      /\ Chosen(lead, t, i)
                      /\ rec.entry = lead[t][rec.index]

\* A leader n, whose log is L, knows of its peers what they acknowledged.
TableTrue(L, n) ==
    role[n] = "leader" =>
      \A p \in Nodes :
        /\ nextIndex[n][p] <= Len(L) + 1
        /\ matchIndex[n][p] > 0 => Acked(p, term[n], matchIndex[n][p])

LastTermOf(L) == IF L = <<>> THEN 0 ELSE L[Len(L)].term

\* Servers send the truth about their logs.
TrueMessage(lead, full, m) ==
    LET L == lead[m.term]
    IN /\ m.type = "RequestVote" =>
            /\ m.term <= term[m.from]
            /\ role[m.from] = "candidate" /\ m.term = term[m.from] =>
                 /\ m.lastIndex = Len(full[m.from])
                 /\ m.lastTerm = LastTermOf(full[m.from])
       /\ m.type = "VoteReply" /\ m.granted => m.term <= term[m.to]
       /\ m.type = "AppendEntries" =>
            /\ m.prevIndex <= Len(L)
            /\ m.prevIndex > 0 => m.prevTerm = L[m.prevIndex].term
            /\ Settled(lead, L, m.term, m.commit)
       /\ m.type = "AppendReply" /\ m.success =>
            /\ m.term <= term[m.from]
            /\ m.match <= Len(L)
       /\ m.type = "InstallSnapshot" =>
            /\ Settled(lead, L, m.term, m.snapshot.lastIndex)
            /\ IsImage(m.snapshot.image, L, m.snapshot.lastIndex)

Commits(lead, full) ==
    /\ AcksKept(lead, full)
    /\ VotesCover(lead, full)
    /\ LeadersCover(lead)
    /\ \A n \in Nodes : ServerSettled(lead, full[n], n) /\ TableTrue(full[n], n)
    /\ \A rec \in committed : RecordSettled(lead, rec)
    /\ \A m \in network : TrueMessage(lead, full, m)

-----------------------------------------------------------------------------
(***************************************************************************)
(* What a step never takes back.                                           *)
(***************************************************************************)
\* The step only adds: messages, leaders, terms, and to the log of a leader
\* entries of its own term.
Onward(lead, lead2) ==
    /\ network \subseteq network'
    /\ leadersByTerm \subseteq leadersByTerm'
    /\ \A k \in Nodes : term'[k] >= term[k]
    /\ Extends(lead, lead2)
    /\ \A w \in Nat : Led(w) =>
         \A i \in 1 .. Len(lead2[w]) : i > Len(lead[w]) => lead2[w][i].term = w

LEMMA HasGrows ==
    ASSUME NEW L \in Seq(KnownEntries), NEW M \in Seq(KnownEntries),
           SameUpTo(L, M, Len(L)), NEW t, NEW i, Has(L, t, i)
    PROVE  Has(M, t, i)
<1>1. Len(L) \in Nat /\ Len(M) \in Nat
  BY LoggedTypes
<1> QED  BY <1>1 DEF SameUpTo, Has

LEMMA AckedGrows ==
    ASSUME NEW lead, NEW lead2, Onward(lead, lead2), NEW v, NEW t, NEW i, Acked(v, t, i)
    PROVE  Acked(v, t, i)'
BY DEF Onward, Acked

LEMMA LedGrows ==
    ASSUME NEW lead, NEW lead2, Onward(lead, lead2), NEW t, Led(t)
    PROVE  Led(t)'
BY DEF Onward, Led

\* Who leads adds no entry of an earlier term.
LEMMA DroppedGrows ==
    ASSUME NEW lead \in [Nat -> Seq(KnownEntries)],
           NEW lead2 \in [Nat -> Seq(KnownEntries)], Onward(lead, lead2),
           NEW t \in Nat, NEW i, NEW u \in Nat, NEW u2 \in Nat, u <= u2,
           Dropped(lead, t, i, u)
    PROVE  \E w \in t + 1 .. u2 : Led(w)' /\ ~Has(lead2[w], t, i)
<1>1. PICK w \in t + 1 .. u : Led(w) /\ ~Has(lead[w], t, i)
  BY DEF Dropped
<1>2. w \in Nat /\ w # t /\ w \in t + 1 .. u2
  OBVIOUS
<1>3. Led(w)'
  BY <1>1, LedGrows
<1>4. ~Has(lead2[w], t, i)
  <2> SUFFICES ASSUME Has(lead2[w], t, i) PROVE FALSE
    OBVIOUS
  <2>1. /\ Len(lead[w]) \in Nat
        /\ SameUpTo(lead[w], lead2[w], Len(lead[w]))
        /\ i \in 1 .. Len(lead2[w])
        /\ i > Len(lead[w]) => lead2[w][i].term = w
    BY <1>1, <1>2, LoggedTypes DEF Onward, Extends, Has
  <2>2. i \in 1 .. Len(lead[w])
    <3>1. Len(lead2[w]) \in Nat /\ lead2[w][i].term = t
      BY <1>2, LoggedTypes DEF Has
    <3> QED  BY <1>2, <2>1, <3>1
  <2>3. lead[w][i] = lead2[w][i]
    BY <2>1, <2>2 DEF SameUpTo
  <2> QED  BY <1>1, <2>2, <2>3 DEF Has
<1> QED  BY <1>2, <1>3, <1>4

LEMMA ChosenGrows ==
    ASSUME NEW lead \in [Nat -> Seq(KnownEntries)],
           NEW lead2 \in [Nat -> Seq(KnownEntries)], Onward(lead, lead2),
           NEW t \in Nat, NEW i \in Nat, Chosen(lead, t, i)
    PROVE  Chosen(lead2, t, i)'
<1>1. Has(lead2[t], t, i)
  BY HasGrows DEF Onward, Extends, Chosen
<1>2. PICK A : A = {v \in Nodes : Acked(v, t, i)}
  OBVIOUS
<1>3. PICK B : B = {v \in Nodes : Acked(v, t, i)'}
  OBVIOUS
<1>4. A \subseteq B
  BY <1>2, <1>3, AckedGrows
<1>5. Majority(A, InitialVoters)
  BY <1>2 DEF Chosen
<1>6. Majority(B, InitialVoters)
  BY <1>4, <1>5, VotersFinite, MajorityGrows
<1> QED  BY <1>1, <1>3, <1>6 DEF Chosen

\* What is settled stays so, in every log that shares it, at any later time, and
\* so does all before it.
LEMMA SettledGrows ==
    ASSUME NEW lead \in [Nat -> Seq(KnownEntries)],
           NEW lead2 \in [Nat -> Seq(KnownEntries)], Onward(lead, lead2),
           NEW L \in Seq(KnownEntries), NEW M \in Seq(KnownEntries),
           NEW u \in Nat, NEW u2 \in Nat, u <= u2,
           NEW k \in Nat, NEW k2 \in Nat, k2 <= k, SameUpTo(M, L, k2),
           Settled(lead, L, u, k)
    PROVE  Settled(lead2, M, u2, k2)'
<1>1. CASE k2 = 0
  BY <1>1 DEF Settled
<1>2. CASE k2 # 0
  <2>0. k # 0
    BY <1>2
  <2>1. PICK t \in Nat : \E i \in Nat : /\ t <= u
                                         /\ k <= i
                                         /\ Chosen(lead, t, i)
                                         /\ SameUpTo(L, lead[t], k)
    BY <2>0 DEF Settled
  <2>2. PICK i \in Nat : t <= u /\ k <= i /\ Chosen(lead, t, i) /\ SameUpTo(L, lead[t], k)
    BY <2>1
  <2>3. Chosen(lead2, t, i)'
    BY <2>2, ChosenGrows
  <2>4. SameUpTo(M, lead2[t], k2)
    <3>1. SameUpTo(lead[t], lead2[t], Len(lead[t]))
      BY DEF Onward, Extends
    <3>2. Len(lead[t]) \in Nat /\ Len(lead2[t]) \in Nat /\ Len(M) \in Nat /\ Len(L) \in Nat
      BY LoggedTypes
    <3>3. k <= Len(lead[t])
      BY <2>2 DEF SameUpTo
    <3>4. SameUpTo(L, lead2[t], k)
      BY <2>2, <3>1, <3>2, <3>3, SameTransitive
    <3> QED  BY <3>2, <3>4, SameTransitive
  <2>5. t <= u2 /\ k2 <= i
    <3>1. t <= u /\ k <= i
      BY <2>2
    <3>2. t <= u2
      BY <3>1
    <3>3. k2 <= i
      BY <3>1
    <3> QED  BY <3>2, <3>3
  <2> QED  BY <2>3, <2>4, <2>5 DEF Settled
<1> QED  BY <1>1, <1>2

LEMMA SettledStays ==
    ASSUME NEW lead \in [Nat -> Seq(KnownEntries)],
           NEW lead2 \in [Nat -> Seq(KnownEntries)], Onward(lead, lead2),
           NEW L \in Seq(KnownEntries), NEW M \in Seq(KnownEntries),
           NEW u \in Nat, NEW k \in Nat, SameUpTo(M, L, k), Settled(lead, L, u, k)
    PROVE  Settled(lead2, M, u, k)'
<1>1. PICK u2 \in Nat : u2 = u /\ u <= u2
  OBVIOUS
<1>2. PICK k2 \in Nat : k2 = k /\ k2 <= k
  OBVIOUS
<1>3. SameUpTo(M, L, k2)
  BY <1>2
<1>4. Settled(lead2, M, u2, k2)'
  BY <1>1, <1>2, <1>3, SettledGrows
<1> QED  BY <1>1, <1>2, <1>4

-----------------------------------------------------------------------------
(***************************************************************************)
(* What a step has to show to keep the parts of Commits.                   *)
(***************************************************************************)
\* Who acknowledges an entry stores it, and is in its term.
AcksBacked(lead, lead2, full2) ==
    \A v \in Nodes, t, i \in Nat :
      Has(lead2[t], t, i) /\ Acked(v, t, i)' =>
        \/ Has(lead[t], t, i) /\ Acked(v, t, i)
        \/ t = term'[v] /\ Has(full2[v], t, i)

\* Entries are replaced only by those of a later leader that is without them.
LossesLawful(lead2, full, full2) ==
    \A v \in Nodes, t, i \in Nat :
      Has(full[v], t, i) => Has(full2[v], t, i) \/ Dropped(lead2, t, i, term[v])'

\* lead and full become lead2 and full2.
Turns(lead, full, lead2, full2) ==
    /\ lead \in [Nat -> Seq(KnownEntries)]
    /\ lead2 \in [Nat -> Seq(KnownEntries)]
    /\ full \in [Nodes -> Seq(KnownEntries)]
    /\ full2 \in [Nodes -> Seq(KnownEntries)]
    /\ Onward(lead, lead2)
    /\ AcksBacked(lead, lead2, full2)
    /\ LossesLawful(lead2, full, full2)

\* What the leader of a term has is what it had before, the log it was elected
\* with, or that log and one more command of a client.
Inherits(lead, full, lead2) ==
    \A t \in Nat :
      \/ lead2[t] = lead[t]
      \/ \E n \in Nodes :
           \/ lead2[t] = full[n]
           \/ \E c \in Clients :
                /\ ClientCommand(n, c)
                /\ t = term[n]
                /\ lead2[t] = Append(full[n], [term |-> t, cmd |-> Request(c, nextReq[c])])

LEMMA TurnsTerms ==
    ASSUME Shape, Shape', NEW v \in Nodes, NEW lead, NEW lead2, Onward(lead, lead2)
    PROVE  term[v] \in Nat /\ term'[v] \in Nat /\ term[v] <= term'[v]
<1>1. term[v] \in Nat /\ term'[v] \in Nat
  BY DEF Shape, ShapedElections
<1>2. term'[v] >= term[v]
  BY DEF Onward
<1> QED  BY <1>1, <1>2

LEMMA CoversGrows ==
    ASSUME NEW lead, NEW full, NEW lead2, NEW full2, Turns(lead, full, lead2, full2),
           NEW v \in Nodes, term'[v] \in Nat, NEW L, NEW M,
           \A t, i \in Nat : Has(L, t, i) => Has(M, t, i),
           NEW u \in Nat, u <= term'[v], NEW w \in Nat, Covers(lead, L, v, u, w)
    PROVE  Covers(lead2, M, v, u, w)'
<1> SUFFICES ASSUME NEW t \in Nat, NEW i \in Nat, t < u, Has(lead2[t], t, i),
                    Acked(v, t, i)'
             PROVE  Has(M, t, i) \/ Dropped(lead2, t, i, w)'
  BY DEF Covers
<1>1. t # term'[v]
  OBVIOUS
<1>2. Has(lead[t], t, i) /\ Acked(v, t, i)
  BY <1>1 DEF Turns, AcksBacked
<1>3. Has(L, t, i) \/ Dropped(lead, t, i, w)
  BY <1>2 DEF Covers
<1>4. Dropped(lead, t, i, w) => Dropped(lead2, t, i, w)'
  <2> SUFFICES ASSUME Dropped(lead, t, i, w) PROVE Dropped(lead2, t, i, w)'
    OBVIOUS
  <2>1. /\ lead \in [Nat -> Seq(KnownEntries)]
        /\ lead2 \in [Nat -> Seq(KnownEntries)]
        /\ Onward(lead, lead2)
    BY DEF Turns
  <2>2. PICK x \in Nat : x = w /\ w <= x
    OBVIOUS
  <2>3. \E y \in t + 1 .. x : Led(y)' /\ ~Has(lead2[y], t, i)
    BY <2>1, <2>2, DroppedGrows
  <2> QED  BY <2>2, <2>3 DEF Dropped
<1> QED  BY <1>3, <1>4

\* Nobody acknowledges an entry of a term it has not reached.
LEMMA AckedTerm ==
    ASSUME Records, NEW lead, NEW full, Commits(lead, full),
           NEW v \in Nodes, NEW t \in Nat, NEW i, Acked(v, t, i)
    PROVE  t <= term[v]
<1>1. CASE <<t, v>> \in leadersByTerm
  BY <1>1 DEF Records
<1>2. ASSUME NEW m \in network, m.type = "AppendReply", m.success, m.term = t, m.from = v
      PROVE  t <= term[v]
  <2>1. TrueMessage(lead, full, m)
    BY DEF Commits
  <2> QED  BY <1>2, <2>1 DEF TrueMessage
<1> QED  BY <1>1, <1>2 DEF Acked

LEMMA AcksKeptGrows ==
    ASSUME Shape, Shape', Records, NEW lead, NEW full, Commits(lead, full),
           NEW lead2, NEW full2, Turns(lead, full, lead2, full2)
    PROVE  AcksKept(lead2, full2)'
<1> SUFFICES ASSUME NEW v \in Nodes, NEW t \in Nat, NEW i \in Nat,
                    Has(lead2[t], t, i), Acked(v, t, i)'
             PROVE  Has(full2[v], t, i) \/ Dropped(lead2, t, i, term[v])'
  BY DEF AcksKept, Covers
<1>1. term[v] \in Nat /\ term'[v] \in Nat /\ term[v] <= term'[v]
  BY TurnsTerms DEF Turns
<1>2. CASE t = term'[v] /\ Has(full2[v], t, i)
  BY <1>2
<1>3. CASE Has(lead[t], t, i) /\ Acked(v, t, i)
  <2>1. t <= term[v]
    BY <1>3, AckedTerm
  <2>2. t < term[v] + 1
    BY <1>1, <2>1
  <2>3. Covers(lead, full[v], v, term[v] + 1, term[v])
    BY DEF Commits, AcksKept
  <2>4. Has(full[v], t, i) \/ Dropped(lead, t, i, term[v])
    BY <1>3, <2>2, <2>3 DEF Covers
  <2>5. CASE Has(full[v], t, i)
    BY <2>5 DEF Turns, LossesLawful
  <2>6. CASE Dropped(lead, t, i, term[v])
    <3>1. PICK u \in Nat : u = term[v]
      BY <1>1
    <3>2. PICK u2 \in Nat : u2 = term'[v]
      BY <1>1
    <3>3. u <= u2 /\ Dropped(lead, t, i, u)
      BY <1>1, <2>6, <3>1, <3>2
    <3>4. \E w \in t + 1 .. u2 : Led(w)' /\ ~Has(lead2[w], t, i)
      BY <3>3, DroppedGrows DEF Turns
    <3> QED  BY <3>2, <3>4 DEF Dropped
  <2> QED  BY <2>4, <2>5, <2>6
<1> QED  BY <1>2, <1>3 DEF Turns, AcksBacked

\* Old leaders stay covered; a new one has to show it.
LEMMA LeadersCoverGrows ==
    ASSUME Shape, Shape', NEW lead, NEW full, Commits(lead, full),
           NEW lead2, NEW full2, Turns(lead, full, lead2, full2),
           \A u \in Nat : Led(u)' /\ ~Led(u) =>
             \E Q \in SUBSET Nodes :
               /\ Majority(Q, InitialVoters)
               /\ \A v \in Q : term'[v] >= u /\ Covers(lead2, lead2[u], v, u, u - 1)'
    PROVE  LeadersCover(lead2)'
<1> SUFFICES ASSUME NEW u \in Nat, Led(u)'
             PROVE  \E Q \in SUBSET Nodes :
                      /\ Majority(Q, InitialVoters)
                      /\ \A v \in Q : term'[v] >= u /\ Covers(lead2, lead2[u], v, u, u - 1)'
  BY DEF LeadersCover
<1>1. CASE ~Led(u)
  BY <1>1
<1>2. CASE Led(u)
  <2>1. PICK Q \in SUBSET Nodes :
          /\ Majority(Q, InitialVoters)
          /\ \A v \in Q : term[v] >= u /\ Covers(lead, lead[u], v, u, u - 1)
    BY <1>2 DEF Commits, LeadersCover
  <2>2. ASSUME NEW v \in Q
        PROVE  term'[v] >= u /\ Covers(lead2, lead2[u], v, u, u - 1)'
    <3>1. term[v] \in Nat /\ term'[v] \in Nat /\ term[v] <= term'[v]
      BY TurnsTerms DEF Turns
    <3>2. term[v] >= u /\ Covers(lead, lead[u], v, u, u - 1)
      BY <2>1
    <3>3. u <= term'[v]
      BY <3>1, <3>2
    <3>4. \A t, i \in Nat : Has(lead[u], t, i) => Has(lead2[u], t, i)
      BY HasGrows DEF Turns, Onward, Extends
    <3>5. CASE u = 0
      BY <3>3, <3>5 DEF Covers
    <3>6. CASE u # 0
      <4>1. u - 1 \in Nat
        BY <3>6
      <4>2. Covers(lead2, lead2[u], v, u, u - 1)'
        BY <3>1, <3>2, <3>3, <3>4, <4>1, CoversGrows
      <4> QED  BY <3>3, <4>2
    <3> QED  BY <3>5, <3>6
  <2> QED  BY <2>1, <2>2
<1> QED  BY <1>1, <1>2

-----------------------------------------------------------------------------
(***************************************************************************)
(* Leaders know what was chosen before them.                               *)
(***************************************************************************)
LEMMA LeadersHave ==
    ASSUME NEW lead, NEW full, Commits(lead, full), NEW t \in Nat, NEW i \in Nat,
           Chosen(lead, t, i), NEW u \in Nat, t < u, Led(u)
    PROVE  Has(lead[u], t, i)
<1> DEFINE Without == {w \in Nat : t < w /\ Led(w) /\ ~Has(lead[w], t, i)}
<1> SUFFICES ASSUME u \in Without PROVE FALSE
  OBVIOUS
<1>1. PICK w \in Without : \A x \in Without : w <= x
  <2>1. Without \subseteq Nat /\ Without # {}
    OBVIOUS
  <2> HIDE DEF Without
  <2> QED  BY <2>1, LeastNumber
<1>2. w \in Nat /\ t < w /\ Led(w) /\ ~Has(lead[w], t, i)
  BY <1>1
<1>3. PICK Q \in SUBSET Nodes :
        /\ Majority(Q, InitialVoters)
        /\ \A v \in Q : term[v] >= w /\ Covers(lead, lead[w], v, w, w - 1)
  BY <1>2 DEF Commits, LeadersCover
<1>4. PICK A : A = {v \in Nodes : Acked(v, t, i)}
  OBVIOUS
<1>5. Majority(A, InitialVoters) /\ Has(lead[t], t, i)
  BY <1>4 DEF Chosen
<1>6. PICK v \in Q : v \in A
  BY <1>3, <1>5, VotersFinite, MajoritiesMeet
<1>7. Covers(lead, lead[w], v, w, w - 1) /\ v \in Nodes /\ Acked(v, t, i)
  BY <1>3, <1>4, <1>6
<1>8. Dropped(lead, t, i, w - 1)
  BY <1>2, <1>5, <1>7 DEF Covers
<1>9. PICK x \in t + 1 .. w - 1 : Led(x) /\ ~Has(lead[x], t, i)
  BY <1>8 DEF Dropped
<1>10. x \in Nat /\ t < x /\ x < w
  BY <1>2, <1>9
<1>11. x \in Without
  BY <1>9, <1>10
<1> QED  BY <1>1, <1>2, <1>10, <1>11

LEMMA SettledInLeader ==
    ASSUME NEW lead, Leads(lead), NEW full, Commits(lead, full),
           NEW L \in Seq(KnownEntries), NEW u \in Nat, NEW w \in Nat, u <= w, Led(w),
           NEW k \in Nat, Settled(lead, L, u, k)
    PROVE  SameUpTo(L, lead[w], k)
<1>1. Len(L) \in Nat /\ lead[w] \in Seq(KnownEntries) /\ Len(lead[w]) \in Nat
  BY LoggedTypes DEF Leads
<1>2. CASE k = 0
  BY <1>1, <1>2 DEF SameUpTo
<1>3. CASE k # 0
  <2>1. PICK t \in Nat : \E i \in Nat : /\ t <= u
                                        /\ k <= i
                                        /\ Chosen(lead, t, i)
                                        /\ SameUpTo(L, lead[t], k)
    BY <1>3 DEF Settled
  <2>2. PICK i \in Nat : t <= u /\ k <= i /\ Chosen(lead, t, i) /\ SameUpTo(L, lead[t], k)
    BY <2>1
  <2>3. Has(lead[t], t, i) /\ lead[t] \in Seq(KnownEntries)
    BY <2>1, <2>2 DEF Chosen, Leads
  <2>4. CASE t = w
    BY <2>2, <2>4
  <2>5. CASE t # w
    <3>1. t < w
      BY <2>1, <2>2, <2>5
    <3>2. Has(lead[w], t, i)
      BY <2>2, <3>1, LeadersHave
    <3>3. i \in 1 .. Len(lead[t]) /\ i \in 1 .. Len(lead[w])
          /\ lead[t][i].term = lead[w][i].term
      BY <2>3, <3>2 DEF Has
    <3>4. SameUpTo(lead[t], lead[w], i)
      <4>1. Traced(lead, lead[t], t) /\ Traced(lead, lead[w], w)
        BY <2>1 DEF Leads
      <4> QED  BY <1>1, <2>3, <3>3, <4>1, TermFixesLog
    <3> QED  BY <2>2, <3>4, SameTransitive
  <2> QED  BY <2>4, <2>5
<1> QED  BY <1>2, <1>3

-----------------------------------------------------------------------------
(***************************************************************************)
(* What a step of one server has to show to keep Commits.                  *)
(***************************************************************************)
\* The step changes no server but n.
ByOne(n, full, full2) ==
    \A k \in Nodes \ {n} : /\ full2[k] = full[k]
                           /\ term'[k] = term[k]
                           /\ role'[k] = role[k]
                           /\ snapshot'[k] = snapshot[k]
                           /\ commitIndex'[k] = commitIndex[k]
                           /\ applied'[k] = applied[k]
                           /\ nextIndex'[k] = nextIndex[k]
                           /\ matchIndex'[k] = matchIndex[k]

\* A candidate has started its campaign in the step, or goes on with it.
CandidatesStay(full, full2) ==
    \A c \in Nodes : role'[c] = "candidate" =>
      \/ term'[c] > term[c]
      \/ role[c] = "candidate" /\ term'[c] = term[c] /\ full2[c] = full[c]

\* A new leader is covered.
NewLeadersCover(lead2) ==
    \A u \in Nat : Led(u)' /\ ~Led(u) =>
      \E Q \in SUBSET Nodes :
        /\ Majority(Q, InitialVoters)
        /\ \A v \in Q : term'[v] >= u /\ Covers(lead2, lead2[u], v, u, u - 1)'

LEMMA SettledBounded ==
    ASSUME NEW lead, NEW L \in Seq(KnownEntries), NEW u, NEW k \in Nat,
           Settled(lead, L, u, k)
    PROVE  k <= Len(L)
BY LoggedTypes DEF Settled, SameUpTo

LEMMA ImageGrows ==
    ASSUME NEW cmds, NEW L \in Seq(KnownEntries), NEW M \in Seq(KnownEntries),
           NEW k \in Nat, NEW i \in Nat, k <= i, SameUpTo(M, L, i), IsImage(cmds, L, k)
    PROVE  IsImage(cmds, M, k)
BY LoggedTypes DEF IsImage, SameUpTo

\* A server that commits nothing and loses nothing committed.
LEMMA SameServerSettled ==
    ASSUME Shape, Shape', NEW lead \in [Nat -> Seq(KnownEntries)],
           NEW lead2 \in [Nat -> Seq(KnownEntries)], Onward(lead, lead2),
           NEW k \in Nodes, NEW F \in Seq(KnownEntries), ServerSettled(lead, F, k),
           NEW L \in Seq(KnownEntries), SameUpTo(L, F, commitIndex[k]),
           commitIndex'[k] = commitIndex[k], applied'[k] = applied[k],
           snapshot'[k] = snapshot[k]
    PROVE  ServerSettled(lead2, L, k)'
<1>1. /\ commitIndex[k] \in Nat
      /\ Base(k) \in Nat
      /\ Base(k) <= commitIndex[k]
      /\ Base(k)' = Base(k)
  BY IndexTypes DEF Base
<1>2. term[k] \in Nat /\ term'[k] \in Nat /\ term[k] <= term'[k]
  BY TurnsTerms
<1>3. PICK c \in Nat : c = commitIndex[k]
  BY <1>1
<1>4. PICK b \in Nat : b = Base(k) /\ b <= c
  BY <1>1, <1>3
<1>5. SameUpTo(L, F, c) /\ ServerSettled(lead, F, k)
  BY <1>3
<1>6. Settled(lead2, L, term[k], commitIndex[k])'
  <2>1. PICK t \in Nat : t = term[k]
    BY <1>2
  <2>2. PICK t2 \in Nat : t2 = term'[k] /\ t <= t2
    BY <1>2, <2>1
  <2>3. Settled(lead, F, t, c)
    BY <1>3, <1>5, <2>1 DEF ServerSettled
  <2>4. PICK c2 \in Nat : c2 = c /\ c2 <= c
    OBVIOUS
  <2>5. Settled(lead2, L, t2, c2)'
    BY <1>5, <2>2, <2>3, <2>4, SettledGrows
  <2> QED  BY <1>3, <2>2, <2>4, <2>5 DEF Settled
<1>7. IsImage(applied[k], L, c)
  <2>1. IsImage(applied[k], F, c)
    BY <1>3, <1>5 DEF ServerSettled
  <2>2. PICK c2 \in Nat : c2 = c /\ c <= c2
    OBVIOUS
  <2>3. SameUpTo(L, F, c2)
    BY <1>5, <2>2
  <2> QED  BY <2>1, <2>2, <2>3, ImageGrows
<1>8. IsImage(snapshot[k].image, L, b)
  <2>1. IsImage(snapshot[k].image, F, b)
    BY <1>4, <1>5 DEF ServerSettled
  <2> QED  BY <1>4, <1>5, <2>1, ImageGrows
<1>9. IsImage(applied[k], L, commitIndex[k])'
  BY <1>3, <1>7 DEF IsImage
<1>10. IsImage(snapshot[k].image, L, Base(k))'
  BY <1>1, <1>4, <1>8 DEF IsImage
<1> QED  BY <1>6, <1>9, <1>10 DEF ServerSettled

\* Messages stay true.
LEMMA MessagesStayTrue ==
    ASSUME Shape, Shape', NEW lead, NEW full, Commits(lead, full),
           NEW lead2, NEW full2, Turns(lead, full, lead2, full2),
           CandidatesStay(full, full2), NEW m \in network
    PROVE  TrueMessage(lead2, full2, m)'
<1>0. /\ m.term \in Nat
      /\ m.from \in Nodes
      /\ m.to \in Nodes
      /\ m.type = "AppendEntries" => m.prevIndex \in Nat /\ m.commit \in Nat
      /\ m.type = "AppendReply" => m.match \in Nat
      /\ m.type = "InstallSnapshot" => m.snapshot.lastIndex \in Nat
  BY DEF Shape, ShapedNetwork, ShapedMessage, SnapshotFull, KnownSnapshots
<1>1. TrueMessage(lead, full, m)
  BY DEF Commits
<1>2. /\ lead \in [Nat -> Seq(KnownEntries)]
      /\ lead2 \in [Nat -> Seq(KnownEntries)]
      /\ Onward(lead, lead2)
  BY DEF Turns
<1>3. PICK L \in Seq(KnownEntries) : L = lead[m.term]
  BY <1>0, <1>2
<1>4. PICK M \in Seq(KnownEntries) : M = lead2[m.term]
  BY <1>0, <1>2
<1>5. SameUpTo(L, M, Len(L)) /\ Len(L) \in Nat /\ Len(M) \in Nat
  BY <1>0, <1>2, <1>3, <1>4, LoggedTypes DEF Onward, Extends
<1>6. \A v \in Nodes : term[v] \in Nat /\ term'[v] \in Nat /\ term[v] <= term'[v]
  BY <1>2, TurnsTerms
<1>7. ASSUME NEW k \in Nat, Settled(lead, L, m.term, k)
      PROVE  Settled(lead2, M, m.term, k)'
  <2>1. k <= Len(L)
    BY <1>7, SettledBounded
  <2>2. SameUpTo(M, L, k)
    BY <1>5, <2>1 DEF SameUpTo
  <2>3. PICK t \in Nat : t = m.term
    BY <1>0
  <2>4. Settled(lead, L, t, k)
    BY <1>7, <2>3
  <2>5. Settled(lead2, M, t, k)'
    BY <1>2, <2>2, <2>4, SettledStays
  <2> QED  BY <2>3, <2>5
<1>8. CASE m.type = "RequestVote"
  <2>1. m.term <= term[m.from] /\ term[m.from] <= term'[m.from]
    BY <1>0, <1>1, <1>6, <1>8 DEF TrueMessage
  <2>2. m.term <= term'[m.from]
    BY <1>0, <1>6, <2>1
  <2>3. ASSUME role'[m.from] = "candidate", m.term = term'[m.from]
        PROVE  /\ m.lastIndex = Len(full2[m.from])
               /\ m.lastTerm = LastTermOf(full2[m.from])
    <3>1. ~(term'[m.from] > term[m.from])
      BY <1>0, <1>6, <2>1, <2>3
    <3>2. /\ role[m.from] = "candidate"
          /\ m.term = term[m.from]
          /\ full2[m.from] = full[m.from]
      BY <1>0, <2>3, <3>1 DEF CandidatesStay
    <3> QED  BY <1>1, <1>8, <3>2 DEF TrueMessage
  <2> QED  BY <1>8, <2>2, <2>3 DEF TrueMessage
<1>9. CASE m.type = "VoteReply"
  <2>1. m.granted => m.term <= term[m.to]
    BY <1>1, <1>9 DEF TrueMessage
  <2>2. m.granted => m.term <= term'[m.to]
    BY <1>0, <1>6, <2>1
  <2> QED  BY <1>9, <2>2 DEF TrueMessage
<1>10. CASE m.type = "AppendEntries"
  <2>1. /\ m.prevIndex <= Len(L)
        /\ m.prevIndex > 0 => m.prevTerm = L[m.prevIndex].term
        /\ Settled(lead, L, m.term, m.commit)
    BY <1>1, <1>3, <1>10 DEF TrueMessage
  <2>2. m.prevIndex <= Len(M)
    BY <1>0, <1>5, <1>10, <2>1 DEF SameUpTo
  <2>3. m.prevIndex > 0 => m.prevTerm = M[m.prevIndex].term
    BY <1>0, <1>5, <1>10, <2>1 DEF SameUpTo
  <2>4. Settled(lead2, M, m.term, m.commit)'
    BY <1>0, <1>7, <1>10, <2>1
  <2> QED  BY <1>4, <1>10, <2>2, <2>3, <2>4 DEF TrueMessage
<1>11. CASE m.type = "AppendReply"
  <2>1. m.success => m.term <= term[m.from] /\ m.match <= Len(L)
    BY <1>1, <1>3, <1>11 DEF TrueMessage
  <2>2. m.success => m.term <= term'[m.from]
    BY <1>0, <1>6, <2>1
  <2>3. m.success => m.match <= Len(M)
    BY <1>0, <1>5, <1>11, <2>1 DEF SameUpTo
  <2> QED  BY <1>4, <1>11, <2>2, <2>3 DEF TrueMessage
<1>12. CASE m.type = "InstallSnapshot"
  <2>1. /\ Settled(lead, L, m.term, m.snapshot.lastIndex)
        /\ IsImage(m.snapshot.image, L, m.snapshot.lastIndex)
    BY <1>1, <1>3, <1>12 DEF TrueMessage
  <2>2. Settled(lead2, M, m.term, m.snapshot.lastIndex)'
    BY <1>0, <1>7, <1>12, <2>1
  <2>3. IsImage(m.snapshot.image, M, m.snapshot.lastIndex)
    <3>1. m.snapshot.lastIndex <= Len(L)
      BY <2>1 DEF IsImage
    <3>2. SameUpTo(M, L, Len(L))
      BY <1>5, SameSymmetric
    <3> QED  BY <1>0, <1>5, <1>12, <2>1, <3>1, <3>2, ImageGrows
  <2> QED  BY <1>4, <1>12, <2>2, <2>3 DEF TrueMessage
<1>13. CASE m.type \in {"ReadHeartbeat", "ReadAck"}
  BY <1>13 DEF TrueMessage
<1>14. m.type \in {"RequestVote", "VoteReply", "AppendEntries", "AppendReply",
                   "InstallSnapshot", "ReadHeartbeat", "ReadAck"}
  BY DEF Shape, ShapedNetwork, ShapedMessage
<1> QED  BY <1>8, <1>9, <1>10, <1>11, <1>12, <1>13, <1>14

\* Candidates that go on with their campaign, and are granted no vote.
LEMMA VotesStayCovered ==
    ASSUME Shape, Shape', Ballots, NEW lead, NEW full, Commits(lead, full),
           NEW lead2, NEW full2, Turns(lead, full, lead2, full2),
           NEW c \in Nodes, role[c] = "candidate", term'[c] = term[c],
           full2[c] = full[c], NEW v \in Supporters(c, term[c])
    PROVE  Covers(lead2, full2[c], v, term[c], term[c])'
<1>1. v \in Nodes /\ term[c] \in Nat /\ Onward(lead, lead2)
  BY DEF Supporters, Shape, ShapedElections, Turns
<1>2. term[v] \in Nat /\ term'[v] \in Nat /\ term[v] <= term'[v]
  BY <1>1, TurnsTerms
<1>3. term[c] <= term[v]
  <2>1. CASE v = c
    BY <1>1, <2>1
  <2>2. CASE v # c
    BY <1>1, <2>2 DEF Supporters, Ballots, VotesKept
  <2> QED  BY <2>1, <2>2
<1>4. PICK t \in Nat : t = term[c]
  BY <1>1
<1>5. PICK L \in Seq(KnownEntries) : L = full[c]
  BY DEF Turns
<1>6. Covers(lead, L, v, t, t)
  BY <1>4, <1>5 DEF Commits, VotesCover
<1>7. t <= term'[v]
  BY <1>2, <1>3, <1>4
<1>8. \A x, i \in Nat : Has(L, x, i) => Has(L, x, i)
  OBVIOUS
<1>9. Covers(lead2, L, v, t, t)'
  BY <1>1, <1>2, <1>6, <1>7, <1>8, CoversGrows
<1> QED  BY <1>4, <1>5, <1>9 DEF Covers, Dropped

\* What was observed as committed stays settled.
LEMMA RecordStaysSettled ==
    ASSUME Shape, NEW lead \in [Nat -> Seq(KnownEntries)],
           NEW lead2 \in [Nat -> Seq(KnownEntries)], Onward(lead, lead2),
           NEW rec \in committed, RecordSettled(lead, rec)
    PROVE  RecordSettled(lead2, rec)'
<1>1. PICK t \in Nat : \E i \in Nat : /\ t <= rec.term
                                      /\ rec.index \in 1 .. i
                                      /\ Chosen(lead, t, i)
                                      /\ rec.entry = lead[t][rec.index]
  BY DEF RecordSettled
<1>2. PICK i \in Nat : /\ t <= rec.term
                       /\ rec.index \in 1 .. i
                       /\ Chosen(lead, t, i)
                       /\ rec.entry = lead[t][rec.index]
  BY <1>1
<1>3. Chosen(lead2, t, i)'
  BY <1>2, ChosenGrows
<1>4. SameUpTo(lead[t], lead2[t], Len(lead[t])) /\ Len(lead[t]) \in Nat
  BY LoggedTypes DEF Onward, Extends
<1>5. rec.index \in 1 .. Len(lead[t])
  <2>1. i \in 1 .. Len(lead[t])
    BY <1>2 DEF Chosen, Has
  <2>2. PICK j \in 1 .. i : j = rec.index
    BY <1>2
  <2>3. Len(lead[t]) \in Nat /\ i <= Len(lead[t])
    BY <1>4, <2>1
  <2>4. PICK l \in Nat : l = Len(lead[t]) /\ i <= l
    BY <2>3
  <2>5. j \in 1 .. l
    BY <2>4
  <2> QED  BY <2>2, <2>4, <2>5
<1>6. rec.entry = lead2[t][rec.index]
  BY <1>2, <1>4, <1>5 DEF SameUpTo
<1> QED  BY <1>2, <1>3, <1>6 DEF RecordSettled

\* Whatever was acknowledged to a leader stays so, and its log only grows.
LEMMA SameTableTrue ==
    ASSUME NEW lead, NEW lead2, Onward(lead, lead2), NEW k \in Nodes,
           NEW F \in Seq(KnownEntries), NEW L \in Seq(KnownEntries), Len(F) <= Len(L),
           TableTrue(F, k), role'[k] = "leader" => role[k] = "leader",
           role'[k] = "leader" => term'[k] = term[k],
           nextIndex'[k] = nextIndex[k], matchIndex'[k] = matchIndex[k],
           nextIndex \in [Nodes -> [Nodes -> Nat \ {0}]]
    PROVE  TableTrue(L, k)'
<1> SUFFICES ASSUME role'[k] = "leader", NEW p \in Nodes
             PROVE  /\ nextIndex'[k][p] <= Len(L) + 1
                    /\ matchIndex'[k][p] > 0 => Acked(p, term[k], matchIndex[k][p])'
  BY DEF TableTrue
<1>1. Len(F) \in Nat /\ Len(L) \in Nat /\ nextIndex[k][p] \in Nat
  BY LoggedTypes
<1>2. /\ nextIndex[k][p] <= Len(F) + 1
      /\ matchIndex[k][p] > 0 => Acked(p, term[k], matchIndex[k][p])
  BY DEF TableTrue
<1>3. nextIndex'[k][p] <= Len(L) + 1
  BY <1>1, <1>2
<1>4. ASSUME matchIndex[k][p] > 0 PROVE Acked(p, term[k], matchIndex[k][p])'
  <2>1. PICK t : t = term[k]
    OBVIOUS
  <2>2. PICK i : i = matchIndex[k][p]
    OBVIOUS
  <2>3. Acked(p, t, i)'
    BY <1>2, <1>4, <2>1, <2>2, AckedGrows
  <2>4. term'[k] = t /\ matchIndex'[k][p] = i
    BY <2>1, <2>2
  <2> QED  BY <2>3, <2>4 DEF Acked
<1> QED  BY <1>3, <1>4

LEMMA CommitsGrow ==
    ASSUME Shape, Shape', Records, NEW lead, NEW full, Commits(lead, full),
           NEW lead2, NEW full2, Turns(lead, full, lead2, full2),
           VotesCover(lead2, full2)', CandidatesStay(full, full2),
           NewLeadersCover(lead2),
           \A k \in Nodes : ServerSettled(lead2, full2[k], k)' /\ TableTrue(full2[k], k)',
           NEW recs, committed' \subseteq committed \cup recs,
           \A rec \in recs : RecordSettled(lead2, rec)',
           NEW ms, network' \subseteq network \cup ms,
           \A m \in ms : TrueMessage(lead2, full2, m)'
    PROVE  Commits(lead2, full2)'
<1>1. /\ lead \in [Nat -> Seq(KnownEntries)]
      /\ lead2 \in [Nat -> Seq(KnownEntries)]
      /\ Onward(lead, lead2)
  BY DEF Turns
<1>2. AcksKept(lead2, full2)'
  BY AcksKeptGrows
<1>3. LeadersCover(lead2)'
  BY LeadersCoverGrows DEF NewLeadersCover
<1>4. ASSUME NEW rec \in committed' PROVE RecordSettled(lead2, rec)'
  <2>1. CASE rec \in committed
    BY <1>1, <2>1, RecordStaysSettled DEF Commits
  <2>2. CASE rec \in recs
    BY <2>2
  <2> QED  BY <2>1, <2>2
<1>5. ASSUME NEW m \in network' PROVE TrueMessage(lead2, full2, m)'
  <2>1. CASE m \in network
    BY <2>1, MessagesStayTrue
  <2>2. CASE m \in ms
    BY <2>2
  <2> QED  BY <2>1, <2>2
<1> QED  BY <1>2, <1>3, <1>4, <1>5 DEF Commits

\* A server that commits nothing, and leads on if it leads.
LEMMA ServerStaysSettled ==
    ASSUME Shape, Shape', NEW lead, NEW full, Commits(lead, full),
           NEW lead2, NEW full2, Turns(lead, full, lead2, full2),
           NEW k \in Nodes, full2[k] = full[k],
           commitIndex'[k] = commitIndex[k], applied'[k] = applied[k],
           snapshot'[k] = snapshot[k]
    PROVE  ServerSettled(lead2, full2[k], k)'
<1>1. /\ lead \in [Nat -> Seq(KnownEntries)]
      /\ lead2 \in [Nat -> Seq(KnownEntries)]
      /\ Onward(lead, lead2)
  BY DEF Turns
<1>2. PICK F \in Seq(KnownEntries) : F = full[k]
  BY DEF Turns
<1>3. full2[k] = F /\ ServerSettled(lead, F, k)
  BY <1>2 DEF Commits
<1>4. SameUpTo(F, F, commitIndex[k])
  BY <1>3 DEF ServerSettled, IsImage, SameUpTo
<1>5. ServerSettled(lead2, F, k)'
  BY <1>1, <1>3, <1>4, SameServerSettled
<1> QED  BY <1>3, <1>5

LEMMA TableStaysTrue ==
    ASSUME Shape, Shape', NEW lead, NEW full, Commits(lead, full),
           NEW lead2, NEW full2, Turns(lead, full, lead2, full2),
           NEW k \in Nodes, full2[k] = full[k],
           role'[k] = "leader" => role[k] = "leader" /\ term'[k] = term[k],
           nextIndex'[k] = nextIndex[k], matchIndex'[k] = matchIndex[k]
    PROVE  TableTrue(full2[k], k)'
<1>1. Onward(lead, lead2)
  BY DEF Turns
<1>2. PICK F \in Seq(KnownEntries) : F = full[k]
  BY DEF Turns
<1>3. full2[k] = F /\ TableTrue(F, k)
  BY <1>2 DEF Commits
<1>4. Len(F) <= Len(F) /\ nextIndex \in [Nodes -> [Nodes -> Nat \ {0}]]
  BY LoggedTypes DEF Shape, ShapedLeaders
<1>5. TableTrue(F, k)'
  BY <1>1, <1>3, <1>4, SameTableTrue
<1> QED  BY <1>3, <1>5

LEMMA CommitsHold ==
    ASSUME Shape, Shape', Records, NEW lead, NEW full, Commits(lead, full),
           NEW lead2, NEW full2, Turns(lead, full, lead2, full2),
           NEW n \in Nodes, ByOne(n, full, full2),
           VotesCover(lead2, full2)', CandidatesStay(full, full2),
           NewLeadersCover(lead2),
           ServerSettled(lead2, full2[n], n)', TableTrue(full2[n], n)',
           NEW recs, committed' \subseteq committed \cup recs,
           \A rec \in recs : RecordSettled(lead2, rec)',
           NEW ms, network' \subseteq network \cup ms,
           \A m \in ms : TrueMessage(lead2, full2, m)'
    PROVE  Commits(lead2, full2)'
<1>1. ASSUME NEW k \in Nodes
      PROVE  ServerSettled(lead2, full2[k], k)' /\ TableTrue(full2[k], k)'
  <2>1. CASE k = n
    BY <2>1
  <2>2. CASE k # n
    <3>1. ServerSettled(lead2, full2[k], k)'
      BY <2>2, ServerStaysSettled DEF ByOne
    <3>2. TableTrue(full2[k], k)'
      BY <2>2, TableStaysTrue DEF ByOne
    <3> QED  BY <3>1, <3>2
  <2> QED  BY <2>1, <2>2
<1> QED  BY <1>1, CommitsGrow

-----------------------------------------------------------------------------
(***************************************************************************)
(* Steps that leave every log alone and commit nothing.                    *)
(***************************************************************************)
\* Nothing is acknowledged, and nobody elected.
NoNewAck ==
    /\ network \subseteq network'
    /\ UNCHANGED leadersByTerm
    /\ \A m \in network' : m.type = "AppendReply" /\ m.success => m \in network

\* Nobody starts a campaign.
CandidatesGoOn(full, full2) ==
    \A c \in Nodes : role'[c] = "candidate" =>
      role[c] = "candidate" /\ term'[c] = term[c] /\ full2[c] = full[c]

LEMMA SameAcks ==
    ASSUME NoNewAck, NEW v, NEW t, NEW i, Acked(v, t, i)'
    PROVE  Acked(v, t, i)
BY DEF NoNewAck, Acked

LEMMA OnwardSame ==
    ASSUME NEW lead \in [Nat -> Seq(KnownEntries)],
           network \subseteq network', leadersByTerm \subseteq leadersByTerm',
           \A k \in Nodes : term'[k] >= term[k]
    PROVE  Onward(lead, lead)
BY ExtendsItself, LoggedTypes DEF Onward

LEMMA SameTurns ==
    ASSUME NEW lead, NEW full, Logs(lead, full), NoNewAck,
           \A k \in Nodes : term'[k] >= term[k]
    PROVE  Turns(lead, full, lead, full)
<1>1. lead \in [Nat -> Seq(KnownEntries)] /\ full \in [Nodes -> Seq(KnownEntries)]
  BY DEF Logs
<1>2. Onward(lead, lead)
  BY <1>1, OnwardSame DEF NoNewAck
<1>3. AcksBacked(lead, lead, full)
  BY SameAcks DEF AcksBacked
<1>4. LossesLawful(lead, full, full)
  BY DEF LossesLawful
<1> QED  BY <1>1, <1>2, <1>3, <1>4 DEF Turns

LEMMA NoNewLeader ==
    ASSUME UNCHANGED leadersByTerm, NEW lead2
    PROVE  NewLeadersCover(lead2)
BY DEF NewLeadersCover, Led

LEMMA GoOnCovered ==
    ASSUME Shape, Shape', Ballots, NEW lead, NEW full, Commits(lead, full),
           NEW lead2, NEW full2, Turns(lead, full, lead2, full2),
           NoNewGrant, CandidatesGoOn(full, full2)
    PROVE  VotesCover(lead2, full2)' /\ CandidatesStay(full, full2)
<1>1. CandidatesStay(full, full2)
  BY DEF CandidatesStay, CandidatesGoOn
<1>2. ASSUME NEW c \in Nodes, role'[c] = "candidate"
      PROVE  /\ \A i \in 1 .. Len(full2[c]) : full2[c][i].term < term'[c]
             /\ \A v \in Supporters(c, term[c])' :
                  Covers(lead2, full2[c], v, term[c], term[c])'
  <2>1. role[c] = "candidate" /\ term'[c] = term[c] /\ full2[c] = full[c]
    BY <1>2 DEF CandidatesGoOn
  <2>2. \A i \in 1 .. Len(full2[c]) : full2[c][i].term < term'[c]
    BY <2>1 DEF Commits, VotesCover
  <2>3. ASSUME NEW v \in Supporters(c, term[c])'
        PROVE  Covers(lead2, full2[c], v, term[c], term[c])'
    <3>1. PICK t : t = term[c]
      OBVIOUS
    <3>2. v \in Supporters(c, t)' /\ Supporters(c, t)' = Supporters(c, t)
      BY <2>1, <3>1, SameSupporters DEF Supporters, Granted
    <3>3. v \in Supporters(c, term[c])
      BY <3>1, <3>2
    <3> QED  BY <2>1, <3>3, VotesStayCovered
  <2> QED  BY <2>2, <2>3
<1>3. VotesCover(lead2, full2)'
  BY <1>2 DEF VotesCover
<1> QED  BY <1>1, <1>3

\* A step that only sends, steps down, or forgets.
LEMMA QuietCommits ==
    ASSUME Shape, Shape', Ballots, Records, NEW lead, NEW full, Logs(lead, full),
           Commits(lead, full), NoNewAck, VotesCover(lead, full)',
           \A k \in Nodes : term'[k] >= term[k],
           \A k \in Nodes : role'[k] # "follower" => role'[k] = role[k] /\ term'[k] = term[k],
           UNCHANGED <<snapshot, commitIndex, applied, committed, nextIndex, matchIndex>>,
           NEW ms, network' \subseteq network \cup ms,
           \A m \in ms : TrueMessage(lead, full, m)'
    PROVE  Commits(lead, full)'
<1>1. Turns(lead, full, lead, full)
  BY SameTurns
<1>2. CandidatesStay(full, full)
  BY DEF CandidatesStay
<1>3. NewLeadersCover(lead)
  BY NoNewLeader DEF NoNewAck
<1>4. ASSUME NEW k \in Nodes
      PROVE  ServerSettled(lead, full[k], k)' /\ TableTrue(full[k], k)'
  <2>1. ServerSettled(lead, full[k], k)'
    BY <1>1, ServerStaysSettled
  <2>2. TableTrue(full[k], k)'
    BY <1>1, TableStaysTrue
  <2> QED  BY <2>1, <2>2
<1>5. PICK recs : recs = {}
  OBVIOUS
<1>6. committed' \subseteq committed \cup recs /\ \A rec \in recs : RecordSettled(lead, rec)'
  BY <1>5
<1> QED  BY <1>1, <1>2, <1>3, <1>4, <1>6, CommitsGrow

LEMMA CalmCommits ==
    ASSUME Shape, Shape', Ballots, Records, NEW lead, NEW full, Logs(lead, full),
           Commits(lead, full), Calm, NoNewGrant, NoNewAck,
           UNCHANGED <<snapshot, commitIndex, applied, committed, nextIndex, matchIndex>>,
           NEW ms, network' \subseteq network \cup ms,
           \A m \in ms : TrueMessage(lead, full, m)'
    PROVE  Commits(lead, full)'
<1>1. \A k \in Nodes : term'[k] >= term[k]
  BY DEF Calm
<1>2. \A k \in Nodes : role'[k] # "follower" => role'[k] = role[k] /\ term'[k] = term[k]
  BY DEF Calm
<1>3. Turns(lead, full, lead, full)
  BY <1>1, SameTurns
<1>4. CandidatesGoOn(full, full)
  BY <1>2 DEF CandidatesGoOn
<1>5. VotesCover(lead, full)'
  BY <1>3, <1>4, GoOnCovered
<1> QED  BY <1>1, <1>2, <1>5, QuietCommits

-----------------------------------------------------------------------------
(***************************************************************************)
(* What leaders send.                                                      *)
(***************************************************************************)
LEMMA SettledLess ==
    ASSUME NEW lead2, NEW L \in Seq(KnownEntries), NEW u, NEW k \in Nat, NEW i \in Nat,
           i <= k, Len(L) \in Nat, Settled(lead2, L, u, k)'
    PROVE  Settled(lead2, L, u, i)'
<1>1. CASE i = 0
  BY <1>1 DEF Settled
<1>2. CASE i # 0
  <2>1. k # 0
    BY <1>2
  <2>2. PICK t \in Nat : \E x \in Nat : /\ t <= u
                                         /\ k <= x
                                         /\ Chosen(lead2, t, x)'
                                         /\ SameUpTo(L, lead2[t], k)
    BY <2>1 DEF Settled
  <2>3. PICK x \in Nat : t <= u /\ k <= x /\ Chosen(lead2, t, x)' /\ SameUpTo(L, lead2[t], k)
    BY <2>2
  <2>4. i <= x
    BY <2>3
  <2>5. SameUpTo(L, lead2[t], i)
    BY <2>3 DEF SameUpTo
  <2> QED  BY <2>3, <2>4, <2>5 DEF Settled
<1> QED  BY <1>1, <1>2

\* A leader sends entries that continue a log its peer may have, and the truth
\* about what is committed.
LEMMA ReplicateTrue ==
    ASSUME Shape, NEW n \in Nodes, NEW p, NEW t \in Nat, NEW lg \in Seq(KnownEntries),
           NEW lead2, NEW full2, NEW L \in Seq(KnownEntries), L = lead2[t],
           Fits(L, lg, snapshot[n]), IsImage(snapshot[n].image, L, Base(n)),
           NEW c \in Nat, c = commitIndex[n], Settled(lead2, L, t, c)',
           NEW nxt \in Nat \ {0}, nxt <= Len(L) + 1,
           NEW m, m = Replicate(n, t, p, lg, nxt)
    PROVE  TrueMessage(lead2, full2, m)'
<1>1. /\ m.term = t
      /\ m.type \in {"AppendEntries", "InstallSnapshot"}
      /\ m.type = "AppendEntries" =>
           /\ m.prevIndex = nxt - 1
           /\ m.commit = commitIndex[n]
           /\ m.prevIndex \in 1 .. Len(L) => m.prevTerm = L[m.prevIndex].term
      /\ m.type = "InstallSnapshot" => m.snapshot = snapshot[n]
  <2>1. m.type = "AppendEntries" =>
          (m.prevIndex \in 1 .. Len(L) => m.prevTerm = L[m.prevIndex].term)
    BY ReplicateTraced
  <2>2. /\ m.term = t
        /\ m.type \in {"AppendEntries", "InstallSnapshot"}
        /\ m.type = "AppendEntries" => m.prevIndex = nxt - 1 /\ m.commit = commitIndex[n]
        /\ m.type = "InstallSnapshot" => m.snapshot = snapshot[n]
    BY DEF Replicate
  <2> QED  BY <2>1, <2>2
<1>2. Len(L) \in Nat
  BY LoggedTypes
<1>3. CASE m.type = "AppendEntries"
  <2>1. m.prevIndex \in Nat /\ m.prevIndex <= Len(L)
    BY <1>1, <1>2, <1>3
  <2>2. m.prevIndex > 0 => m.prevTerm = L[m.prevIndex].term
    BY <1>1, <1>3, <2>1
  <2>3. m.commit = c
    BY <1>1, <1>3
  <2> QED  BY <1>1, <1>3, <2>1, <2>2, <2>3 DEF TrueMessage
<1>4. CASE m.type = "InstallSnapshot"
  <2>1. m.snapshot = snapshot[n] /\ m.snapshot.lastIndex = Base(n)
    BY <1>1, <1>4 DEF Base
  <2>2. PICK b \in Nat : b = Base(n) /\ b <= c
    BY IndexTypes
  <2>3. Settled(lead2, L, t, b)'
    BY <1>2, <2>2, SettledLess
  <2>4. m.snapshot.lastIndex = b /\ IsImage(m.snapshot.image, L, b)
    BY <2>1, <2>2
  <2> QED  BY <1>1, <1>4, <2>3, <2>4 DEF TrueMessage
<1> QED  BY <1>1, <1>3, <1>4

LEMMA BroadcastTrue ==
    ASSUME Shape, NEW n \in Nodes, NEW t \in Nat, NEW lg \in Seq(KnownEntries),
           NEW lead2, NEW full2, NEW L \in Seq(KnownEntries), L = lead2[t],
           Fits(L, lg, snapshot[n]), IsImage(snapshot[n].image, L, Base(n)),
           NEW c \in Nat, c = commitIndex[n], Settled(lead2, L, t, c)',
           NEW nxt \in [Nodes -> Nat \ {0}], \A p \in Nodes : nxt[p] <= Len(L) + 1,
           NEW V \in SUBSET Nodes, NEW m \in Broadcast(n, t, lg, nxt, V)
    PROVE  TrueMessage(lead2, full2, m)'
<1>1. PICK p \in V \ {n} : m = Replicate(n, t, p, lg, nxt[p])
  BY DEF Broadcast
<1>2. PICK x \in Nat \ {0} : x = nxt[p]
  BY <1>1
<1>3. x <= Len(L) + 1 /\ m = Replicate(n, t, p, lg, x)
  BY <1>1, <1>2
<1> QED  BY <1>3, ReplicateTrue

\* What a leader broadcasts is neither a vote nor a success.
LEMMA BroadcastNoAck ==
    ASSUME NEW n, NEW t, NEW lg, NEW nxt, NEW voters
    PROVE  \A m \in Broadcast(n, t, lg, nxt, voters) :
             m.type \in {"AppendEntries", "InstallSnapshot"}
BY DEF Broadcast, Replicate

-----------------------------------------------------------------------------
(***************************************************************************)
(* Steps that say nothing of any log.                                      *)
(***************************************************************************)
Harmless(m) ==
    \/ m.type \in {"ReadHeartbeat", "ReadAck"}
    \/ m.type = "AppendReply" /\ ~m.success

LEMMA HarmlessTrue ==
    ASSUME NEW m, Harmless(m), NEW lead2, NEW full2
    PROVE  TrueMessage(lead2, full2, m)'
BY DEF Harmless, TrueMessage

LEMMA HarmlessReply ==
    ASSUME NEW t, NEW n, NEW p, Send({AppendReply(t, n, p, FALSE, 0)})
    PROVE  network \subseteq network' /\ \A m \in network' : m \in network \/ Harmless(m)
BY DEF Send, AppendReply, Harmless

LEMMA HarmlessCommits ==
    ASSUME Shape, Shape', Ballots, Records, NEW lead, NEW full, Logs(lead, full),
           Commits(lead, full), Calm, NoNewGrant,
           UNCHANGED <<snapshot, commitIndex, applied, committed, nextIndex, matchIndex>>,
           network \subseteq network', \A m \in network' : m \in network \/ Harmless(m)
    PROVE  Commits(lead, full)'
<1>1. NoNewAck
  BY DEF NoNewAck, Harmless, Calm
<1>2. PICK ms : ms = {m \in network' : Harmless(m)}
  OBVIOUS
<1>3. network' \subseteq network \cup ms
  BY <1>2
<1>4. \A m \in ms : TrueMessage(lead, full, m)'
  BY <1>2, HarmlessTrue
<1> QED  BY <1>1, <1>3, <1>4, CalmCommits

LEMMA StepDownCommits ==
    ASSUME Shape, Shape', Ballots, Records, NEW lead, NEW full, Logs(lead, full),
           Commits(lead, full), NEW n \in Nodes, NEW m \in network, StepDown(n, m)
    PROVE  Commits(lead, full)'
<1>1. /\ network' = network
      /\ UNCHANGED <<snapshot, commitIndex, applied, committed, nextIndex, matchIndex>>
  BY DEF StepDown, leaderVars, commitVars
<1> QED  BY <1>1, StepDownCalm, HarmlessCommits

LEMMA ReadHeartbeatCommits ==
    ASSUME Shape, Shape', Ballots, Records, NEW lead, NEW full, Logs(lead, full),
           Commits(lead, full), NEW n \in Nodes, NEW m \in network,
           HandleReadHeartbeat(n, m)
    PROVE  Commits(lead, full)'
<1>1. /\ network \subseteq network'
      /\ \A r \in network' : r \in network \/ Harmless(r)
      /\ UNCHANGED <<snapshot, commitIndex, applied, committed, nextIndex, matchIndex>>
  BY DEF HandleReadHeartbeat, Send, Harmless, leaderVars, commitVars
<1> QED  BY <1>1, ReadHeartbeatCalm, HarmlessCommits

LEMMA ReadAckCommits ==
    ASSUME Shape, Shape', Ballots, Records, NEW lead, NEW full, Logs(lead, full),
           Commits(lead, full), NEW n \in Nodes, NEW m \in network, HandleReadAck(n, m)
    PROVE  Commits(lead, full)'
<1>1. CASE StepDown(n, m)
  BY <1>1, StepDownCommits
<1>2. CASE UNCHANGED <<persistentVars, electionVars, leaderVars, commitIndex, applied,
                       committed, network>>
  <2>1. UNCHANGED <<snapshot, commitIndex, applied, committed, nextIndex, matchIndex,
                    network>>
    BY <1>2 DEF persistentVars, leaderVars
  <2> QED  BY <2>1, ReadAckCalm, HarmlessCommits
<1> QED  BY <1>1, <1>2 DEF HandleReadAck

LEMMA RequestReadCommits ==
    ASSUME Shape, Shape', Ballots, Records, NEW lead, NEW full, Logs(lead, full),
           Commits(lead, full), NEW n \in Nodes, NEW c \in Clients, RequestRead(n, c)
    PROVE  Commits(lead, full)'
<1>1. /\ network \subseteq network'
      /\ \A r \in network' : r \in network \/ Harmless(r)
  BY DEF RequestRead, Send, Harmless
<1>2. UNCHANGED <<snapshot, commitIndex, applied, committed, nextIndex, matchIndex>>
  BY DEF RequestRead, persistentVars, leaderVars
<1> QED  BY <1>1, <1>2, RequestReadCalm, HarmlessCommits

LEMMA ResumeCommits ==
    ASSUME Shape, Shape', Ballots, Records, NEW lead, NEW full, Logs(lead, full),
           Commits(lead, full), NEW n \in Nodes, Resume(n)
    PROVE  Commits(lead, full)'
<1>1. /\ network' = network
      /\ UNCHANGED <<snapshot, commitIndex, applied, committed, nextIndex, matchIndex>>
  BY DEF Resume, persistentVars, leaderVars, commitVars
<1> QED  BY <1>1, ResumeCalm, HarmlessCommits

LEMMA StutterCommits ==
    ASSUME Shape, Shape', Ballots, Records, NEW lead, NEW full, Logs(lead, full),
           Commits(lead, full), UNCHANGED vars
    PROVE  Commits(lead, full)'
<1>1. /\ UNCHANGED <<term, votedFor, role, votes, leadersByTerm>>
      /\ network' = network
      /\ UNCHANGED <<snapshot, commitIndex, applied, committed, nextIndex, matchIndex>>
  BY DEF vars, persistentVars, electionVars, leaderVars, commitVars
<1>2. NoNewGrant
  BY <1>1 DEF NoNewGrant
<1> QED  BY <1>1, <1>2, SameCalm, HarmlessCommits

\* A leader's heartbeat, or what it sends after a rejection.
LEMMA HeartbeatCommits ==
    ASSUME Shape, Shape', Ballots, Records, NEW lead, NEW full, Logs(lead, full),
           Commits(lead, full), NEW n \in Nodes, Heartbeat(n)
    PROVE  Commits(lead, full)'
<1>1. /\ role[n] = "leader"
      /\ Send(Broadcast(n, term[n], log[n], nextIndex[n], config[n].voters))
      /\ UNCHANGED <<term, role, log, snapshot, leadersByTerm, commitIndex, applied,
                     committed, nextIndex, matchIndex>>
  BY DEF Heartbeat, persistentVars, electionVars, leaderVars, commitVars
<1>2. /\ term[n] \in Nat
      /\ log[n] \in Seq(KnownEntries)
      /\ nextIndex[n] \in [Nodes -> Nat \ {0}]
      /\ config[n].voters \in SUBSET Nodes
      /\ commitIndex[n] \in Nat
  BY IndexTypes DEF Shape, ShapedLeaders
<1>3. PICK t \in Nat, lg \in Seq(KnownEntries), nxt \in [Nodes -> Nat \ {0}],
           V \in SUBSET Nodes, c \in Nat :
        /\ t = term[n]
        /\ lg = log[n]
        /\ nxt = nextIndex[n]
        /\ V = config[n].voters
        /\ c = commitIndex[n]
  BY <1>2
<1>4. PICK ms : ms = Broadcast(n, t, lg, nxt, V)
  OBVIOUS
<1>5. PICK L \in Seq(KnownEntries) : L = lead[t]
  BY DEF Logs
<1>6. /\ full[n] = L
      /\ Fits(L, lg, snapshot[n])
  BY <1>1, <1>3, <1>5 DEF Logs
<1>7. ServerSettled(lead, L, n) /\ TableTrue(L, n)
  BY <1>6 DEF Commits
<1>8. IsImage(snapshot[n].image, L, Base(n)) /\ Settled(lead, L, t, c)
  BY <1>3, <1>7 DEF ServerSettled
<1>9. \A p \in Nodes : nxt[p] <= Len(L) + 1
  BY <1>1, <1>3, <1>7 DEF TableTrue
<1>10. network \subseteq network' /\ network' \subseteq network \cup ms
  BY <1>1, <1>3, <1>4 DEF Send
<1>11. Calm /\ NoNewGrant
  BY HeartbeatCalm
<1>12. NoNewAck
  BY <1>1, <1>4, <1>10, BroadcastNoAck DEF NoNewAck
<1>13. Settled(lead, L, t, c)'
  <2>1. lead \in [Nat -> Seq(KnownEntries)]
    BY DEF Logs
  <2>2. Onward(lead, lead)
    BY <1>1, <1>10, <1>11, <2>1, OnwardSame DEF Calm
  <2>3. SameUpTo(L, L, c)
    BY <1>3, <1>7 DEF ServerSettled, IsImage, SameUpTo
  <2> QED  BY <1>8, <2>1, <2>2, <2>3, SettledStays
<1>14. \A m \in ms : TrueMessage(lead, full, m)'
  BY <1>3, <1>4, <1>5, <1>6, <1>8, <1>9, <1>13, BroadcastTrue
<1> QED  BY <1>1, <1>10, <1>11, <1>12, <1>14, CalmCommits

-----------------------------------------------------------------------------
(***************************************************************************)
(* Votes: a candidate no less up to date than a voter holds what the voter *)
(* acknowledged, but for what a later leader is without.                   *)
(***************************************************************************)
\* The election restriction, on whole logs.
Fresher(C, F) ==
    \/ LastTermOf(C) > LastTermOf(F)
    \/ LastTermOf(C) = LastTermOf(F) /\ Len(C) >= Len(F)

LEMMA FresherHas ==
    ASSUME NEW lead, Leads(lead), NEW C \in Seq(KnownEntries), NEW F \in Seq(KnownEntries),
           NEW u, NEW w, Traced(lead, C, u), Traced(lead, F, w), Fresher(C, F),
           NEW t \in Nat, NEW i \in Nat, Has(F, t, i), ~Has(C, t, i)
    PROVE  \E j \in 1 .. Len(C) : t < C[j].term /\ ~Has(lead[C[j].term], t, i)
<1>1. Len(C) \in Nat /\ Len(F) \in Nat
  BY LoggedTypes
<1>2. PICK f \in Nat : f = Len(F) /\ f > 0 /\ i <= f /\ i >= 1
  BY <1>1 DEF Has
<1>3. f \in 1 .. Len(F) /\ F # <<>> /\ i \in 1 .. f /\ i \in 1 .. Len(F) /\ F[i].term = t
  BY <1>2 DEF Has
<1>4. PICK x \in Nat : x = F[f].term /\ x = LastTermOf(F)
  BY <1>2, <1>3, LoggedTypes DEF LastTermOf
<1>5. t <= x
  BY <1>3, <1>4, TracedOrdered
<1>6. C # <<>>
  <2> SUFFICES ASSUME C = <<>> PROVE FALSE
    OBVIOUS
  <2>1. LastTermOf(C) = 0 /\ Len(C) = 0
    BY EmptySeq DEF LastTermOf
  <2> QED  BY <1>2, <1>4, <2>1 DEF Fresher
<1>7. PICK k \in Nat : k = Len(C) /\ k > 0
  BY <1>1, <1>6, EmptySeq
<1>8. PICK y \in Nat : y = C[k].term /\ y = LastTermOf(C)
  BY <1>6, <1>7, LoggedTypes DEF LastTermOf
<1>9. k \in 1 .. Len(C) /\ SameUpTo(C, lead[y], k)
  <2>1. k \in 1 .. Len(C)
    BY <1>7
  <2> QED  BY <1>8, <2>1 DEF Traced
<1>10. lead[y] \in Seq(KnownEntries) /\ Traced(lead, lead[y], y) /\ Len(lead[y]) \in Nat
  BY LoggedTypes DEF Leads
<1>11. CASE y > x
  <2>1. t < y
    BY <1>5, <1>11
  <2>2. ASSUME Has(lead[y], t, i) PROVE FALSE
    <3>1. i \in 1 .. Len(lead[y]) /\ lead[y][i].term = t
      BY <2>2 DEF Has
    <3>2. CASE i <= k
      <4>1. i \in 1 .. k
        BY <1>3, <3>2
      <4>2. C[i] = lead[y][i] /\ i \in 1 .. Len(C)
        BY <1>7, <1>9, <4>1 DEF SameUpTo
      <4> QED  BY <3>1, <4>2 DEF Has
    <3>3. CASE i > k
      <4>1. k \in 1 .. i /\ k \in 1 .. k
        BY <1>7, <3>3
      <4>2. lead[y][k].term <= lead[y][i].term
        BY <1>10, <3>1, <4>1, TracedOrdered
      <4>3. lead[y][k] = C[k]
        BY <1>9, <4>1 DEF SameUpTo
      <4>4. y <= t
        BY <1>8, <3>1, <4>2, <4>3
      <4> QED  BY <2>1, <4>4
    <3> QED  BY <1>7, <3>2, <3>3
  <2> QED  BY <1>8, <1>9, <2>1, <2>2
<1>12. CASE y = x /\ k >= f
  <2>1. SameUpTo(F, lead[y], f)
    BY <1>3, <1>4, <1>12 DEF Traced
  <2>2. i \in 1 .. k /\ i \in 1 .. Len(C)
    BY <1>2, <1>7, <1>12
  <2>3. C[i] = lead[y][i] /\ F[i] = lead[y][i]
    BY <1>3, <1>9, <2>1, <2>2 DEF SameUpTo
  <2> QED  BY <1>3, <2>2, <2>3 DEF Has
<1> QED  BY <1>2, <1>4, <1>7, <1>8, <1>11, <1>12 DEF Fresher

LEMMA FresherCovers ==
    ASSUME Shape, Records, NEW lead, NEW full, Logs(lead, full), Commits(lead, full),
           NEW v \in Nodes, NEW c \in Nodes, NEW T \in Nat, term[v] <= T,
           \A i \in 1 .. Len(full[c]) : full[c][i].term < T,
           Fresher(full[c], full[v])
    PROVE  Covers(lead, full[c], v, T, T)
<1> SUFFICES ASSUME NEW t \in Nat, NEW i \in Nat, t < T, Has(lead[t], t, i), Acked(v, t, i)
             PROVE  Has(full[c], t, i) \/ Dropped(lead, t, i, T)
  BY DEF Covers
<1>1. PICK x \in Nat : x = term[v] /\ x <= T
  BY IndexTypes
<1>2. t <= x
  BY <1>1, AckedTerm
<1>3. PICK F \in Seq(KnownEntries) : F = full[v]
  BY DEF Logs
<1>4. PICK C \in Seq(KnownEntries) : C = full[c]
  BY DEF Logs
<1>5. Has(F, t, i) \/ Dropped(lead, t, i, x)
  <2>1. Covers(lead, F, v, x + 1, x)
    BY <1>1, <1>3 DEF Commits, AcksKept
  <2>2. t < x + 1
    BY <1>2
  <2> QED  BY <2>1, <2>2 DEF Covers
<1>6. CASE Dropped(lead, t, i, x)
  <2>1. PICK w \in t + 1 .. x : Led(w) /\ ~Has(lead[w], t, i)
    BY <1>6 DEF Dropped
  <2>2. w \in t + 1 .. T
    BY <1>1
  <2> QED  BY <2>1, <2>2 DEF Dropped
<1>7. CASE Has(F, t, i) /\ ~Has(C, t, i)
  <2>1. Leads(lead) /\ Traced(lead, C, term[c]) /\ Traced(lead, F, term[v])
    BY <1>3, <1>4 DEF Logs, Leads
  <2>2. PICK j \in 1 .. Len(C) : t < C[j].term /\ ~Has(lead[C[j].term], t, i)
    BY <1>3, <1>4, <1>7, <2>1, FresherHas
  <2>3. PICK y \in Nat : y = C[j].term
    BY <2>2, LoggedTypes
  <2>4. t < y /\ y < T /\ ~Has(lead[y], t, i)
    BY <1>4, <2>2, <2>3
  <2>5. y \in t + 1 .. T
    BY <2>4
  <2>6. Led(y)
    <3>1. SameUpTo(C, lead[y], j)
      BY <2>1, <2>2, <2>3 DEF Traced
    <3>2. lead[y] # <<>>
      BY <2>2, <3>1, EmptySeq, LoggedTypes DEF SameUpTo
    <3> QED  BY <3>2 DEF Logs
  <2> QED  BY <2>4, <2>5, <2>6 DEF Dropped
<1> QED  BY <1>4, <1>5, <1>6, <1>7

LEMMA LastOfWhole ==
    ASSUME Shape, NEW lead, NEW full, Logs(lead, full), NEW n \in Nodes,
           NEW F \in Seq(KnownEntries), F = full[n]
    PROVE  LastIndex(n) = Len(F) /\ TermAt(n, LastIndex(n)) = LastTermOf(F)
<1>1. Fits(F, log[n], snapshot[n])
  BY DEF Logs
<1>2. Base(n) \in Nat /\ LastIndex(n) \in Nat /\ Base(n) <= LastIndex(n)
  BY IndexTypes DEF LastIndex
<1>3. LastIndex(n) \in Base(n) .. LastIndex(n)
  BY <1>2
<1>4. /\ Len(F) = LastIndex(n)
      /\ TermAt(n, LastIndex(n)) = IF LastIndex(n) = 0 THEN 0 ELSE F[LastIndex(n)].term
  BY <1>1, <1>3, FitsIndices
<1> QED  BY <1>4, EmptySeq DEF LastTermOf

\* A vote goes to a candidate that knows as much as the voter.
LEMMA RequestVoteCommits ==
    ASSUME Shape, Shape', Ballots, Records, NEW lead, NEW full, Logs(lead, full),
           Commits(lead, full), NEW n \in Nodes, NEW m \in network,
           HandleRequestVote(n, m)
    PROVE  Commits(lead, full)'
<1>0. m.type = "RequestVote" /\ m.term \in Nat /\ m.from \in Nodes /\ term[n] \in Nat
  BY IndexTypes DEF HandleRequestVote, Shape, ShapedNetwork, ShapedMessage
<1>1. PICK t \in Nat : /\ t = Larger(term[n], m.term)
                       /\ t >= term[n]
                       /\ t >= m.term
                       /\ t = term[n] \/ t = m.term
                       /\ t > term[n] <=> m.term > term[n]
                       /\ Grants(n, m) => t = m.term
  BY <1>0 DEF Larger, Grants
<1>2. PICK r : r = VoteReply(t, n, m.from, Grants(n, m))
  OBVIOUS
<1>3. /\ term' = [term EXCEPT ![n] = t]
      /\ IF m.term > term[n] THEN role' = [role EXCEPT ![n] = "follower"]
                             ELSE UNCHANGED role
      /\ Send({r})
      /\ UNCHANGED leadersByTerm
      /\ UNCHANGED <<snapshot, commitIndex, applied, committed, nextIndex, matchIndex>>
  BY <1>1, <1>2 DEF HandleRequestVote, leaderVars, commitVars
<1>4. /\ r.type = "VoteReply"
      /\ r.term = t
      /\ r.from = n
      /\ r.to = m.from
      /\ r.granted = Grants(n, m)
  BY <1>2 DEF VoteReply
<1>5. network \subseteq network' /\ network' \subseteq network \cup {r}
  BY <1>3 DEF Send
<1>6. /\ \A k \in Nodes : term[k] \in Nat
      /\ term'[n] = t
      /\ \A k \in Nodes : k # n => term'[k] = term[k] /\ role'[k] = role[k]
      /\ role'[n] # "follower" => role'[n] = role[n] /\ ~(m.term > term[n])
  BY <1>3 DEF Shape, ShapedElections
<1>7. \A k \in Nodes : term'[k] >= term[k]
  BY <1>1, <1>6
<1>8. \A k \in Nodes : role'[k] # "follower" => role'[k] = role[k] /\ term'[k] = term[k]
  BY <1>1, <1>6
<1>9. NoNewAck
  BY <1>3, <1>4, <1>5 DEF NoNewAck
<1>10. TrueMessage(lead, full, m)
  BY DEF Commits
<1>11. TrueMessage(lead, full, r)'
  <2> SUFFICES ASSUME Grants(n, m) PROVE t <= term'[m.from]
    BY <1>4 DEF TrueMessage
  <2>1. t = m.term /\ m.term <= term[m.from]
    BY <1>0, <1>1, <1>10 DEF TrueMessage
  <2>2. term[m.from] <= term'[m.from] /\ term[m.from] \in Nat /\ term'[m.from] \in Nat
    BY <1>0, <1>1, <1>6, <1>7
  <2> QED  BY <2>1, <2>2
<1>12. VotesCover(lead, full)'
  <2> SUFFICES ASSUME NEW c \in Nodes, role'[c] = "candidate"
               PROVE  /\ \A i \in 1 .. Len(full[c]) : full[c][i].term < term'[c]
                      /\ \A v \in Supporters(c, term[c])' :
                           Covers(lead, full[c], v, term[c], term[c])'
    BY DEF VotesCover
  <2>1. role[c] = "candidate" /\ term'[c] = term[c]
    BY <1>8
  <2>2. Turns(lead, full, lead, full)
    BY <1>7, <1>9, SameTurns
  <2>3. \A i \in 1 .. Len(full[c]) : full[c][i].term < term[c]
    BY <2>1 DEF Commits, VotesCover
  <2>4. PICK T \in Nat : T = term[c]
    BY <1>6
  <2>5. ASSUME NEW v \in Supporters(c, T)'
        PROVE  v \in Supporters(c, T) \/ (v = n /\ T = t /\ c = m.from /\ Grants(n, m))
    <3>1. v \in Nodes /\ (v = c \/ Granted(v, T, c)')
      BY <2>5 DEF Supporters
    <3>2. CASE v = c
      BY <3>2 DEF Supporters
    <3>3. CASE Granted(v, T, c)'
      BY <1>4, <1>5, <3>1, <3>3 DEF Granted, Supporters
    <3> QED  BY <3>1, <3>2, <3>3
  <2>6. ASSUME NEW v \in Supporters(c, T)', v = n, T = t, c = m.from, Grants(n, m)
        PROVE  Covers(lead, full[c], v, T, T)'
    <3>1. /\ m.lastIndex = Len(full[c])
          /\ m.lastTerm = LastTermOf(full[c])
      BY <1>0, <1>1, <1>10, <2>1, <2>4, <2>6 DEF TrueMessage
    <3>2. PICK F \in Seq(KnownEntries) : F = full[n]
      BY DEF Logs
    <3>3. LastIndex(n) = Len(F) /\ TermAt(n, LastIndex(n)) = LastTermOf(F)
      BY <3>2, LastOfWhole
    <3>4. Fresher(full[c], F)
      BY <2>6, <3>1, <3>3 DEF Grants, UpToDate, Fresher
    <3>5. term[n] <= T
      BY <1>1, <2>6
    <3>6. \A i \in 1 .. Len(full[c]) : full[c][i].term < T
      BY <2>3, <2>4
    <3>7. Covers(lead, full[c], n, T, T)
      BY <3>2, <3>4, <3>5, <3>6, FresherCovers
    <3>8. PICK C \in Seq(KnownEntries) : C = full[c]
      BY DEF Logs
    <3>9. T <= term'[n] /\ term'[n] \in Nat
      BY <1>6, <2>6
    <3>10. \A x, i \in Nat : Has(C, x, i) => Has(C, x, i)
      OBVIOUS
    <3>11. Covers(lead, C, n, T, T)
      BY <3>7, <3>8
    <3>12. Covers(lead, C, n, T, T)'
      BY <2>2, <3>9, <3>10, <3>11, CoversGrows
    <3> QED  BY <2>6, <3>8, <3>12
  <2>7. ASSUME NEW v \in Supporters(c, T)' PROVE Covers(lead, full[c], v, T, T)'
    <3>1. CASE v \in Supporters(c, T)
      <4>1. v \in Supporters(c, term[c])
        BY <2>4, <3>1
      <4>2. Covers(lead, full[c], v, term[c], term[c])'
        BY <2>1, <2>2, <4>1, VotesStayCovered
      <4> QED  BY <2>1, <2>4, <4>2 DEF Covers, Dropped
    <3> QED  BY <2>5, <2>6, <2>7, <3>1
  <2>8. term'[c] = T
    BY <2>1, <2>4
  <2> QED  BY <2>3, <2>4, <2>7, <2>8 DEF Covers, Dropped, Supporters
<1>13. \A x \in {r} : TrueMessage(lead, full, x)'
  BY <1>11
<1> QED  BY <1>3, <1>5, <1>7, <1>8, <1>9, <1>12, <1>13, QuietCommits

-----------------------------------------------------------------------------
(***************************************************************************)
(* Elections.                                                              *)
(***************************************************************************)
\* Who starts a campaign has no vote yet but its own.
LEMMA CandidateCommits ==
    ASSUME Shape, Shape', Ballots, Records, NEW lead, NEW full, Logs(lead, full),
           Commits(lead, full), NEW n \in Nodes, NEW t \in Nat, t = term[n] + 1,
           term' = [term EXCEPT ![n] = t], role' = [role EXCEPT ![n] = "candidate"],
           UNCHANGED leadersByTerm,
           UNCHANGED <<snapshot, commitIndex, applied, committed, nextIndex, matchIndex>>,
           NEW ms, Send(ms),
           \A m \in ms : /\ m.type = "RequestVote"
                         /\ m.term = t
                         /\ m.from = n
                         /\ m.lastIndex = LastIndex(n)
                         /\ m.lastTerm = TermAt(n, LastIndex(n))
    PROVE  Commits(lead, full)'
<1>1. /\ \A k \in Nodes : term[k] \in Nat
      /\ term'[n] = t
      /\ role'[n] = "candidate"
      /\ \A k \in Nodes : k # n => term'[k] = term[k] /\ role'[k] = role[k]
  BY DEF Shape, ShapedElections
<1>2. \A k \in Nodes : term'[k] >= term[k]
  BY <1>1
<1>3. network \subseteq network' /\ network' \subseteq network \cup ms
  BY DEF Send
<1>4. NoNewAck /\ NoNewGrant
  BY <1>3 DEF NoNewAck, NoNewGrant
<1>5. Turns(lead, full, lead, full)
  BY <1>2, <1>4, SameTurns
<1>6. CandidatesStay(full, full)
  <2>1. term'[n] > term[n]
    BY <1>1
  <2> QED  BY <1>1, <2>1 DEF CandidatesStay
<1>7. NewLeadersCover(lead)
  BY NoNewLeader
<1>8. ASSUME NEW k \in Nodes
      PROVE  ServerSettled(lead, full[k], k)' /\ TableTrue(full[k], k)'
  <2>1. ServerSettled(lead, full[k], k)'
    BY <1>5, ServerStaysSettled
  <2>2. role'[k] = "leader" => role[k] = "leader" /\ term'[k] = term[k]
    BY <1>1
  <2>3. TableTrue(full[k], k)'
    BY <1>5, <2>2, TableStaysTrue
  <2> QED  BY <2>1, <2>3
<1>9. PICK F \in Seq(KnownEntries) : F = full[n]
  BY DEF Logs
<1>10. ASSUME NEW m \in ms PROVE TrueMessage(lead, full, m)'
  <2>1. m.lastIndex = Len(F) /\ m.lastTerm = LastTermOf(F)
    BY <1>9, LastOfWhole
  <2>2. m.term <= term'[m.from]
    BY <1>1
  <2> QED  BY <1>9, <2>1, <2>2 DEF TrueMessage
<1>11. VotesCover(lead, full)'
  <2> SUFFICES ASSUME NEW c \in Nodes, role'[c] = "candidate"
               PROVE  /\ \A i \in 1 .. Len(full[c]) : full[c][i].term < term'[c]
                      /\ \A v \in Supporters(c, term[c])' :
                           Covers(lead, full[c], v, term[c], term[c])'
    BY DEF VotesCover
  <2>1. CASE c # n
    <3>1. role[c] = "candidate" /\ term'[c] = term[c]
      BY <1>1, <2>1
    <3>2. \A i \in 1 .. Len(full[c]) : full[c][i].term < term'[c]
      BY <3>1 DEF Commits, VotesCover
    <3>3. PICK T : T = term[c]
      OBVIOUS
    <3>4. Supporters(c, T)' = Supporters(c, T)
      BY <1>4, SameSupporters
    <3>5. ASSUME NEW v \in Supporters(c, T) PROVE Covers(lead, full[c], v, T, T)'
      <4>1. Covers(lead, full[c], v, term[c], term[c])'
        BY <1>5, <3>1, <3>3, VotesStayCovered
      <4> QED  BY <3>1, <3>3, <4>1 DEF Covers, Dropped
    <3>6. term'[c] = T
      BY <3>1, <3>3
    <3> QED  BY <3>2, <3>4, <3>5, <3>6 DEF Covers, Dropped, Supporters
  <2>2. CASE c = n
    <3>1. \A i \in 1 .. Len(F) : F[i].term < t
      <4>1. \A i \in 1 .. Len(F) : F[i].term \in Nat /\ F[i].term <= term[n]
        BY <1>9, LoggedTypes DEF Logs, Traced
      <4> QED  BY <1>1, <4>1
    <3>2. ASSUME NEW v \in Supporters(n, t)' PROVE v = n
      <4> SUFFICES ASSUME v \in Nodes, Granted(v, t, n) PROVE FALSE
        BY <1>4, <3>2, SameSupporters DEF Supporters
      <4>1. PICK m \in network : /\ m.type = "VoteReply"
                                 /\ m.granted
                                 /\ m.term = t
                                 /\ m.to = n
        BY DEF Granted
      <4>2. t <= term[n]
        BY <4>1 DEF Commits, TrueMessage
      <4> QED  BY <1>1, <4>2
    <3>3. Covers(lead, F, n, t, t)'
      <4> SUFFICES ASSUME NEW x \in Nat, NEW i \in Nat, x < t, Has(lead[x], x, i),
                          Acked(n, x, i)'
                   PROVE  Has(F, x, i) \/ Dropped(lead, x, i, t)'
        BY DEF Covers
      <4>1. Acked(n, x, i)
        BY <1>4, SameAcks
      <4>2. PICK u \in Nat : u = term[n] /\ t = u + 1 /\ u <= t
        BY <1>1
      <4>3. Covers(lead, F, n, t, u)
        BY <1>9, <4>2 DEF Commits, AcksKept
      <4>4. Has(F, x, i) \/ Dropped(lead, x, i, u)
        BY <4>1, <4>3 DEF Covers
      <4>5. CASE Dropped(lead, x, i, u)
        <5>1. lead \in [Nat -> Seq(KnownEntries)] /\ Onward(lead, lead)
          BY <1>5 DEF Turns
        <5>2. \E w \in x + 1 .. t : Led(w)' /\ ~Has(lead[w], x, i)
          BY <4>2, <4>5, <5>1, DroppedGrows
        <5> QED  BY <5>2 DEF Dropped
      <4> QED  BY <4>4, <4>5
    <3>4. \A v \in Supporters(n, t)' : Covers(lead, F, v, t, t)'
      BY <3>2, <3>3
    <3> QED  BY <1>1, <1>9, <2>2, <3>1, <3>4 DEF Covers, Dropped, Supporters
  <2> QED  BY <2>1, <2>2
<1>12. PICK recs : recs = {}
  OBVIOUS
<1>13. committed' \subseteq committed \cup recs
       /\ \A rec \in recs : RecordSettled(lead, rec)'
  BY <1>12
<1> QED  BY <1>3, <1>5, <1>6, <1>7, <1>8, <1>10, <1>11, <1>13, CommitsGrow

\* A majority that knew no more than the new leader elected it.
LEMMA ElectedTurns ==
    ASSUME Shape, Shape', Records, Records', ElectionSafety',
           NEW lead, NEW full, Logs(lead, full), Commits(lead, full),
           NEW n \in Nodes, NEW t \in Nat, t >= term[n], Elected(n, t),
           lead[t] = <<>>, NEW lead2, lead2 = [lead EXCEPT ![t] = full[n]],
           network \subseteq network',
           \A m \in network' : m.type = "AppendReply" => m \in network
    PROVE  Turns(lead, full, lead2, full) /\ ~Led(t)
<1>1. /\ lead \in [Nat -> Seq(KnownEntries)]
      /\ full \in [Nodes -> Seq(KnownEntries)]
      /\ full[n] \in Seq(KnownEntries)
  BY DEF Logs
<1>2. /\ lead2 \in [Nat -> Seq(KnownEntries)]
      /\ lead2[t] = full[n]
      /\ \A u \in Nat : u # t => lead2[u] = lead[u]
  BY <1>1
<1>3. /\ term \in [Nodes -> Nat]
      /\ term' = [term EXCEPT ![n] = t]
      /\ leadersByTerm' = leadersByTerm \cup {<<t, n>>}
      /\ <<t, n>> \notin leadersByTerm
  BY DEF Shape, ShapedElections, Elected
<1>4. ~Led(t)
  <2> SUFFICES ASSUME NEW k \in Nodes, <<t, k>> \in leadersByTerm PROVE FALSE
    BY DEF Led
  <2>1. <<t, k>> \in leadersByTerm' /\ <<t, n>> \in leadersByTerm'
    BY <1>3
  <2>2. <<t, k>> = <<t, n>>
    BY <2>1 DEF ElectionSafety
  <2> QED  BY <1>3, <2>2
<1>5. Onward(lead, lead2)
  <2>1. Extends(lead, lead2)
    <3> SUFFICES ASSUME NEW u \in Nat PROVE SameUpTo(lead[u], lead2[u], Len(lead[u]))
      BY DEF Extends
    <3>1. CASE u = t
      <4>1. Len(lead[u]) = 0 /\ Len(lead2[u]) \in Nat
        BY <1>2, <3>1, EmptySeq, LoggedTypes
      <4> QED  BY <4>1 DEF SameUpTo
    <3>2. CASE u # t
      <4>1. lead2[u] = lead[u] /\ Extends(lead, lead)
        BY <1>1, <1>2, <3>2, ExtendsItself
      <4> QED  BY <4>1 DEF Extends
    <3> QED  BY <3>1, <3>2
  <2>2. ASSUME NEW w \in Nat, Led(w), NEW i \in 1 .. Len(lead2[w]), i > Len(lead[w])
        PROVE  lead2[w][i].term = w
    <3>1. lead2[w] = lead[w] /\ Len(lead[w]) \in Nat
      BY <1>1, <1>2, <1>4, <2>2, LoggedTypes
    <3>2. i \in 1 .. Len(lead[w])
      BY <3>1
    <3> QED  BY <2>2, <3>1, <3>2
  <2>3. \A k \in Nodes : term'[k] >= term[k]
    BY <1>3
  <2> QED  BY <1>3, <2>1, <2>2, <2>3 DEF Onward
<1>6. AcksBacked(lead, lead2, full)
  <2> SUFFICES ASSUME NEW v \in Nodes, NEW x \in Nat, NEW i \in Nat, Has(lead2[x], x, i),
                      Acked(v, x, i)', ~(Has(lead[x], x, i) /\ Acked(v, x, i))
               PROVE  x = term'[v] /\ Has(full[v], x, i)
    BY DEF AcksBacked
  <2>1. CASE x # t
    <3>1. lead2[x] = lead[x]
      BY <1>2, <2>1
    <3>2. <<x, v>> \in leadersByTerm' => <<x, v>> \in leadersByTerm
      BY <1>3, <2>1
    <3>3. Acked(v, x, i)
      BY <3>2 DEF Acked
    <3> QED  BY <3>1, <3>3
  <2>2. CASE x = t /\ v = n
    <3>1. term'[n] = t
      BY <1>3
    <3> QED  BY <1>2, <2>2, <3>1
  <2>3. CASE x = t /\ v # n
    <3>1. <<t, v>> \notin leadersByTerm'
      BY <1>3, <1>4, <2>3 DEF Led
    <3>2. PICK m \in network : /\ m.type = "AppendReply"
                               /\ m.success
                               /\ m.term = t
                               /\ m.match >= i
      BY <2>3, <3>1 DEF Acked
    <3>3. m.match <= Len(lead[t])
      BY <3>2 DEF Commits, TrueMessage
    <3>4. m.match \in Nat /\ Len(lead[t]) = 0
      BY <3>2, EmptySeq DEF Shape, ShapedNetwork, ShapedMessage
    <3>5. i \in 1 .. Len(lead2[t])
      BY <2>3 DEF Has
    <3>6. i >= 1
      BY <1>2, <3>5, LoggedTypes
    <3> QED  BY <3>2, <3>3, <3>4, <3>6
  <2> QED  BY <2>1, <2>2, <2>3
<1>7. LossesLawful(lead2, full, full)
  BY DEF LossesLawful
<1> QED  BY <1>1, <1>2, <1>4, <1>5, <1>6, <1>7 DEF Turns

LEMMA ElectedCovers ==
    ASSUME NEW lead, NEW full, NEW lead2, NEW full2, Turns(lead, full, lead2, full2),
           NEW v \in Nodes, term'[v] \in Nat, NEW L, NEW t \in Nat, t <= term'[v],
           ~Led(t), Covers(lead, L, v, t, t)
    PROVE  Covers(lead2, L, v, t, t - 1)'
<1>1. CASE t = 0
  BY <1>1 DEF Covers
<1>2. CASE t # 0
  <2>1. PICK w \in Nat : w = t - 1
    BY <1>2
  <2>2. ASSUME NEW x \in Nat, NEW i \in Nat, Dropped(lead, x, i, t)
        PROVE  Dropped(lead, x, i, w)
    <3>1. PICK y \in x + 1 .. t : Led(y) /\ ~Has(lead[y], x, i)
      BY <2>2 DEF Dropped
    <3>2. y # t
      BY <3>1
    <3>3. y \in x + 1 .. w
      BY <2>1, <3>2
    <3> QED  BY <3>1, <3>3 DEF Dropped
  <2>3. Covers(lead, L, v, t, w)
    BY <2>2 DEF Covers
  <2>4. \A x, i \in Nat : Has(L, x, i) => Has(L, x, i)
    OBVIOUS
  <2>5. Covers(lead2, L, v, t, w)'
    BY <2>3, <2>4, CoversGrows
  <2> QED  BY <2>1, <2>5
<1> QED  BY <1>1, <1>2

LEMMA ElectedCommits ==
    ASSUME Shape, Shape', Ballots, Records, Records', ElectionSafety',
           NEW lead, NEW full, Logs(lead, full), Commits(lead, full),
           NEW n \in Nodes, NEW t \in Nat, t >= term[n], Elected(n, t),
           NEW sent, BecomeLeader(n, t, sent), UNCHANGED commitVars,
           \A m \in sent : m.type = "RequestVote" /\ m.term = t /\ m.from = n,
           NEW Q \in SUBSET Nodes, Majority(Q, InitialVoters),
           \A v \in Q : term'[v] >= t /\ Covers(lead, full[n], v, t, t),
           lead[t] = <<>>, NEW lead2, lead2 = [lead EXCEPT ![t] = full[n]]
    PROVE  Commits(lead2, full)'
<1>1. PICK F \in Seq(KnownEntries) : F = full[n]
  BY DEF Logs
<1>2. PICK nxt \in [Nodes -> Nat \ {0}] : nxt = [p \in Nodes |-> LastIndex(n) + 1]
  <2>1. LastIndex(n) + 1 \in Nat \ {0}
    BY IndexTypes
  <2> QED  BY <2>1
<1>3. PICK V \in SUBSET Nodes : V = config[n].voters
  BY IndexTypes
<1>4. PICK lg \in Seq(KnownEntries) : lg = log[n]
  BY IndexTypes
<1>5. PICK casts : casts = Broadcast(n, t, lg, nxt, V)
  OBVIOUS
<1>6. /\ nextIndex' = [nextIndex EXCEPT ![n] = nxt]
      /\ matchIndex' = [matchIndex EXCEPT ![n] =
                          [p \in Nodes |-> IF p = n THEN LastIndex(n) ELSE 0]]
      /\ Send(sent \cup casts)
  BY <1>2, <1>3, <1>4, <1>5 DEF BecomeLeader
<1>7. PICK ms : ms = sent \cup casts
  OBVIOUS
<1>8. network \subseteq network' /\ network' \subseteq network \cup ms
  BY <1>6, <1>7 DEF Send
<1>9. \A m \in casts : m.type \in {"AppendEntries", "InstallSnapshot"}
  BY <1>5, BroadcastNoAck
<1>10. /\ \A m \in network' : m.type = "AppendReply" => m \in network
       /\ NoNewGrant
  BY <1>7, <1>8, <1>9 DEF NoNewGrant
<1>11. Turns(lead, full, lead2, full) /\ ~Led(t)
  BY <1>8, <1>10, ElectedTurns
<1>12. /\ lead \in [Nat -> Seq(KnownEntries)]
       /\ lead2 \in [Nat -> Seq(KnownEntries)]
       /\ lead2[t] = F
       /\ Onward(lead, lead2)
  BY <1>1, <1>11 DEF Turns
<1>13. /\ \A k \in Nodes : term[k] \in Nat
       /\ term'[n] = t
       /\ role'[n] = "leader"
       /\ \A k \in Nodes : k # n => term'[k] = term[k] /\ role'[k] = role[k]
       /\ <<t, n>> \in leadersByTerm'
       /\ leadersByTerm' = leadersByTerm \cup {<<t, n>>}
       /\ UNCHANGED <<snapshot, commitIndex, applied, committed>>
  BY DEF Elected, Shape, ShapedElections, commitVars
<1>14. VotesCover(lead2, full)' /\ CandidatesStay(full, full)
  <2>1. CandidatesGoOn(full, full)
    BY <1>13 DEF CandidatesGoOn
  <2> QED  BY <1>10, <1>11, <2>1, GoOnCovered
<1>15. NewLeadersCover(lead2)
  <2> SUFFICES ASSUME NEW u \in Nat, Led(u)', ~Led(u)
               PROVE  \E R \in SUBSET Nodes :
                        /\ Majority(R, InitialVoters)
                        /\ \A v \in R : term'[v] >= u
                                        /\ Covers(lead2, lead2[u], v, u, u - 1)'
    BY DEF NewLeadersCover
  <2>1. u = t
    BY <1>13 DEF Led
  <2>2. ASSUME NEW v \in Q PROVE term'[v] >= t /\ Covers(lead2, F, v, t, t - 1)'
    <3>1. term'[v] >= t /\ Covers(lead, F, v, t, t)
      BY <1>1
    <3>2. term'[v] \in Nat /\ t <= term'[v]
      BY <3>1 DEF Shape, ShapedElections
    <3>3. Covers(lead2, F, v, t, t - 1)'
      BY <1>11, <3>1, <3>2, ElectedCovers
    <3> QED  BY <3>1, <3>3
  <2> QED  BY <1>12, <2>1, <2>2
<1>16. ServerSettled(lead, F, n)
  BY <1>1 DEF Commits
<1>17. Fits(F, lg, snapshot[n]) /\ LastIndex(n) = Len(F) /\ Len(F) \in Nat
  <2>1. Logs(lead, full) /\ Fits(full[n], log[n], snapshot[n])
    BY <1>1 DEF Logs
  <2> QED  BY <1>1, <1>4, <2>1, LastOfWhole, LoggedTypes
<1>18. ASSUME NEW k \in Nodes
       PROVE  ServerSettled(lead2, full[k], k)' /\ TableTrue(full[k], k)'
  <2>1. ServerSettled(lead2, full[k], k)'
    BY <1>11, <1>13, ServerStaysSettled
  <2>2. CASE k = n
    <3>1. nextIndex'[n] = nxt
      BY <1>6 DEF Shape, ShapedLeaders
    <3>2. \A p \in Nodes : nextIndex'[n][p] <= Len(F) + 1
      BY <1>2, <1>17, <3>1
    <3>3. matchIndex'[n] = [p \in Nodes |-> IF p = n THEN LastIndex(n) ELSE 0]
      BY <1>6 DEF Shape, ShapedLeaders
    <3>4. \A p \in Nodes : matchIndex'[n][p] > 0 => p = n
      BY <3>3
    <3>5. \A i : Acked(n, t, i)'
      BY <1>13 DEF Acked
    <3>6. \A p \in Nodes : matchIndex'[n][p] > 0 => Acked(p, term[n], matchIndex[n][p])'
      BY <1>13, <3>4, <3>5
    <3> QED  BY <1>1, <2>1, <2>2, <3>2, <3>6 DEF TableTrue
  <2>3. CASE k # n
    <3>1. nextIndex'[k] = nextIndex[k] /\ matchIndex'[k] = matchIndex[k]
      BY <1>6, <2>3 DEF Shape, ShapedLeaders
    <3>2. TableTrue(full[k], k)'
      BY <1>11, <1>13, <2>3, <3>1, TableStaysTrue
    <3> QED  BY <2>1, <3>2
  <2> QED  BY <2>2, <2>3
<1>19. ASSUME NEW m \in ms PROVE TrueMessage(lead2, full, m)'
  <2>1. CASE m \in sent
    <3>1. m.type = "RequestVote" /\ m.term <= term'[m.from] /\ role'[m.from] = "leader"
      BY <1>13, <2>1
    <3> QED  BY <3>1 DEF TrueMessage
  <2>2. CASE m \in casts
    <3>1. PICK c \in Nat : c = commitIndex[n]
      BY IndexTypes
    <3>2. PICK u \in Nat : u = term[n]
      BY <1>13
    <3>3. Settled(lead2, F, t, c)'
      <4>1. Settled(lead, F, u, c) /\ u <= t
        BY <1>16, <3>1, <3>2 DEF ServerSettled
      <4>2. PICK c2 \in Nat : c2 = c /\ c2 <= c
        OBVIOUS
      <4>3. SameUpTo(F, F, c2)
        BY <1>16, <3>1, <4>2 DEF ServerSettled, IsImage, SameUpTo
      <4>4. Settled(lead2, F, t, c2)'
        BY <1>12, <4>1, <4>2, <4>3, SettledGrows
      <4> QED  BY <4>2, <4>4
    <3>4. IsImage(snapshot[n].image, F, Base(n))
      BY <1>16 DEF ServerSettled
    <3>5. \A p \in Nodes : nxt[p] <= Len(F) + 1
      BY <1>2, <1>17
    <3>6. F = lead2[t] /\ Fits(F, lg, snapshot[n])
      BY <1>12, <1>17
    <3> QED  BY <1>5, <2>2, <3>1, <3>3, <3>4, <3>5, <3>6, BroadcastTrue
  <2> QED  BY <1>7, <2>1, <2>2
<1>20. PICK recs : recs = {}
  OBVIOUS
<1>21. committed' \subseteq committed \cup recs
       /\ \A rec \in recs : RecordSettled(lead2, rec)'
  BY <1>13, <1>20
<1> QED  BY <1>8, <1>11, <1>14, <1>15, <1>18, <1>19, <1>21, CommitsGrow

\* A candidate with a majority of votes was covered by each of them.
LEMMA WinnerCovered ==
    ASSUME Proposals = {}, Shape, Ballots, NEW lead, NEW full, Commits(lead, full),
           NEW n \in Nodes, role[n] = "candidate", NEW m \in network, m.to = n,
           m.type = "VoteReply", m.granted, m.term = term[n],
           NEW t \in Nat, t = term[n],
           Majority(votes[n] \cup {m.from}, config[n].voters), UNCHANGED term
    PROVE  \E Q \in SUBSET Nodes :
             /\ Majority(Q, InitialVoters)
             /\ \A v \in Q : term'[v] >= t /\ Covers(lead, full[n], v, t, t)
<1>1. PICK Q : Q = votes[n] \cup {m.from}
  OBVIOUS
<1>2. Q \subseteq Supporters(n, t)
  <2>1. votes[n] \subseteq Supporters(n, t)
    BY DEF Ballots, VotesCounted
  <2>2. m.from \in Nodes
    BY DEF Shape, ShapedNetwork, ShapedMessage
  <2> QED  BY <1>1, <2>1, <2>2 DEF Supporters, Granted
<1>3. Q \in SUBSET Nodes /\ Majority(Q, InitialVoters)
  BY <1>1, <1>2, VotersFixed DEF Supporters
<1>4. ASSUME NEW v \in Q PROVE term'[v] >= t /\ Covers(lead, full[n], v, t, t)
  <2>1. v \in Supporters(n, t) /\ v \in Nodes
    BY <1>2, <1>3
  <2>2. Covers(lead, full[n], v, t, t)
    BY <2>1 DEF Commits, VotesCover
  <2>3. term[v] \in Nat /\ (v = n \/ Granted(v, t, n))
    BY <2>1, IndexTypes DEF Supporters
  <2>4. t <= term[v]
    BY <2>1, <2>3 DEF Ballots, VotesKept
  <2> QED  BY <2>2, <2>3, <2>4
<1> QED  BY <1>3, <1>4

LEMMA VoteReplyCommits ==
    ASSUME Proposals = {}, Shape, Shape', Ballots, Records, Records', ElectionSafety',
           NEW lead, NEW full, Logs(lead, full), Commits(lead, full),
           NEW n \in Nodes, NEW m \in network, m.to = n, HandleVoteReply(n, m)
    PROVE  \E lead2 : /\ Logs(lead2, full)'
                      /\ Commits(lead2, full)'
                      /\ Inherits(lead, full, lead2)
<1>1. CASE StepDown(n, m)
  BY <1>1, StepDownLogs, StepDownCommits DEF Inherits
<1>2. CASE /\ UNCHANGED <<term, role, leadersByTerm, network, log, snapshot,
                          nextIndex, matchIndex>>
           /\ UNCHANGED commitVars
  <2>1. Logs(lead, full)'
    <3>1. term'[n] >= term[n]
      BY <1>2, IndexTypes
    <3> QED  BY <1>2, <3>1, SilentLogs DEF Apart, NoNewEntries
  <2>2. NoNewAck /\ NoNewGrant
    BY <1>2 DEF NoNewAck, NoNewGrant
  <2>3. \A k \in Nodes : term'[k] >= term[k]
    BY <1>2, IndexTypes
  <2>4. Turns(lead, full, lead, full)
    BY <2>2, <2>3, SameTurns
  <2>5. CandidatesGoOn(full, full)
    BY <1>2 DEF CandidatesGoOn
  <2>6. VotesCover(lead, full)'
    BY <2>2, <2>4, <2>5, GoOnCovered
  <2>7. UNCHANGED <<snapshot, commitIndex, applied, committed, nextIndex, matchIndex>>
    BY <1>2 DEF commitVars
  <2>8. PICK ms : ms = {}
    OBVIOUS
  <2>9. network' \subseteq network \cup ms /\ \A x \in ms : TrueMessage(lead, full, x)'
    BY <1>2, <2>8
  <2>10. \A k \in Nodes : role'[k] # "follower" => role'[k] = role[k] /\ term'[k] = term[k]
    BY <1>2
  <2>11. Commits(lead, full)'
    BY <2>2, <2>3, <2>6, <2>7, <2>9, <2>10, QuietCommits
  <2> QED  BY <2>1, <2>11 DEF Inherits
<1>3. CASE /\ Elected(n, term[n])
           /\ BecomeLeader(n, term[n], {})
           /\ role[n] = "candidate"
           /\ m.granted
           /\ m.term = term[n]
           /\ Majority(votes[n] \cup {m.from}, config[n].voters)
           /\ UNCHANGED commitVars
  <2>1. PICK t \in Nat : t = term[n]
    BY IndexTypes
  <2>2. PICK lead2 : lead2 = [lead EXCEPT ![t] = full[n]]
    OBVIOUS
  <2>3. PICK sent : sent = {}
    OBVIOUS
  <2>4. t >= term[n] /\ Elected(n, t) /\ BecomeLeader(n, t, sent)
    BY <1>3, <2>1, <2>3
  <2>5. Logs(lead2, full)' /\ lead[t] = <<>>
    <3>1. \A x \in sent : x.type \notin {"AppendEntries", "InstallSnapshot"}
      BY <2>3
    <3> QED  BY <2>2, <2>4, <3>1, ElectedLogs
  <2>6. UNCHANGED term
    BY <1>3 DEF Elected, Shape, ShapedElections
  <2>7. m.type = "VoteReply"
    BY DEF HandleVoteReply
  <2>8. PICK Q \in SUBSET Nodes :
          /\ Majority(Q, InitialVoters)
          /\ \A v \in Q : term'[v] >= t /\ Covers(lead, full[n], v, t, t)
    BY <1>3, <2>1, <2>6, <2>7, WinnerCovered
  <2>9. \A x \in sent : x.type = "RequestVote" /\ x.term = t /\ x.from = n
    BY <2>3
  <2>10. Commits(lead2, full)'
    BY <1>3, <2>2, <2>4, <2>5, <2>8, <2>9, ElectedCommits
  <2>11. Inherits(lead, full, lead2)
    BY <2>2 DEF Inherits, Logs
  <2> QED  BY <2>5, <2>10, <2>11
<1> QED  BY <1>1, <1>2, <1>3, VoteReplyCases

\* A server that is a majority by itself knows what it has acknowledged.
LEMMA StartElectionCommits ==
    ASSUME Proposals = {}, Shape, Shape', Ballots, Records, Records', ElectionSafety',
           NEW lead, NEW full, Logs(lead, full), Commits(lead, full),
           NEW n \in Nodes, StartElection(n)
    PROVE  \E lead2 : /\ Logs(lead2, full)'
                      /\ Commits(lead2, full)'
                      /\ Inherits(lead, full, lead2)
<1>1. PICK u \in Nat : u = term[n]
  BY IndexTypes
<1>2. PICK t \in Nat : t = u + 1 /\ u <= t
  BY <1>1
<1>3. t = term[n] + 1 /\ t >= term[n]
  BY <1>1, <1>2
<1>4. PICK ms : SeeksTerm(n, t, ms)
  BY <1>3, StartElectionCases
<1>5. CASE Elected(n, t) /\ BecomeLeader(n, t, ms) /\ Majority({n}, config[n].voters)
  <2>1. PICK lead2 : lead2 = [lead EXCEPT ![t] = full[n]]
    OBVIOUS
  <2>2. \A m \in ms : m.type \notin {"AppendEntries", "InstallSnapshot"}
    BY <1>4 DEF SeeksTerm
  <2>3. Logs(lead2, full)' /\ lead[t] = <<>>
    BY <1>3, <1>5, <2>1, <2>2, ElectedLogs
  <2>4. PICK Q \in SUBSET Nodes : Q = {n} /\ Majority(Q, InitialVoters)
    BY <1>5, VotersFixed
  <2>5. ASSUME NEW v \in Q PROVE term'[v] >= t /\ Covers(lead, full[n], v, t, t)
    <3>1. v = n /\ term'[v] >= t
      BY <1>5, <2>4 DEF Elected, Shape, ShapedElections
    <3>2. Covers(lead, full[n], n, t, u)
      BY <1>1, <1>2 DEF Commits, AcksKept
    <3>3. ASSUME NEW x \in Nat, NEW i \in Nat, Dropped(lead, x, i, u)
          PROVE  Dropped(lead, x, i, t)
      <4>1. PICK w \in x + 1 .. u : Led(w) /\ ~Has(lead[w], x, i)
        BY <3>3 DEF Dropped
      <4>2. w \in x + 1 .. t
        BY <1>2
      <4> QED  BY <4>1, <4>2 DEF Dropped
    <3> QED  BY <3>1, <3>2, <3>3 DEF Covers
  <2>6. \A m \in ms : m.type = "RequestVote" /\ m.term = t /\ m.from = n
    BY <1>4 DEF SeeksTerm
  <2>7. UNCHANGED commitVars
    BY <1>4 DEF SeeksTerm
  <2>8. Commits(lead2, full)'
    BY <1>3, <1>5, <2>1, <2>3, <2>4, <2>5, <2>6, <2>7, ElectedCommits
  <2>9. Inherits(lead, full, lead2)
    BY <2>1 DEF Inherits, Logs
  <2> QED  BY <2>3, <2>8, <2>9
<1>6. CASE /\ term' = [term EXCEPT ![n] = t]
           /\ role' = [role EXCEPT ![n] = "candidate"]
           /\ Send(ms)
           /\ UNCHANGED <<leadersByTerm, log, snapshot, nextIndex, matchIndex>>
  <2>1. \A m \in ms : /\ m.type = "RequestVote"
                      /\ m.term = t
                      /\ m.from = n
                      /\ m.lastIndex = LastIndex(n)
                      /\ m.lastTerm = TermAt(n, LastIndex(n))
    BY <1>4 DEF SeeksTerm
  <2>2. Logs(lead, full)'
    BY <1>3, <1>6, <2>1, CandidateLogs
  <2>3. UNCHANGED <<snapshot, commitIndex, applied, committed, nextIndex, matchIndex>>
    BY <1>4, <1>6 DEF SeeksTerm, commitVars
  <2>4. Commits(lead, full)'
    BY <1>3, <1>6, <2>1, <2>3, CandidateCommits
  <2> QED  BY <2>2, <2>4 DEF Inherits
<1> QED  BY <1>4, <1>5, <1>6 DEF SeeksTerm

-----------------------------------------------------------------------------
(***************************************************************************)
(* Appending.                                                              *)
(***************************************************************************)
LEMMA AppendOne ==
    ASSUME NEW F \in Seq(KnownEntries), NEW e \in KnownEntries, NEW L, L = Append(F, e)
    PROVE  /\ L \in Seq(KnownEntries)
           /\ Len(F) \in Nat
           /\ Len(L) = Len(F) + 1
           /\ L[Len(F) + 1] = e
           /\ SameUpTo(F, L, Len(F))
<1>1. /\ L \in Seq(KnownEntries)
      /\ Len(F) \in Nat
      /\ Len(L) = Len(F) + 1
      /\ L[Len(F) + 1] = e
  OBVIOUS
<1>2. \A j \in 1 .. Len(F) : L[j] = F[j]
  OBVIOUS
<1>3. Len(F) <= Len(F) /\ Len(F) <= Len(L)
  BY <1>1
<1>4. SameUpTo(F, L, Len(F))
  BY <1>2, <1>3, Zenon DEF SameUpTo
<1> QED  BY <1>1, <1>4

\* Only the leader of a term stores, for a start, what it appends in it.
LEMMA AppendedTurns ==
    ASSUME Shape, Shape', Records, Records', ElectionSafety',
           NEW lead, NEW full, Logs(lead, full), Commits(lead, full),
           NEW n \in Nodes, role[n] = "leader", NoNewAck,
           UNCHANGED <<term, role, leadersByTerm>>,
           NEW t \in Nat, t = term[n], NEW F \in Seq(KnownEntries), F = full[n],
           NEW e \in KnownEntries, e.term = t, NEW L, L = Append(F, e),
           NEW lead2, lead2 = [lead EXCEPT ![t] = L],
           NEW full2, full2 = [full EXCEPT ![n] = L]
    PROVE  Turns(lead, full, lead2, full2)
<1>1. /\ L \in Seq(KnownEntries)
      /\ Len(F) \in Nat
      /\ Len(L) = Len(F) + 1
      /\ L[Len(F) + 1] = e
      /\ SameUpTo(F, L, Len(F))
  <2>1. F \in Seq(KnownEntries) /\ e \in KnownEntries /\ L = Append(F, e)
    OBVIOUS
  <2> QED  BY ONLY <2>1, AppendOne
<1>2. /\ lead \in [Nat -> Seq(KnownEntries)]
      /\ full \in [Nodes -> Seq(KnownEntries)]
      /\ lead[t] = F
  BY DEF Logs
<1>3. /\ lead2 \in [Nat -> Seq(KnownEntries)]
      /\ full2 \in [Nodes -> Seq(KnownEntries)]
      /\ lead2[t] = L
      /\ \A w \in Nat : w # t => lead2[w] = lead[w]
      /\ full2[n] = L
      /\ \A k \in Nodes : k # n => full2[k] = full[k]
  BY <1>1, <1>2
<1>4. Onward(lead, lead2)
  <2>1. ASSUME NEW w \in Nat PROVE SameUpTo(lead[w], lead2[w], Len(lead[w]))
    <3>1. CASE w = t
      BY <1>1, <1>2, <1>3, <3>1
    <3>2. CASE w # t
      BY <1>2, <1>3, <3>2, ExtendsItself DEF Extends
    <3> QED  BY <3>1, <3>2
  <2>2. ASSUME NEW w \in Nat, NEW i \in 1 .. Len(lead2[w]), i > Len(lead[w])
        PROVE  lead2[w][i].term = w
    <3>1. CASE w = t
      <4>1. lead2[w] = L /\ lead[w] = F
        BY <1>2, <1>3, <3>1
      <4>2. i \in 1 .. Len(L) /\ i > Len(F)
        BY <2>2, <4>1
      <4>3. i = Len(F) + 1
        BY <1>1, <4>2
      <4> QED  BY <1>1, <3>1, <4>1, <4>3
    <3>2. CASE w # t
      <4>1. PICK M \in Seq(KnownEntries) : M = lead[w] /\ M = lead2[w]
        BY <1>2, <1>3, <3>2
      <4>2. i \in 1 .. Len(M) /\ i > Len(M) /\ Len(M) \in Nat
        BY <2>2, <4>1, LoggedTypes
      <4> QED  BY <4>2
    <3> QED  BY <3>1, <3>2
  <2>3. \A k \in Nodes : term'[k] >= term[k]
    BY IndexTypes
  <2> QED  BY <2>1, <2>2, <2>3 DEF Onward, Extends, NoNewAck
<1>5. AcksBacked(lead, lead2, full2)
  <2> SUFFICES ASSUME NEW v \in Nodes, NEW x \in Nat, NEW i \in Nat, Has(lead2[x], x, i),
                      Acked(v, x, i)', ~(Has(lead[x], x, i) /\ Acked(v, x, i))
               PROVE  x = term'[v] /\ Has(full2[v], x, i)
    BY DEF AcksBacked
  <2>1. Acked(v, x, i) /\ ~Has(lead[x], x, i)
    BY SameAcks
  <2>2. x = t
    BY <1>3, <2>1
  <2>3. i = Len(F) + 1
    <3>1. i \in 1 .. Len(L) /\ L[i].term = t /\ ~(i \in 1 .. Len(F) /\ F[i].term = t)
      BY <1>2, <1>3, <2>1, <2>2 DEF Has
    <3>2. i \in 1 .. Len(F) => F[i] = L[i]
      BY <1>1 DEF SameUpTo
    <3> QED  BY <1>1, <3>1, <3>2
  <2>4. CASE <<t, v>> \in leadersByTerm
    <3>1. <<t, v>> \in leadersByTerm' /\ <<t, n>> \in leadersByTerm'
      BY <2>4 DEF Records
    <3>2. <<t, v>> = <<t, n>>
      BY <3>1 DEF ElectionSafety
    <3> QED  BY <1>3, <2>2, <3>2
  <2>5. ASSUME NEW m \in network, m.type = "AppendReply", m.success, m.term = t, m.match >= i
        PROVE  FALSE
    <3>1. m.match <= Len(F)
      BY <1>2, <2>5 DEF Commits, TrueMessage
    <3>2. m.match \in Nat
      BY <2>5 DEF Shape, ShapedNetwork, ShapedMessage
    <3> QED  BY <1>1, <2>3, <2>5, <3>1, <3>2
  <2> QED  BY <2>1, <2>2, <2>4, <2>5 DEF Acked
<1>6. LossesLawful(lead2, full, full2)
  <2> SUFFICES ASSUME NEW v \in Nodes, NEW x \in Nat, NEW i \in Nat, Has(full[v], x, i)
               PROVE  Has(full2[v], x, i)
    BY DEF LossesLawful
  <2>1. CASE v = n
    BY <1>1, <1>3, <2>1, HasGrows
  <2> QED  BY <1>3, <2>1
<1> QED  BY <1>2, <1>3, <1>4, <1>5, <1>6 DEF Turns

LEMMA AppendedCommits ==
    ASSUME Shape, Shape', Ballots, Records, Records', ElectionSafety',
           NEW lead, NEW full, Logs(lead, full), Commits(lead, full),
           NEW n \in Nodes, role[n] = "leader",
           NEW cmd \in KnownCommands, NEW voters \in SUBSET Nodes,
           AppendAsLeader(n, cmd, voters),
           UNCHANGED <<term, role, leadersByTerm, snapshot, nextIndex>>,
           UNCHANGED commitVars,
           NEW t \in Nat, t = term[n],
           NEW L, L = Append(full[n], [term |-> t, cmd |-> cmd]),
           NEW lead2, lead2 = [lead EXCEPT ![t] = L],
           NEW full2, full2 = [full EXCEPT ![n] = L], Logs(lead2, full2)'
    PROVE  Commits(lead2, full2)'
<1>1. PICK F \in Seq(KnownEntries) : F = full[n]
  BY DEF Logs
<1>2. PICK e \in KnownEntries : e = [term |-> t, cmd |-> cmd]
  BY DEF KnownEntries
<1>3. e.term = t /\ L = Append(F, e)
  BY <1>1, <1>2
<1>4. /\ L \in Seq(KnownEntries)
      /\ Len(F) \in Nat
      /\ Len(L) = Len(F) + 1
      /\ SameUpTo(F, L, Len(F))
  BY <1>3, AppendOne
<1>5. PICK lg : lg = Append(log[n], e)
  OBVIOUS
<1>6. /\ log' = [log EXCEPT ![n] = lg]
      /\ matchIndex' = [matchIndex EXCEPT ![n][n] = LastIndex(n) + 1]
      /\ Send(Broadcast(n, t, lg, nextIndex[n], voters))
  BY <1>2, <1>5 DEF AppendAsLeader
<1>7. /\ log'[n] = lg
      /\ \A p \in Nodes : p # n => matchIndex'[n][p] = matchIndex[n][p]
      /\ \A k \in Nodes : k # n => matchIndex'[k] = matchIndex[k]
      /\ nextIndex[n] \in [Nodes -> Nat \ {0}]
      /\ nextIndex \in [Nodes -> [Nodes -> Nat \ {0}]]
  <2>1. /\ log \in [Nodes -> Seq(KnownEntries)]
        /\ matchIndex \in [Nodes -> [Nodes -> Nat]]
        /\ nextIndex \in [Nodes -> [Nodes -> Nat \ {0}]]
    BY DEF Shape, ShapedLogs, ShapedLeaders
  <2>2. log'[n] = lg
    BY <1>6, <2>1
  <2>3. \A p \in Nodes : p # n => matchIndex'[n][p] = matchIndex[n][p]
    BY <1>6, <2>1
  <2>4. \A k \in Nodes : k # n => matchIndex'[k] = matchIndex[k]
    BY <1>6, <2>1
  <2> QED  BY <2>1, <2>2, <2>3, <2>4
<1>8. lg \in Seq(KnownEntries)
  <2>1. log[n] \in Seq(KnownEntries)
    BY IndexTypes
  <2> QED  BY <1>5, <2>1
<1>9. PICK nxt \in [Nodes -> Nat \ {0}] : nxt = nextIndex[n]
  BY <1>7
<1>10. PICK ms : ms = Broadcast(n, t, lg, nxt, voters)
  OBVIOUS
<1>11. network \subseteq network' /\ network' \subseteq network \cup ms
  BY <1>6, <1>9, <1>10 DEF Send
<1>12. \A m \in ms : m.type \in {"AppendEntries", "InstallSnapshot"}
  BY <1>10, BroadcastNoAck
<1>13. NoNewAck /\ NoNewGrant
  BY <1>11, <1>12 DEF NoNewAck, NoNewGrant
<1>14. Turns(lead, full, lead2, full2)
  BY <1>1, <1>3, <1>13, AppendedTurns
<1>15. /\ lead \in [Nat -> Seq(KnownEntries)]
       /\ lead2 \in [Nat -> Seq(KnownEntries)]
       /\ Onward(lead, lead2)
       /\ lead2[t] = L
       /\ full2[n] = L
       /\ \A k \in Nodes : k # n => full2[k] = full[k]
  BY <1>14 DEF Turns
<1>16. /\ UNCHANGED <<commitIndex, applied, committed>>
  BY DEF commitVars
<1>17. ByOne(n, full, full2)
  BY <1>7, <1>15, <1>16 DEF ByOne
<1>18. VotesCover(lead2, full2)' /\ CandidatesStay(full, full2)
  <2>1. CandidatesGoOn(full, full2)
    BY <1>15 DEF CandidatesGoOn
  <2> QED  BY <1>13, <1>14, <2>1, GoOnCovered
<1>19. NewLeadersCover(lead2)
  BY NoNewLeader
<1>20. ServerSettled(lead, F, n) /\ TableTrue(F, n)
  BY <1>1 DEF Commits
<1>21. PICK c \in Nat : c = commitIndex[n] /\ c <= Len(F)
  <2>1. commitIndex[n] \in Nat
    BY IndexTypes
  <2> QED  BY <1>20, <2>1 DEF ServerSettled, IsImage
<1>22. SameUpTo(F, L, c) /\ SameUpTo(L, F, c)
  BY <1>4, <1>21, SameLess, SameSymmetric
<1>23. ServerSettled(lead2, L, n)'
  BY <1>4, <1>15, <1>16, <1>20, <1>21, <1>22, SameServerSettled
<1>24. TableTrue(L, n)'
  <2> SUFFICES ASSUME NEW p \in Nodes
               PROVE  /\ nextIndex[n][p] <= Len(L) + 1
                      /\ matchIndex'[n][p] > 0 => Acked(p, term[n], matchIndex[n][p])'
    BY DEF TableTrue
  <2>1. nextIndex[n][p] <= Len(L) + 1
    <3>1. nextIndex[n][p] <= Len(F) + 1 /\ nextIndex[n][p] \in Nat
      BY <1>7, <1>20 DEF TableTrue
    <3> QED  BY <1>4, <3>1
  <2>2. CASE p = n
    <3>1. <<t, n>> \in leadersByTerm'
      BY DEF Records
    <3> QED  BY <2>1, <2>2, <3>1 DEF Acked
  <2>3. CASE p # n
    <3>1. PICK i : i = matchIndex[n][p]
      OBVIOUS
    <3>2. ASSUME i > 0 PROVE Acked(p, t, i)'
      BY <1>15, <1>20, <3>1, <3>2, AckedGrows DEF TableTrue
    <3>3. matchIndex'[n][p] = i
      BY <1>7, <2>3, <3>1
    <3> QED  BY <2>1, <3>2, <3>3
  <2> QED  BY <2>2, <2>3
<1>25. \A m \in ms : TrueMessage(lead2, full2, m)'
  <2>1. Fits(L, lg, snapshot[n])
    BY <1>7, <1>15 DEF Logs
  <2>2. IsImage(snapshot[n].image, L, Base(n))
    BY <1>23 DEF ServerSettled, Base
  <2>3. Settled(lead2, L, t, c)'
    BY <1>16, <1>21, <1>23 DEF ServerSettled
  <2>4. \A p \in Nodes : nxt[p] <= Len(L) + 1
    BY <1>9, <1>24 DEF TableTrue
  <2> QED  BY <1>4, <1>8, <1>10, <1>15, <1>21, <2>1, <2>2, <2>3, <2>4, BroadcastTrue
<1>26. PICK recs : recs = {}
  OBVIOUS
<1>27. committed' \subseteq committed \cup recs
       /\ \A rec \in recs : RecordSettled(lead2, rec)'
  BY <1>16, <1>26
<1>28. ServerSettled(lead2, full2[n], n)' /\ TableTrue(full2[n], n)'
  BY <1>15, <1>23, <1>24
<1> QED  BY <1>11, <1>14, <1>17, <1>18, <1>19, <1>25, <1>27, <1>28, CommitsHold

LEMMA AppendCommits ==
    ASSUME Shape, Shape', Ballots, Records, Records', ElectionSafety',
           NEW lead, NEW full, Logs(lead, full), Commits(lead, full),
           NEW n \in Nodes, NEW c \in Clients, ClientCommand(n, c)
    PROVE  \E lead2, full2 : /\ Logs(lead2, full2)'
                             /\ Commits(lead2, full2)'
                             /\ Inherits(lead, full, lead2)
<1>1. PICK cmd \in KnownCommands, voters \in SUBSET Nodes :
        /\ cmd = Request(c, nextReq[c])
        /\ role[n] = "leader"
        /\ AppendAsLeader(n, cmd, voters)
        /\ UNCHANGED <<term, role, leadersByTerm, snapshot>>
        /\ UNCHANGED commitVars
  BY CommandCase
<1>2. UNCHANGED nextIndex
  BY DEF ClientCommand
<1>3. PICK t \in Nat : t = term[n]
  BY IndexTypes
<1>4. PICK L : L = Append(full[n], [term |-> t, cmd |-> cmd])
  OBVIOUS
<1>5. PICK lead2 : lead2 = [lead EXCEPT ![t] = L]
  OBVIOUS
<1>6. PICK full2 : full2 = [full EXCEPT ![n] = L]
  OBVIOUS
<1>7. Logs(lead2, full2)'
  BY <1>1, <1>3, <1>4, <1>5, <1>6, AppendedLogs
<1>8. Commits(lead2, full2)'
  BY <1>1, <1>2, <1>3, <1>4, <1>5, <1>6, <1>7, AppendedCommits
<1>9. Inherits(lead, full, lead2)
  BY <1>1, <1>3, <1>4, <1>5 DEF Inherits, Logs
<1> QED  BY <1>7, <1>8, <1>9

-----------------------------------------------------------------------------
(***************************************************************************)
(* Followers: what a leader's message leaves one with.                     *)
(***************************************************************************)
LEMMA SettledShared ==
    ASSUME NEW lead, NEW L \in Seq(KnownEntries), NEW M \in Seq(KnownEntries),
           NEW u \in Nat, NEW u2 \in Nat, u <= u2,
           NEW k \in Nat, NEW k2 \in Nat, k2 <= k, SameUpTo(M, L, k2),
           Settled(lead, L, u, k)
    PROVE  Settled(lead, M, u2, k2)
<1>1. CASE k2 = 0
  BY <1>1 DEF Settled
<1>2. CASE k2 # 0
  <2>1. k # 0 /\ Len(L) \in Nat
    BY <1>2, LoggedTypes
  <2>2. PICK t \in Nat : \E i \in Nat : /\ t <= u
                                         /\ k <= i
                                         /\ Chosen(lead, t, i)
                                         /\ SameUpTo(L, lead[t], k)
    BY <2>1 DEF Settled
  <2>3. PICK i \in Nat : t <= u /\ k <= i /\ Chosen(lead, t, i) /\ SameUpTo(L, lead[t], k)
    BY <2>2
  <2>4. t <= u2 /\ k2 <= i
    BY <2>3
  <2>5. SameUpTo(M, lead[t], k2)
    BY <2>3 DEF SameUpTo
  <2> QED  BY <2>3, <2>4, <2>5 DEF Settled
<1> QED  BY <1>1, <1>2

\* An observed commit is settled as what it was committed with.
LEMMA SettledRecord ==
    ASSUME NEW lead, NEW L \in Seq(KnownEntries), NEW t \in Nat, NEW k \in Nat,
           Settled(lead, L, t, k)', NEW rec, rec.index \in 1 .. k,
           rec.entry = L[rec.index], rec.term = t
    PROVE  RecordSettled(lead, rec)'
<1>1. PICK x \in Nat : \E i \in Nat : /\ x <= t
                                      /\ k <= i
                                      /\ Chosen(lead, x, i)'
                                      /\ SameUpTo(L, lead[x], k)
  BY DEF Settled
<1>2. PICK i \in Nat : x <= t /\ k <= i /\ Chosen(lead, x, i)' /\ SameUpTo(L, lead[x], k)
  BY <1>1
<1>3. rec.index \in 1 .. i
  BY <1>2
<1>4. rec.entry = lead[x][rec.index]
  BY <1>2 DEF SameUpTo
<1> QED  BY <1>2, <1>3, <1>4 DEF RecordSettled

\* A follower drops only what the leader it follows is without.
LEMMA BecomesLosses ==
    ASSUME Shape, NEW lead, NEW full, Logs(lead, full), NEW n \in Nodes,
           NEW t \in Nat, term[n] <= t, term'[n] = t, Led(t)',
           NEW F \in Seq(KnownEntries), F = full[n],
           NEW W \in Seq(KnownEntries), W = lead[t], NEW L, Becomes(F, W, L),
           NEW full2, full2 = [full EXCEPT ![n] = L]
    PROVE  LossesLawful(lead, full, full2)
<1> SUFFICES ASSUME NEW v \in Nodes, NEW x \in Nat, NEW i \in Nat, Has(full[v], x, i),
                    ~Has(full2[v], x, i)
             PROVE  Dropped(lead, x, i, term[v])'
  BY DEF LossesLawful
<1>1. v = n /\ full2[n] = L
  BY DEF Logs
<1>2. i \in 1 .. Len(F) /\ F[i].term = x
  BY <1>1 DEF Has
<1>3. ~Has(W, x, i)
  <2> SUFFICES ASSUME Has(W, x, i) PROVE FALSE
    OBVIOUS
  <2>1. i <= Len(L) /\ L[i] = F[i]
    BY <1>2 DEF Has, Becomes
  <2>2. Len(L) \in Nat
    BY LoggedTypes DEF Becomes
  <2>3. Has(L, x, i)
    BY <1>2, <2>1, <2>2 DEF Has
  <2> QED  BY <1>1, <2>3
<1>4. Traced(lead, F, term[n])
  BY DEF Logs
<1>5. x <= term[n] /\ SameUpTo(F, lead[x], i)
  BY <1>2, <1>4 DEF Traced
<1>6. x # t
  <2> SUFFICES ASSUME x = t PROVE FALSE
    OBVIOUS
  <2>1. i <= Len(W) /\ F[i] = W[i]
    BY <1>2, <1>5 DEF SameUpTo
  <2>2. Len(W) \in Nat
    BY LoggedTypes
  <2> QED  BY <1>2, <1>3, <2>1, <2>2 DEF Has
<1>7. t \in x + 1 .. t
  BY <1>5, <1>6, IndexTypes
<1> QED  BY <1>1, <1>3, <1>7 DEF Dropped

\* What a follower reports as stored it shares with the leader it reports to.
LEMMA FollowerTurns ==
    ASSUME Shape, NEW lead, NEW full, Logs(lead, full), NEW n \in Nodes,
           NEW t \in Nat, term[n] <= t, term'[n] = t, Led(t),
           \A k \in Nodes \ {n} : term'[k] = term[k], UNCHANGED leadersByTerm,
           NEW F \in Seq(KnownEntries), F = full[n],
           NEW W \in Seq(KnownEntries), W = lead[t], NEW L, Becomes(F, W, L),
           NEW full2, full2 = [full EXCEPT ![n] = L],
           NEW match \in Nat, SameUpTo(L, W, match),
           NEW p, Send({AppendReply(t, n, p, TRUE, match)})
    PROVE  Turns(lead, full, lead, full2)
<1>1. /\ lead \in [Nat -> Seq(KnownEntries)]
      /\ full \in [Nodes -> Seq(KnownEntries)]
      /\ full2 \in [Nodes -> Seq(KnownEntries)]
      /\ full2[n] = L
  BY DEF Logs, Becomes
<1>2. PICK r : r = AppendReply(t, n, p, TRUE, match)
  OBVIOUS
<1>3. /\ r.term = t
      /\ r.from = n
      /\ r.match = match
      /\ network \subseteq network'
      /\ network' \subseteq network \cup {r}
  BY <1>2 DEF Send, AppendReply
<1>4. \A k \in Nodes : term'[k] >= term[k]
  BY IndexTypes
<1>5. Onward(lead, lead)
  BY <1>1, <1>3, <1>4, OnwardSame
<1>6. AcksBacked(lead, lead, full2)
  <2> SUFFICES ASSUME NEW v \in Nodes, NEW x \in Nat, NEW i \in Nat, Has(lead[x], x, i),
                      Acked(v, x, i)', ~Acked(v, x, i)
               PROVE  x = term'[v] /\ Has(full2[v], x, i)
    BY DEF AcksBacked
  <2>1. r.term = x /\ r.from = v /\ r.match >= i
    BY <1>3 DEF Acked
  <2>2. Has(W, x, i) /\ i <= match
    BY <1>3, <2>1
  <2>3. Has(L, x, i)
    <3>1. i \in 1 .. match /\ W[i].term = x
      BY <2>2 DEF Has
    <3>2. Len(L) \in Nat
      BY LoggedTypes DEF Becomes
    <3>3. match <= Len(L) /\ L[i] = W[i]
      BY <3>1 DEF SameUpTo
    <3>4. i \in 1 .. Len(L)
      BY <3>1, <3>2, <3>3
    <3> QED  BY <3>1, <3>3, <3>4 DEF Has
  <2> QED  BY <1>1, <1>3, <2>1, <2>3
<1>7. LossesLawful(lead, full, full2)
  <2>1. Led(t)'
    BY DEF Led
  <2> QED  BY <2>1, BecomesLosses
<1> QED  BY <1>1, <1>5, <1>6, <1>7 DEF Turns

\* n follows the leader of term t, whose log is W: its own, F, becomes L, it
\* reports the first match entries of L to p, and has committed the first c.
Follows(lead, n, t, F, W, L, match, p, c) ==
    /\ term[n] <= t
    /\ term'[n] = t
    /\ role'[n] = "follower"
    /\ \A k \in Nodes \ {n} : /\ term'[k] = term[k]
                              /\ role'[k] = role[k]
                              /\ snapshot'[k] = snapshot[k]
                              /\ commitIndex'[k] = commitIndex[k]
                              /\ applied'[k] = applied[k]
    /\ UNCHANGED <<leadersByTerm, nextIndex, matchIndex>>
    /\ Led(t)
    /\ Becomes(F, W, L)
    /\ match \in Nat
    /\ SameUpTo(L, W, match)
    /\ Send({AppendReply(t, n, p, TRUE, match)})
    /\ c \in Nat
    /\ commitIndex'[n] = c
    /\ Settled(lead, L, t, c)
    /\ IsImage(applied'[n], L, c)
    /\ IsImage(snapshot'[n].image, L, Base(n)')
    /\ \A rec \in committed' : \/ rec \in committed
                               \/ /\ rec.index \in 1 .. c
                                  /\ rec.entry = L[rec.index]
                                  /\ rec.term = t

LEMMA FollowerCommits ==
    ASSUME Shape, Shape', Ballots, Records, NEW lead, NEW full, Logs(lead, full),
           Commits(lead, full), NoNewGrant, NEW n \in Nodes, NEW t \in Nat,
           NEW F \in Seq(KnownEntries), F = full[n],
           NEW W \in Seq(KnownEntries), W = lead[t], NEW L, NEW match, NEW p, NEW c,
           Follows(lead, n, t, F, W, L, match, p, c),
           NEW full2, full2 = [full EXCEPT ![n] = L]
    PROVE  Commits(lead, full2)'
<1>0. /\ term[n] <= t
      /\ term'[n] = t
      /\ role'[n] = "follower"
      /\ \A k \in Nodes \ {n} : /\ term'[k] = term[k]
                                /\ role'[k] = role[k]
                                /\ snapshot'[k] = snapshot[k]
                                /\ commitIndex'[k] = commitIndex[k]
                                /\ applied'[k] = applied[k]
      /\ UNCHANGED <<leadersByTerm, nextIndex, matchIndex>>
      /\ Led(t)
      /\ Becomes(F, W, L)
      /\ match \in Nat
      /\ SameUpTo(L, W, match)
      /\ Send({AppendReply(t, n, p, TRUE, match)})
      /\ c \in Nat
      /\ commitIndex'[n] = c
      /\ Settled(lead, L, t, c)
      /\ IsImage(applied'[n], L, c)
      /\ IsImage(snapshot'[n].image, L, Base(n)')
      /\ \A rec \in committed' : \/ rec \in committed
                                 \/ /\ rec.index \in 1 .. c
                                    /\ rec.entry = L[rec.index]
                                    /\ rec.term = t
  BY DEF Follows
<1>1. Turns(lead, full, lead, full2)
  BY <1>0, FollowerTurns
<1>2. /\ full2[n] = L
      /\ L \in Seq(KnownEntries)
      /\ lead \in [Nat -> Seq(KnownEntries)]
      /\ Onward(lead, lead)
      /\ \A k \in Nodes : k # n => full2[k] = full[k]
  BY <1>0, <1>1 DEF Turns, Becomes
<1>3. ByOne(n, full, full2)
  BY <1>0, <1>2 DEF ByOne
<1>4. VotesCover(lead, full2)' /\ CandidatesStay(full, full2)
  <2>1. CandidatesGoOn(full, full2)
    BY <1>0, <1>2 DEF CandidatesGoOn
  <2> QED  BY <1>0, <1>1, <2>1, GoOnCovered
<1>5. NewLeadersCover(lead)
  BY <1>0, NoNewLeader
<1>6. Settled(lead, L, t, c)'
  <2>1. SameUpTo(L, L, c)
    BY <1>0 DEF IsImage, SameUpTo
  <2> QED  BY <1>0, <1>2, <2>1, SettledStays
<1>7. ServerSettled(lead, full2[n], n)'
  BY <1>0, <1>2, <1>6 DEF ServerSettled
<1>8. TableTrue(full2[n], n)'
  BY <1>0 DEF TableTrue
<1>9. PICK recs : recs = committed' \ committed
  OBVIOUS
<1>10. committed' \subseteq committed \cup recs
       /\ \A rec \in recs : RecordSettled(lead, rec)'
  <2>1. ASSUME NEW rec \in recs PROVE RecordSettled(lead, rec)'
    <3>1. rec.index \in 1 .. c /\ rec.entry = L[rec.index] /\ rec.term = t
      BY <1>0, <1>9
    <3>2. L \in Seq(KnownEntries) /\ t \in Nat /\ c \in Nat
      BY <1>0, <1>2
    <3> QED  BY ONLY <1>6, <3>1, <3>2, SettledRecord
  <2> QED  BY <1>9, <2>1
<1>11. PICK ms : ms = {AppendReply(t, n, p, TRUE, match)}
  OBVIOUS
<1>12. network' \subseteq network \cup ms
  BY <1>0, <1>11, SentSubset
<1>13. \A m \in ms : TrueMessage(lead, full2, m)'
  <2>1. match <= Len(W)
    BY <1>0 DEF SameUpTo
  <2>2. t <= term'[n]
    BY <1>0
  <2> QED  BY <1>0, <1>11, <2>1, <2>2 DEF AppendReply, TrueMessage
<1> QED  BY <1>0, <1>1, <1>3, <1>4, <1>5, <1>7, <1>8, <1>10, <1>12, <1>13, CommitsHold

-----------------------------------------------------------------------------
(***************************************************************************)
(* _set_commit_index: what it commits, applies and compacts is the log.    *)
(***************************************************************************)
LEMMA AppliedImage ==
    ASSUME Shape, NEW n \in Nodes, NEW L \in Seq(KnownEntries),
           NEW lg \in Seq(KnownEntries), Fits(L, lg, snapshot[n]), NEW ci \in Nat,
           ci > commitIndex[n], ci <= Len(L), IsImage(applied[n], L, commitIndex[n]),
           NEW fed, fed = [i \in 1 .. ci - commitIndex[n] |->
                             lg[commitIndex[n] - Base(n) + i].cmd]
    PROVE  IsImage(applied[n] \o fed, L, ci)
<1>1. PICK o \in Nat, b \in Nat : o = commitIndex[n] /\ b = Base(n) /\ b <= o
  BY IndexTypes
<1>2. PICK s \in Seq(KnownCommands) : s = applied[n] /\ Len(s) = o
  BY <1>1 DEF Shape, ShapedLogs
<1>3. \A i \in 1 .. ci - o : lg[o - b + i] = L[o + i]
  <2> SUFFICES ASSUME NEW i \in 1 .. ci - o PROVE lg[o - b + i] = L[o + i]
    OBVIOUS
  <2>1. Len(L) \in Nat
    BY LoggedTypes
  <2>2. o + i \in b + 1 .. Len(L)
    <3>1. PICK e \in Nat : e = Len(L)
      BY <2>1
    <3>2. i <= e - o
      BY <1>1, <3>1
    <3>3. b <= o /\ i > 0 /\ i \in Int
      BY <1>1
    <3>4. o + i \in b + 1 .. e
      BY ONLY <1>1, <3>1, <3>2, <3>3
    <3> QED  BY <3>1, <3>4
  <2>3. (o + i) - b = o - b + i
    BY <1>1
  <2>4. L[o + i] = lg[(o + i) - b]
    BY <1>1, <2>2 DEF Fits, Base
  <2> QED  BY <2>3, <2>4
<1>4. fed = [i \in 1 .. ci - o |-> lg[o - b + i].cmd]
  BY <1>1
<1>5. \A i \in 1 .. ci - o : fed[i] = L[o + i].cmd
  BY <1>3, <1>4
<1>6. fed \in Seq(KnownCommands) /\ Len(fed) = ci - o
  <2>1. ASSUME NEW i \in 1 .. ci - o PROVE L[o + i].cmd \in KnownCommands
    <3>1. o + i \in 1 .. Len(L)
      BY LoggedTypes
    <3>2. L[o + i] \in KnownEntries
      BY <3>1, LoggedTypes
    <3> QED  BY <3>2 DEF KnownEntries
  <2>2. fed \in [1 .. ci - o -> KnownCommands]
    BY <1>3, <1>4, <2>1
  <2>3. ci - o \in Nat
    BY <1>1
  <2> QED  BY <2>2, <2>3, FunctionIsSeq
<1>7. ASSUME NEW j \in 1 .. ci PROVE (s \o fed)[j] = L[j].cmd
  <2>1. CASE ~(j > o)
    <3>1. j \in 1 .. o
      BY <2>1
    <3>2. s[j] = L[j].cmd
      BY <1>1, <1>2, <3>1 DEF IsImage
    <3>3. (s \o fed)[j] = s[j]
      BY ONLY <1>2, <1>6, <3>1, ConcatProperties
    <3> QED  BY <3>2, <3>3
  <2>2. CASE j > o
    <3>1. PICK i \in 1 .. ci - o : i = j - o /\ o + i = j /\ o < j /\ j <= ci
      BY <2>2
    <3>2. j \in o + 1 .. o + (ci - o) /\ i = j - o
      BY <3>1
    <3>3. j \in Len(s) + 1 .. Len(s) + Len(fed) /\ i = j - Len(s)
      BY ONLY <1>2, <1>6, <3>2
    <3>4. (s \o fed)[j] = fed[i]
      BY ONLY <1>2, <1>6, <3>3, ConcatProperties
    <3> QED  BY <1>5, <3>1, <3>4
  <2> QED  BY <2>1, <2>2
<1> QED  BY <1>2, <1>7 DEF IsImage

LEMMA SetCommitImages ==
    ASSUME Shape, NEW n \in Nodes, NEW L \in Seq(KnownEntries),
           NEW lg \in Seq(KnownEntries), Fits(L, lg, snapshot[n]), NEW ci \in Nat,
           ci >= commitIndex[n], ci > commitIndex[n] => ci <= Len(L),
           NEW t, SetCommitIndex(n, lg, ci, t),
           IsImage(applied[n], L, commitIndex[n]), IsImage(snapshot[n].image, L, Base(n))
    PROVE  /\ commitIndex'[n] = ci
           /\ IsImage(applied'[n], L, ci)
           /\ IsImage(snapshot'[n].image, L, Base(n)')
           /\ \A k \in Nodes \ {n} : /\ snapshot'[k] = snapshot[k]
                                     /\ commitIndex'[k] = commitIndex[k]
                                     /\ applied'[k] = applied[k]
           /\ \A rec \in committed' : \/ rec \in committed
                                      \/ /\ rec.index \in 1 .. ci
                                         /\ rec.entry = L[rec.index]
                                         /\ rec.term = t
<1>1. PICK o \in Nat, b \in Nat : o = commitIndex[n] /\ b = Base(n) /\ b <= o
  BY IndexTypes
<1>2. CASE ci <= commitIndex[n]
  <2>1. UNCHANGED <<snapshot, commitIndex, applied, committed>> /\ ci = commitIndex[n]
    BY <1>1, <1>2 DEF SetCommitIndex, commitVars
  <2> QED  BY <2>1 DEF Base
<1>3. CASE ci > commitIndex[n]
  <2> DEFINE f == [i \in 1 .. ci - commitIndex[n] |->
                     lg[commitIndex[n] - Base(n) + i].cmd]
  <2>1. ~(ci <= commitIndex[n])
    BY <1>1, <1>3
  <2>2. PICK fed, history : fed = f /\ history = applied[n] \o fed
    OBVIOUS
  <2>3. /\ commitIndex' = [commitIndex EXCEPT ![n] = ci]
        /\ applied' = [applied EXCEPT ![n] = history]
        /\ Observe(n, lg, ci, t)
        /\ \/ snapshot' = [snapshot EXCEPT ![n] = Compacted(n, lg, ci, history)]
           \/ UNCHANGED snapshot
    BY <2>1, <2>2, Zenon DEF SetCommitIndex
  <2>4. IsImage(history, L, ci)
    BY <1>3, <2>2, AppliedImage
  <2> HIDE DEF f
  <2>5. /\ commitIndex'[n] = ci
        /\ applied'[n] = history
        /\ snapshot \in [Nodes -> KnownSnapshots]
        /\ \A k \in Nodes \ {n} : /\ snapshot'[k] = snapshot[k]
                                  /\ commitIndex'[k] = commitIndex[k]
                                  /\ applied'[k] = applied[k]
    BY <2>3 DEF Shape, ShapedLogs
  <2>6. IsImage(snapshot'[n].image, L, Base(n)')
    <3>1. CASE UNCHANGED snapshot
      BY <3>1 DEF Base
    <3>2. CASE snapshot' = [snapshot EXCEPT ![n] = Compacted(n, lg, ci, history)]
      <4>1. snapshot'[n].image = history /\ snapshot'[n].lastIndex = ci
        BY <2>5, <3>2 DEF Compacted
      <4> QED  BY <2>4, <4>1 DEF Base
    <3> QED  BY <2>3, <3>1, <3>2
  <2>7. ASSUME NEW rec \in committed', rec \notin committed
        PROVE  rec.index \in 1 .. ci /\ rec.entry = L[rec.index] /\ rec.term = t
    <3>1. PICK i \in commitIndex[n] + 1 .. ci :
            rec = [index |-> i, entry |-> lg[i - Base(n)], term |-> t]
      BY <2>3, <2>7 DEF Observe
    <3>2. i \in 1 .. ci /\ i \in b + 1 .. Len(L)
      BY <1>1, <1>3, <3>1, LoggedTypes
    <3>3. L[i] = lg[i - b]
      BY <1>1, <3>2 DEF Fits, Base
    <3> QED  BY <1>1, <3>1, <3>2, <3>3
  <2> QED  BY <2>4, <2>5, <2>6, <2>7
<1> QED  BY <1>1, <1>2, <1>3

-----------------------------------------------------------------------------
(***************************************************************************)
(* AppendEntries.                                                          *)
(***************************************************************************)
\* A message that a follower finds consistent makes its log the leader's up to
\* the last entry sent, and leaves what it has committed alone.
LEMMA MergesShare ==
    ASSUME Shape, NEW lead, NEW full, Logs(lead, full), Commits(lead, full),
           NEW n \in Nodes, NEW m \in network, Merges(n, m), NEW a, a = AboveBase(n, m),
           NEW t \in Nat, t = m.term, NEW F \in Seq(KnownEntries), F = full[n],
           NEW W \in Seq(KnownEntries), W = lead[t], NEW L, L = MergedWhole(n, F, W, a),
           NEW match, match = a.prevIndex + Len(a.entries),
           NEW c \in Nat, c = commitIndex[n]
    PROVE  /\ Becomes(F, W, L)
           /\ Fits(L, Merged(n, a).log, snapshot[n])
           /\ match \in Nat
           /\ SameUpTo(L, W, match)
           /\ SameUpTo(L, F, c)
<1>1. /\ Fits(F, log[n], snapshot[n])
      /\ Traced(lead, F, term[n])
      /\ Traced(lead, W, t)
      /\ Led(t)
      /\ TracedMessage(W, m)
      /\ Leads(lead)
  BY DEF Logs, Merges, Leads
<1>2. m.type = "AppendEntries" /\ Consistent(n, a) /\ t >= term[n]
  BY DEF Merges
<1>3. m.prevIndex \in Nat
  BY <1>2 DEF Shape, ShapedNetwork, ShapedMessage
<1>4. Anchored(W, m)
  BY <1>2, <1>3 DEF Commits, TrueMessage, Anchored
<1>5. /\ Carries(W, a)
      /\ Anchored(W, a)
      /\ Len(a.entries) > 0 => Base(n) <= a.prevIndex
      /\ a.prevIndex >= Base(n) \/ match < Base(n)
  BY <1>1, <1>2, <1>4, AboveBaseTraced
<1>6. Both(n, F, W, lead, term[n], t)
  BY <1>1 DEF Both
<1>7. /\ Becomes(F, W, L)
      /\ Fits(L, Merged(n, a).log, snapshot[n])
      /\ Len(a.entries) > 0 => SameUpTo(L, W, match)
      /\ L # F => \A i \in Nat : SameUpTo(F, W, i) => SameUpTo(F, L, i)
  BY <1>2, <1>5, <1>6, MergedTraced
<1>8. /\ a.prevIndex \in Nat
      /\ Len(a.entries) \in Nat
      /\ match \in Nat
      /\ Base(n) \in Nat
      /\ Base(n) <= c
      /\ Len(F) \in Nat
      /\ Len(W) \in Nat
  <2>1. a.prevIndex \in Nat /\ Len(a.entries) \in Nat
    BY <1>5 DEF Carries
  <2> QED  BY <2>1, IndexTypes, LoggedTypes
<1>9. ServerSettled(lead, F, n)
  BY DEF Commits
<1>10. SameUpTo(F, W, c)
  <2>1. PICK u \in Nat : u = term[n] /\ u <= t
    BY <1>2, IndexTypes
  <2>2. Settled(lead, F, u, c)
    BY <1>9, <2>1 DEF ServerSettled
  <2> QED  BY <1>1, <2>1, <2>2, SettledInLeader
<1>11. SameUpTo(L, F, c)
  <2>1. CASE L = F
    BY <1>10, <2>1 DEF SameUpTo
  <2>2. CASE L # F
    BY <1>7, <1>10, <2>2, SameSymmetric
  <2> QED  BY <2>1, <2>2
<1>12. SameUpTo(L, W, match)
  <2>1. CASE Len(a.entries) > 0
    BY <1>7, <2>1
  <2>2. CASE Len(a.entries) = 0
    <3>1. match = a.prevIndex
      BY <1>8, <2>2
    <3>2. Conflicts(n, a) = {}
      BY <1>8, <2>2 DEF Conflicts
    <3>3. L = F
      BY <3>2 DEF MergedWhole
    <3>4. CASE a.prevIndex >= Base(n)
      <4>1. Base(n) <= a.prevIndex
        BY <1>8, <3>4
      <4>2. SameUpTo(F, W, a.prevIndex)
        BY <1>1, <1>2, <1>5, <1>8, <4>1, ConsistentPrefix
      <4> QED  BY <3>1, <3>3, <4>2
    <3>5. CASE match < Base(n)
      <4>1. match <= c
        BY <1>8, <3>5
      <4>2. SameUpTo(F, W, match)
        BY <1>8, <1>10, <4>1, SameLess
      <4> QED  BY <3>3, <4>2
    <3> QED  BY <1>5, <3>4, <3>5
  <2> QED  BY <1>8, <2>1, <2>2
<1> QED  BY <1>7, <1>8, <1>11, <1>12

LEMMA MergesCommits ==
    ASSUME Shape, Shape', Ballots, Records, NEW lead, NEW full, Logs(lead, full),
           Commits(lead, full), NEW n \in Nodes, NEW m \in network, Merges(n, m),
           NoNewGrant, UNCHANGED <<nextIndex, matchIndex>>,
           NEW a, a = AboveBase(n, m), NEW t \in Nat, t = m.term,
           NEW L, L = MergedWhole(n, full[n], lead[t], a),
           NEW full2, full2 = [full EXCEPT ![n] = L]
    PROVE  Commits(lead, full2)'
<1>1. PICK F \in Seq(KnownEntries), W \in Seq(KnownEntries) : F = full[n] /\ W = lead[t]
  BY DEF Logs
<1>2. PICK match : match = a.prevIndex + Len(a.entries)
  OBVIOUS
<1>3. PICK o \in Nat : o = commitIndex[n]
  BY IndexTypes
<1>4. PICK lg : lg = Merged(n, a).log
  OBVIOUS
<1>5. L = MergedWhole(n, F, W, a)
  BY <1>1
<1>6. /\ Becomes(F, W, L)
      /\ Fits(L, lg, snapshot[n])
      /\ match \in Nat
      /\ SameUpTo(L, W, match)
      /\ SameUpTo(L, F, o)
  BY <1>1, <1>2, <1>3, <1>4, <1>5, MergesShare
<1>7. PICK c : c = FollowerCommit(n, m, match)
  OBVIOUS
<1>8. /\ m.type = "AppendEntries"
      /\ t >= term[n]
      /\ FollowLeader(n, t)
      /\ SetCommitIndex(n, lg, c, t)
      /\ Send({AppendReply(t, n, m.from, TRUE, match)})
      /\ UNCHANGED leadersByTerm
  BY <1>2, <1>4, <1>7 DEF Merges
<1>9. /\ c \in Nat
      /\ c >= commitIndex[n]
      /\ c > commitIndex[n] => c <= match /\ c <= m.commit
  BY <1>6, <1>7, <1>8, FollowerCommitBounds
<1>10. L \in Seq(KnownEntries) /\ Len(L) \in Nat /\ match <= Len(L)
  BY <1>6, LoggedTypes DEF Becomes, SameUpTo
<1>11. lg \in Seq(KnownEntries)
  <2>1. /\ AboveBase(n, m).prevIndex \in Nat
        /\ AboveBase(n, m).entries \in Seq(KnownEntries)
    BY <1>8, AboveBaseShaped
  <2>2. Consistent(n, a)
    BY DEF Merges
  <2> QED  BY <1>4, <2>1, <2>2, MergedShaped
<1>12. ServerSettled(lead, F, n)
  BY <1>1 DEF Commits
<1>13. IsImage(applied[n], L, commitIndex[n]) /\ IsImage(snapshot[n].image, L, Base(n))
  <2>1. o <= o
    OBVIOUS
  <2>2. PICK b \in Nat : b = Base(n) /\ b <= o
    BY <1>3, IndexTypes
  <2>3. IsImage(applied[n], F, o) /\ IsImage(snapshot[n].image, F, b)
    BY <1>3, <1>12, <2>2 DEF ServerSettled
  <2>4. IsImage(applied[n], L, o)
    BY <1>6, <1>10, <2>1, <2>3, ImageGrows
  <2>5. IsImage(snapshot[n].image, L, b)
    BY <1>6, <1>10, <2>2, <2>3, ImageGrows
  <2> QED  BY <1>3, <2>2, <2>4, <2>5
<1>14. c > commitIndex[n] => c <= Len(L)
  BY <1>6, <1>9, <1>10
<1>15. /\ commitIndex'[n] = c
       /\ IsImage(applied'[n], L, c)
       /\ IsImage(snapshot'[n].image, L, Base(n)')
       /\ \A k \in Nodes \ {n} : /\ snapshot'[k] = snapshot[k]
                                 /\ commitIndex'[k] = commitIndex[k]
                                 /\ applied'[k] = applied[k]
       /\ \A rec \in committed' : \/ rec \in committed
                                  \/ /\ rec.index \in 1 .. c
                                     /\ rec.entry = L[rec.index]
                                     /\ rec.term = t
  BY <1>6, <1>8, <1>9, <1>10, <1>11, <1>13, <1>14, SetCommitImages
<1>16. PICK u \in Nat : u = term[n] /\ u <= t
  BY <1>8, IndexTypes
<1>17. Settled(lead, L, t, c)
  <2>1. CASE c = o
    <3>1. Settled(lead, F, u, o) /\ o <= o
      BY <1>3, <1>12, <1>16 DEF ServerSettled
    <3>2. Settled(lead, L, t, o)
      BY <1>6, <1>10, <1>16, <3>1, SettledShared
    <3> QED  BY <2>1, <3>2
  <2>2. CASE c > o
    <3>1. c <= match /\ c <= m.commit
      BY <1>3, <1>9, <2>2
    <3>2. m.commit \in Nat
      BY <1>8 DEF Shape, ShapedNetwork, ShapedMessage
    <3>3. Settled(lead, W, t, m.commit)
      BY <1>1, <1>8 DEF Commits, TrueMessage
    <3>4. SameUpTo(L, W, c)
      BY <1>6, <1>9, <1>10, <3>1, LoggedTypes, SameLess
    <3>5. PICK k \in Nat : k = m.commit /\ c <= k /\ t <= t
      BY <3>1, <3>2
    <3> QED  BY <1>9, <1>10, <3>3, <3>4, <3>5, SettledShared
  <2> QED  BY <1>3, <1>9, <2>1, <2>2
<1>18. /\ term'[n] = t
       /\ role'[n] = "follower"
       /\ \A k \in Nodes \ {n} : term'[k] = term[k] /\ role'[k] = role[k]
  BY <1>8, FollowLeaderApart
<1>19. Led(t)
  BY <1>8 DEF Logs
<1>20. term[n] <= t
  BY <1>16
<1>21. PICK p : p = m.from
  OBVIOUS
<1>22. /\ UNCHANGED <<leadersByTerm, nextIndex, matchIndex>>
       /\ Send({AppendReply(t, n, p, TRUE, match)})
  BY <1>8, <1>21
<1>23. Follows(lead, n, t, F, W, L, match, p, c)
  BY ONLY <1>6, <1>9, <1>15, <1>17, <1>18, <1>19, <1>20, <1>22 DEF Follows
<1> QED  BY <1>1, <1>23, FollowerCommits

LEMMA AppendEntriesCommits ==
    ASSUME Shape, Shape', Ballots, Records, NEW lead, NEW full, Logs(lead, full),
           Commits(lead, full), NEW n \in Nodes, NEW m \in network,
           HandleAppendEntries(n, m)
    PROVE  \E full2 : Logs(lead, full2)' /\ Commits(lead, full2)'
<1>1. Calm /\ NoNewGrant /\ UNCHANGED <<nextIndex, matchIndex>>
  BY AppendEntriesCalm DEF HandleAppendEntries, leaderVars
<1>2. CASE Merges(n, m)
  <2>1. m.type = "AppendEntries"
    BY <1>2 DEF Merges
  <2>2. PICK t \in Nat : t = m.term
    BY <2>1 DEF Shape, ShapedNetwork, ShapedMessage
  <2>3. PICK a : a = AboveBase(n, m)
    OBVIOUS
  <2>4. PICK L : L = MergedWhole(n, full[n], lead[t], a)
    OBVIOUS
  <2>5. PICK full2 : full2 = [full EXCEPT ![n] = L]
    OBVIOUS
  <2>6. Logs(lead, full2)'
    BY <1>2, <2>2, <2>3, <2>4, <2>5, MergesLogs
  <2>7. Commits(lead, full2)'
    BY <1>1, <1>2, <2>2, <2>3, <2>4, <2>5, MergesCommits
  <2> QED  BY <2>6, <2>7
<1>3. CASE ~Merges(n, m)
  <2>1. /\ UNCHANGED <<log, snapshot, leadersByTerm>>
        /\ UNCHANGED commitVars
        /\ Apart(n)
        /\ NoNewEntries
        /\ \E t \in Nat : Send({AppendReply(t, n, m.from, FALSE, 0)})
    BY <1>3, AppendEntriesCases
  <2>2. Logs(lead, full)'
    <3>1. /\ leadersByTerm \subseteq leadersByTerm'
          /\ term'[n] >= term[n]
          /\ role'[n] = "leader" => role[n] = "leader" /\ term'[n] = term[n]
      BY <1>1, <2>1 DEF Calm
    <3> QED  BY <2>1, <3>1, SilentLogs
  <2>3. network \subseteq network' /\ \A r \in network' : r \in network \/ Harmless(r)
    BY <2>1, HarmlessReply
  <2>4. UNCHANGED <<snapshot, commitIndex, applied, committed, nextIndex, matchIndex>>
    BY <1>1, <2>1 DEF commitVars
  <2>5. Commits(lead, full)'
    BY <1>1, <2>3, <2>4, HarmlessCommits
  <2> QED  BY <2>2, <2>5
<1> QED  BY <1>2, <1>3

-----------------------------------------------------------------------------
(***************************************************************************)
(* InstallSnapshot.                                                        *)
(***************************************************************************)
\* A server that installs a snapshot commits what its leader had committed.
LEMMA InstallsCommits ==
    ASSUME Shape, Shape', Ballots, Records, NEW lead, NEW full, Logs(lead, full),
           Commits(lead, full), NEW n \in Nodes, NEW m \in network, Installs(n, m),
           NoNewGrant, UNCHANGED <<nextIndex, matchIndex>>,
           NEW s, s = m.snapshot, NEW t \in Nat, t = m.term,
           NEW L, L = InstalledWhole(n, full[n], lead[t], s),
           NEW full2, full2 = [full EXCEPT ![n] = L]
    PROVE  Commits(lead, full2)'
<1>1. PICK F \in Seq(KnownEntries), W \in Seq(KnownEntries) : F = full[n] /\ W = lead[t]
  BY DEF Logs
<1>2. /\ FollowLeader(n, t)
      /\ m.type = "InstallSnapshot"
      /\ t >= term[n]
      /\ ~Covered(n, s)
      /\ UNCHANGED <<leadersByTerm, committed>>
  BY DEF Installs
<1>3. /\ TracedMessage(W, m)
      /\ Led(t)
      /\ Fits(F, log[n], snapshot[n])
      /\ Traced(lead, F, term[n])
      /\ Traced(lead, W, t)
  BY <1>1, <1>2 DEF Logs
<1>4. s.lastIndex \in 1 .. Len(W) /\ s.lastTerm = W[s.lastIndex].term
  BY <1>2, <1>3 DEF TracedMessage
<1>5. PICK c \in Nat : c = s.lastIndex
  BY <1>4
<1>6. /\ Becomes(F, W, L)
      /\ SameUpTo(L, W, c)
  <2>1. Both(n, F, W, lead, term[n], t)
    BY <1>1, <1>3 DEF Both
  <2>2. L = InstalledWhole(n, F, W, s)
    BY <1>1
  <2> QED  BY <1>2, <1>4, <1>5, <2>1, <2>2, InstalledTraced
<1>7. L \in Seq(KnownEntries)
  BY <1>6 DEF Becomes
<1>8. Settled(lead, W, t, c) /\ IsImage(s.image, W, c)
  BY <1>1, <1>2, <1>5 DEF Commits, TrueMessage
<1>9. Settled(lead, L, t, c) /\ IsImage(s.image, L, c)
  <2>1. c <= c /\ t <= t
    OBVIOUS
  <2>2. IsImage(s.image, L, c)
    BY <1>6, <1>7, <1>8, <2>1, ImageGrows
  <2>3. Settled(lead, L, t, c)
    BY <1>6, <1>7, <1>8, <2>1, SettledShared
  <2> QED  BY <2>2, <2>3
<1>10. /\ term'[n] = t
       /\ role'[n] = "follower"
       /\ \A k \in Nodes \ {n} : term'[k] = term[k] /\ role'[k] = role[k]
  BY <1>2, FollowLeaderApart
<1>11. /\ commitIndex'[n] = c
       /\ applied'[n] = s.image
       /\ snapshot'[n] = s
       /\ \A k \in Nodes \ {n} : /\ snapshot'[k] = snapshot[k]
                                 /\ commitIndex'[k] = commitIndex[k]
                                 /\ applied'[k] = applied[k]
  BY <1>5 DEF Installs, Shape, ShapedLogs
<1>12. Base(n)' = c
  BY <1>5, <1>11 DEF Base
<1>13. PICK p : p = m.from
  OBVIOUS
<1>14. Send({AppendReply(t, n, p, TRUE, c)})
  BY <1>5, <1>13 DEF Installs
<1>15. term[n] <= t
  BY <1>2, IndexTypes
<1>16. Follows(lead, n, t, F, W, L, c, p, c)
  BY ONLY <1>2, <1>3, <1>5, <1>6, <1>9, <1>10, <1>11, <1>12, <1>14, <1>15,
          UNCHANGED <<nextIndex, matchIndex>> DEF Follows
<1> QED  BY <1>1, <1>16, FollowerCommits

\* A server that a snapshot tells nothing new reports what it has committed, and
\* no more, as stored.
LEMMA CoveredCommits ==
    ASSUME Shape, Shape', Ballots, Records, NEW lead, NEW full, Logs(lead, full),
           Commits(lead, full), NEW n \in Nodes, NEW m \in network,
           m.type = "InstallSnapshot", m.term >= term[n], term'[n] = m.term,
           role'[n] = "follower", Apart(n),
           Send({AppendReply(m.term, n, m.from, TRUE, CoveredMatch(n))}),
           UNCHANGED <<snapshot, leadersByTerm, commitIndex, applied, committed>>,
           NoNewGrant, UNCHANGED <<nextIndex, matchIndex>>
    PROVE  Commits(lead, full)'
<1>1. PICK t \in Nat : t = m.term
  BY DEF Shape, ShapedNetwork, ShapedMessage
<1>2. PICK F \in Seq(KnownEntries), W \in Seq(KnownEntries) : F = full[n] /\ W = lead[t]
  BY DEF Logs
<1>3. PICK c \in Nat : c = commitIndex[n]
  BY IndexTypes
<1>4. PICK u \in Nat : u = term[n] /\ u <= t
  BY <1>1, IndexTypes
<1>5. Led(t) /\ Leads(lead)
  BY <1>1 DEF Logs, Leads
<1>6. ServerSettled(lead, F, n)
  BY <1>2 DEF Commits
<1>7. Settled(lead, F, u, c)
  BY <1>3, <1>4, <1>6 DEF ServerSettled
<1>8. SameUpTo(F, W, c)
  BY <1>2, <1>4, <1>5, <1>7, SettledInLeader
<1>9. Settled(lead, F, t, c)
  <2>1. SameUpTo(F, F, c) /\ c <= c
    BY <1>8 DEF SameUpTo
  <2> QED  BY <1>4, <1>7, <2>1, SettledShared
<1>10. Becomes(F, W, F)
  BY LoggedTypes DEF Becomes
<1>11. IsImage(applied'[n], F, c) /\ IsImage(snapshot'[n].image, F, Base(n)')
  BY <1>3, <1>6 DEF ServerSettled, Base
<1>12. PICK p : p = m.from
  OBVIOUS
<1>13. Send({AppendReply(t, n, p, TRUE, c)})
  BY <1>1, <1>3, <1>12 DEF CoveredMatch
<1>14. \A k \in Nodes \ {n} : /\ term'[k] = term[k]
                              /\ role'[k] = role[k]
                              /\ snapshot'[k] = snapshot[k]
                              /\ commitIndex'[k] = commitIndex[k]
                              /\ applied'[k] = applied[k]
  BY DEF Apart
<1>15. /\ term[n] <= t
       /\ term'[n] = t
       /\ commitIndex'[n] = c
       /\ \A rec \in committed' : rec \in committed
  BY <1>1, <1>3, <1>4
<1>16. Follows(lead, n, t, F, W, F, c, p, c)
  BY <1>5, <1>8, <1>9, <1>10, <1>11, <1>13, <1>14, <1>15 DEF Follows
<1>17. PICK full2 : full2 = [full EXCEPT ![n] = F]
  OBVIOUS
<1>18. Commits(lead, full2)'
  BY <1>2, <1>16, <1>17, FollowerCommits
<1>19. full2 = full
  BY <1>2, <1>17 DEF Logs
<1> QED  BY <1>18, <1>19

LEMMA InstallSnapshotCommits ==
    ASSUME Shape, Shape', Ballots, Records, NEW lead, NEW full, Logs(lead, full),
           Commits(lead, full), NEW n \in Nodes, NEW m \in network,
           HandleInstallSnapshot(n, m)
    PROVE  \E full2 : Logs(lead, full2)' /\ Commits(lead, full2)'
<1>1. /\ Calm
      /\ NoNewGrant
      /\ UNCHANGED <<nextIndex, matchIndex>>
      /\ m.type = "InstallSnapshot"
  BY InstallSnapshotCalm DEF HandleInstallSnapshot, leaderVars
<1>2. CASE Installs(n, m)
  <2>1. PICK t \in Nat : t = m.term
    BY <1>1 DEF Shape, ShapedNetwork, ShapedMessage
  <2>2. PICK s : s = m.snapshot
    OBVIOUS
  <2>3. PICK L : L = InstalledWhole(n, full[n], lead[t], s)
    OBVIOUS
  <2>4. PICK full2 : full2 = [full EXCEPT ![n] = L]
    OBVIOUS
  <2>5. Logs(lead, full2)'
    BY <1>2, <2>1, <2>2, <2>3, <2>4, InstallsLogs
  <2>6. Commits(lead, full2)'
    BY <1>1, <1>2, <2>1, <2>2, <2>3, <2>4, InstallsCommits
  <2> QED  BY <2>5, <2>6
<1>3. CASE /\ UNCHANGED <<log, snapshot, leadersByTerm, commitIndex, applied, committed>>
           /\ Apart(n)
           /\ NoNewEntries
           /\ \/ /\ UNCHANGED <<term, role>>
                 /\ Send({AppendReply(term[n], n, m.from, FALSE, 0)})
              \/ /\ m.term >= term[n]
                 /\ term'[n] = m.term
                 /\ role'[n] = "follower"
                 /\ Send({AppendReply(m.term, n, m.from, TRUE, CoveredMatch(n))})
  <2>1. Logs(lead, full)'
    <3>1. /\ leadersByTerm \subseteq leadersByTerm'
          /\ term'[n] >= term[n]
          /\ role'[n] = "leader" => role[n] = "leader" /\ term'[n] = term[n]
      BY <1>1, <1>3 DEF Calm
    <3> QED  BY <1>3, <3>1, SilentLogs
  <2>2. Commits(lead, full)'
    <3>1. CASE Send({AppendReply(term[n], n, m.from, FALSE, 0)})
      <4>1. network \subseteq network' /\ \A r \in network' : r \in network \/ Harmless(r)
        BY <3>1, HarmlessReply
      <4> QED  BY <1>1, <1>3, <4>1, HarmlessCommits
    <3>2. CASE /\ m.term >= term[n]
               /\ term'[n] = m.term
               /\ role'[n] = "follower"
               /\ Send({AppendReply(m.term, n, m.from, TRUE, CoveredMatch(n))})
      BY <1>1, <1>3, <3>2, CoveredCommits
    <3> QED  BY <1>3, <3>1, <3>2
  <2> QED  BY <2>1, <2>2
<1> QED  BY <1>2, <1>3, InstallSnapshotCases


-----------------------------------------------------------------------------
(***************************************************************************)
(* Replies to AppendEntries: what the leader commits is chosen.            *)
(***************************************************************************)
\* A leader counts as stored what its peers acknowledged.
LEMMA MatchedTable ==
    ASSUME Shape, NEW lead, NEW full, Logs(lead, full), Commits(lead, full),
           NEW n \in Nodes, NEW m \in network, Acknowledges(n, m),
           NEW t \in Nat, t = term[n], NEW F \in Seq(KnownEntries), F = full[n]
    PROVE  /\ nextIndex' = [nextIndex EXCEPT ![n] = nextIndex'[n]]
           /\ matchIndex' = [matchIndex EXCEPT ![n] = matchIndex'[n]]
           /\ \A p \in Nodes :
                /\ nextIndex'[n][p] <= Len(F) + 1
                /\ matchIndex'[n][p] \in Nat
                /\ matchIndex'[n][p] > 0 => Acked(p, t, matchIndex'[n][p])
<1>1. PICK x \in Nat : x = m.match
  BY DEF Acknowledges, Shape, ShapedNetwork, ShapedMessage
<1>2. /\ nextIndex \in [Nodes -> [Nodes -> Nat \ {0}]]
      /\ matchIndex \in [Nodes -> [Nodes -> Nat]]
      /\ m.from \in Nodes
      /\ Len(F) \in Nat
  BY LoggedTypes DEF Shape, ShapedLeaders, ShapedNetwork, ShapedMessage
<1>3. PICK nxt \in [Nodes -> Nat \ {0}], mch \in [Nodes -> Nat] :
        nxt = nextIndex[n] /\ mch = matchIndex[n]
  BY <1>2
<1>4. PICK next, matched :
        /\ next = [nxt EXCEPT ![m.from] = Larger(@, x + 1)]
        /\ matched = [mch EXCEPT ![m.from] = Larger(@, x)]
  OBVIOUS
<1>5. /\ nextIndex' = [nextIndex EXCEPT ![n] = next]
      /\ matchIndex' = [matchIndex EXCEPT ![n] = matched]
      /\ m.type = "AppendReply" /\ m.success /\ role[n] = "leader" /\ m.term = t
  BY <1>1, <1>3, <1>4 DEF Acknowledges
<1>6. nextIndex'[n] = next /\ matchIndex'[n] = matched
  BY <1>2, <1>5
<1>7. \A p \in Nodes : nxt[p] <= Len(F) + 1 /\ (mch[p] > 0 => Acked(p, t, mch[p]))
  BY <1>3, <1>5 DEF Commits, TableTrue
<1>8. x <= Len(F) /\ Acked(m.from, t, x)
  <2>1. lead[t] = F
    BY <1>5 DEF Logs
  <2>2. x <= Len(F)
    BY <1>1, <1>5, <2>1 DEF Commits, TrueMessage
  <2>3. Acked(m.from, t, x)
    BY <1>1, <1>5 DEF Acked
  <2> QED  BY <2>2, <2>3
<1>9. ASSUME NEW p \in Nodes
      PROVE  /\ next[p] <= Len(F) + 1
             /\ matched[p] \in Nat
             /\ matched[p] > 0 => Acked(p, t, matched[p])
  <2>1. CASE p = m.from
    <3>1. /\ next[p] = nxt[p] \/ next[p] = x + 1
          /\ matched[p] = mch[p] \/ matched[p] = x
      BY <1>2, <1>3, <1>4, <2>1 DEF Larger
    <3>2. PICK y \in Nat, z \in Nat : y = nxt[p] /\ z = mch[p]
      BY <1>3
    <3>3. next[p] <= Len(F) + 1
      <4>1. y <= Len(F) + 1
        BY <1>7, <3>2
      <4>2. x + 1 <= Len(F) + 1
        BY <1>2, <1>8
      <4>3. next[p] = y \/ next[p] = x + 1
        BY <3>1, <3>2
      <4> QED  BY <4>1, <4>2, <4>3
    <3>4. matched[p] \in Nat
      BY <3>1, <3>2
    <3>5. matched[p] > 0 => Acked(p, t, matched[p])
      BY <1>7, <1>8, <2>1, <3>1
    <3> QED  BY <3>3, <3>4, <3>5
  <2>2. CASE p # m.from
    <3>1. next[p] = nxt[p] /\ matched[p] = mch[p]
      BY <1>3, <1>4, <2>2
    <3> QED  BY <1>3, <1>7, <3>1
  <2> QED  BY <2>1, <2>2
<1> QED  BY <1>5, <1>6, <1>9

\* An entry of the leader's own term that a majority stores is chosen.
LEMMA LeaderChooses ==
    ASSUME Proposals = {}, Shape, NEW lead, NEW full, Logs(lead, full), NEW n \in Nodes,
           role[n] = "leader", NEW t \in Nat, t = term[n],
           NEW F \in Seq(KnownEntries), F = full[n], NEW matched,
           \A p \in Nodes : /\ matched[p] \in Nat
                            /\ matched[p] > 0 => Acked(p, t, matched[p]),
           NEW i \in Nat, i \in Committable(n, matched)
    PROVE  i \in 1 .. Len(F) /\ Chosen(lead, t, i)
<1>1. Fits(F, log[n], snapshot[n]) /\ lead[t] = F
  BY DEF Logs
<1>2. PICK b \in Nat, o \in Nat, z \in Nat :
        b = Base(n) /\ o = commitIndex[n] /\ z = LastIndex(n) /\ b <= o
  BY IndexTypes
<1>3. /\ i \in o + 1 .. z
      /\ TermAt(n, i) = t
      /\ Majority({v \in Nodes : matched[v] >= i}, config[n].voters)
  BY <1>2 DEF Committable
<1>4. i \in 1 .. z /\ i \in b .. z /\ i # 0
  BY <1>2, <1>3
<1>5. Len(F) = z /\ F[i].term = t
  BY <1>1, <1>2, <1>3, <1>4, FitsIndices
<1>6. Has(lead[t], t, i)
  BY <1>1, <1>4, <1>5 DEF Has
<1>7. ASSUME NEW v \in Nodes, matched[v] >= i PROVE Acked(v, t, i)
  <2>1. PICK x \in Nat : x = matched[v] /\ x >= i /\ x > 0
    BY <1>4, <1>7
  <2>2. Acked(v, t, x)
    BY <2>1
  <2>3. ASSUME NEW m \in network, m.type = "AppendReply", m.match >= x
        PROVE  m.match >= i
    BY <2>1, <2>3 DEF Shape, ShapedNetwork, ShapedMessage
  <2> QED  BY <2>2, <2>3 DEF Acked
<1>8. Majority({v \in Nodes : matched[v] >= i}, InitialVoters)
  BY <1>3, VotersFixed
<1>9. {v \in Nodes : matched[v] >= i} \subseteq {v \in Nodes : Acked(v, t, i)}
  BY <1>7
<1>10. Majority({v \in Nodes : Acked(v, t, i)}, InitialVoters)
  BY <1>8, <1>9, VotersFinite, MajorityGrows
<1> QED  BY <1>4, <1>5, <1>6, <1>10 DEF Chosen

LEMMA AcknowledgesCommits ==
    ASSUME Proposals = {}, Shape, Shape', Ballots, Records, NEW lead, NEW full,
           Logs(lead, full), Commits(lead, full), NEW n \in Nodes, NEW m \in network,
           Acknowledges(n, m)
    PROVE  Commits(lead, full)'
<1>1. PICK t \in Nat : t = term[n]
  BY IndexTypes
<1>2. PICK F \in Seq(KnownEntries) : F = full[n]
  BY DEF Logs
<1>3. /\ UNCHANGED <<term, role, leadersByTerm, network>>
      /\ role[n] = "leader"
  BY DEF Acknowledges
<1>4. PICK matched : matched = matchIndex'[n]
  OBVIOUS
<1>5. /\ nextIndex' = [nextIndex EXCEPT ![n] = nextIndex'[n]]
      /\ matchIndex' = [matchIndex EXCEPT ![n] = matchIndex'[n]]
      /\ \A p \in Nodes : /\ nextIndex'[n][p] <= Len(F) + 1
                          /\ matched[p] \in Nat
                          /\ matched[p] > 0 => Acked(p, t, matched[p])
  BY <1>1, <1>2, <1>4, MatchedTable
<1>6. NoNewAck /\ NoNewGrant
  BY <1>3 DEF NoNewAck, NoNewGrant
<1>7. Turns(lead, full, lead, full)
  BY <1>3, <1>6, SameTurns, IndexTypes
<1>8. VotesCover(lead, full)' /\ CandidatesStay(full, full)
  <2>1. CandidatesGoOn(full, full)
    BY <1>3 DEF CandidatesGoOn
  <2> QED  BY <1>6, <1>7, <2>1, GoOnCovered
<1>9. NewLeadersCover(lead)
  BY <1>3, NoNewLeader
<1>10. Fits(F, log[n], snapshot[n]) /\ ServerSettled(lead, F, n) /\ lead[t] = F
  BY <1>1, <1>2, <1>3 DEF Commits, Logs
<1>11. PICK ci \in Nat : /\ ci >= commitIndex[n]
                         /\ ci > commitIndex[n] => ci \in Committable(n, matched)
                         /\ SetCommitIndex(n, log[n], ci, t)
  <2>1. CASE UNCHANGED <<log, snapshot, commitVars>>
    <3>1. PICK ci \in Nat : ci = commitIndex[n]
      BY IndexTypes
    <3>2. log' = [log EXCEPT ![n] = log[n]]
      BY <2>1 DEF Shape, ShapedLogs
    <3>3. ci <= commitIndex[n]
      BY <3>1
    <3>4. SetCommitIndex(n, log[n], ci, t)
      BY <2>1, <3>2, <3>3, Zenon DEF SetCommitIndex
    <3> QED  BY <3>1, <3>4
  <2>2. CASE /\ Committable(n, matched) # {}
             /\ SetCommitIndex(n, log[n], Max(Committable(n, matched)), term[n])
    <3>1. PICK ci : ci = Max(Committable(n, matched))
      OBVIOUS
    <3>2. ci \in Committable(n, matched) /\ ci \in Nat /\ ci > commitIndex[n]
      BY <2>2, <3>1, NewestCommittable
    <3>3. ci >= commitIndex[n] /\ SetCommitIndex(n, log[n], ci, t)
      BY <1>1, <2>2, <3>1, <3>2, IndexTypes
    <3> QED  BY <3>2, <3>3
  <2>3. matched = [matchIndex[n] EXCEPT ![m.from] = Larger(@, m.match)]
    BY <1>4 DEF Acknowledges, Shape, ShapedLeaders
  <2> QED  BY <2>1, <2>2, <2>3 DEF Acknowledges
<1>12. ci > commitIndex[n] => ci \in 1 .. Len(F) /\ Chosen(lead, t, ci)
  <2>1. \A p \in Nodes : /\ matched[p] \in Nat
                         /\ matched[p] > 0 => Acked(p, t, matched[p])
    BY <1>5
  <2> QED  BY <1>1, <1>2, <1>3, <1>11, <2>1, LeaderChooses
<1>13. /\ commitIndex'[n] = ci
       /\ IsImage(applied'[n], F, ci)
       /\ IsImage(snapshot'[n].image, F, Base(n)')
       /\ \A k \in Nodes \ {n} : /\ snapshot'[k] = snapshot[k]
                                 /\ commitIndex'[k] = commitIndex[k]
                                 /\ applied'[k] = applied[k]
       /\ \A rec \in committed' : \/ rec \in committed
                                  \/ /\ rec.index \in 1 .. ci
                                     /\ rec.entry = F[rec.index]
                                     /\ rec.term = t
  <2>1. log[n] \in Seq(KnownEntries)
    BY IndexTypes
  <2>2. IsImage(applied[n], F, commitIndex[n]) /\ IsImage(snapshot[n].image, F, Base(n))
    BY <1>10 DEF ServerSettled
  <2>3. ci > commitIndex[n] => ci <= Len(F)
    BY <1>12, LoggedTypes
  <2>4. PICK lg \in Seq(KnownEntries) : lg = log[n]
    BY <2>1
  <2>5. Fits(F, lg, snapshot[n])
    BY <1>10, <2>4
  <2>6. SetCommitIndex(n, lg, ci, t)
    BY <1>11, <2>4
  <2>7. ci \in Nat /\ ci >= commitIndex[n]
    BY <1>11
  <2> QED  BY <2>2, <2>3, <2>5, <2>6, <2>7, SetCommitImages
<1>14. Settled(lead, F, t, ci)
  <2>0. PICK o \in Nat : o = commitIndex[n]
    BY IndexTypes
  <2>1. CASE ci > o
    <3>1. SameUpTo(F, lead[t], ci) /\ t <= t /\ ci <= ci
      BY <1>10, <1>12, <2>0, <2>1, LoggedTypes DEF SameUpTo
    <3> QED  BY <1>12, <2>0, <2>1, <3>1 DEF Settled
  <2>2. CASE ci = o
    BY <1>1, <1>10, <2>0, <2>2 DEF ServerSettled
  <2> QED  BY <1>11, <2>0, <2>1, <2>2
<1>15. Settled(lead, F, t, ci)'
  <2>1. SameUpTo(F, F, ci)
    BY <1>13 DEF IsImage, SameUpTo
  <2>2. lead \in [Nat -> Seq(KnownEntries)] /\ Onward(lead, lead)
    BY <1>7 DEF Turns
  <2> QED  BY <1>14, <2>1, <2>2, SettledStays
<1>16. ServerSettled(lead, full[n], n)'
  BY <1>1, <1>2, <1>3, <1>13, <1>15 DEF ServerSettled
<1>17. TableTrue(full[n], n)'
  <2>1. ASSUME NEW p \in Nodes, matched[p] > 0 PROVE Acked(p, t, matched[p])'
    BY <1>3, <1>5, <2>1 DEF Acked
  <2> QED  BY <1>1, <1>2, <1>3, <1>4, <1>5, <2>1 DEF TableTrue
<1>18. PICK recs : recs = committed' \ committed
  OBVIOUS
<1>19. committed' \subseteq committed \cup recs
       /\ \A rec \in recs : RecordSettled(lead, rec)'
  <2>1. ASSUME NEW rec \in recs PROVE RecordSettled(lead, rec)'
    <3>1. rec.index \in 1 .. ci /\ rec.entry = F[rec.index] /\ rec.term = t
      BY <1>13, <1>18
    <3>2. F \in Seq(KnownEntries) /\ t \in Nat /\ ci \in Nat
      BY <1>1, <1>2, <1>11
    <3> QED  BY ONLY <1>15, <3>1, <3>2, SettledRecord
  <2> QED  BY <1>18, <2>1
<1>20. PICK ms : ms = {}
  OBVIOUS
<1>21. network' \subseteq network \cup ms /\ \A r \in ms : TrueMessage(lead, full, r)'
  BY <1>3, <1>20
<1>22. ByOne(n, full, full)
  <2>1. \A k \in Nodes : k # n => nextIndex'[k] = nextIndex[k] /\ matchIndex'[k] = matchIndex[k]
    BY <1>5 DEF Shape, ShapedLeaders
  <2> QED  BY <1>3, <1>13, <2>1 DEF ByOne
<1> QED  BY <1>7, <1>8, <1>9, <1>16, <1>17, <1>19, <1>21, <1>22, CommitsHold

\* What a leader sends again after a rejection it may send, and what it knows of
\* its peers stays true.
LEMMA RejectsCommits ==
    ASSUME Shape, Shape', Ballots, Records, NEW lead, NEW full, Logs(lead, full),
           Commits(lead, full), NEW n \in Nodes, NEW m \in network,
           m.type = "AppendReply", Rejects(n, m), NoNewGrant
    PROVE  Commits(lead, full)'
<1>1. /\ role[n] = "leader"
      /\ UNCHANGED <<term, role, leadersByTerm, snapshot, commitIndex, applied,
                     committed, matchIndex>>
  BY DEF Rejects, commitVars
<1>2. PICK t \in Nat, lg \in Seq(KnownEntries), c \in Nat, F \in Seq(KnownEntries) :
        t = term[n] /\ lg = log[n] /\ c = commitIndex[n] /\ F = full[n]
  BY IndexTypes DEF Logs
<1>3. /\ Fits(F, lg, snapshot[n])
      /\ lead[t] = F
      /\ ServerSettled(lead, F, n)
      /\ TableTrue(F, n)
      /\ lead \in [Nat -> Seq(KnownEntries)]
      /\ Len(F) \in Nat
  BY <1>1, <1>2, LoggedTypes DEF Logs, Commits
<1>4. m.from \in Nodes /\ nextIndex \in [Nodes -> [Nodes -> Nat \ {0}]]
  BY DEF Shape, ShapedNetwork, ShapedMessage, ShapedLeaders
<1>5. PICK old \in [Nodes -> Nat \ {0}] : old = nextIndex[n]
  BY <1>4
<1>6. \A p \in Nodes : old[p] <= Len(F) + 1
  BY <1>1, <1>3, <1>5 DEF TableTrue
<1>7. PICK next : next = [old EXCEPT ![m.from] = BackOff(@)]
  OBVIOUS
<1>8. \A p \in Nodes : next[p] \in Nat \ {0} /\ next[p] <= Len(F) + 1
  <2> TAKE p \in Nodes
  <2>1. PICK x \in Nat \ {0} : x = old[p] /\ x <= Len(F) + 1
    BY <1>5, <1>6
  <2>2. BackOff(x) \in Nat \ {0} /\ BackOff(x) <= x
    BY DEF BackOff, Larger
  <2>3. next[p] = x \/ next[p] = BackOff(x)
    BY <1>5, <1>7, <2>1
  <2>4. next[p] <= Len(F) + 1
    <3>1. PICK y \in Nat : y = BackOff(x) /\ y <= x
      BY <2>2
    <3>2. y <= Len(F) + 1
      BY <1>3, <2>1, <3>1
    <3> QED  BY <2>1, <2>3, <3>1, <3>2
  <2> QED  BY <2>1, <2>2, <2>3, <2>4
<1>9. nextIndex'[n] = next /\ \A k \in Nodes : k # n => nextIndex'[k] = nextIndex[k]
  BY <1>4, <1>5, <1>7 DEF Rejects
<1>10. PICK nxt \in Nat \ {0} : nxt = next[m.from] /\ nxt <= Len(F) + 1
  BY <1>4, <1>8
<1>11. PICK ms : ms = {Replicate(n, t, m.from, lg, nxt)}
  OBVIOUS
<1>12. Send(ms)
  BY <1>2, <1>5, <1>7, <1>10, <1>11 DEF Rejects
<1>13. /\ network \subseteq network'
       /\ network' \subseteq network \cup ms
       /\ \A r \in ms : r.type \in {"AppendEntries", "InstallSnapshot"}
  BY <1>11, <1>12 DEF Send, Replicate
<1>14. NoNewAck
  BY <1>1, <1>13 DEF NoNewAck
<1>15. Turns(lead, full, lead, full)
  <2>1. \A k \in Nodes : term'[k] >= term[k]
    BY <1>1, IndexTypes
  <2> QED  BY <1>14, <2>1, SameTurns
<1>16. VotesCover(lead, full)' /\ CandidatesStay(full, full)
  <2>1. CandidatesGoOn(full, full)
    BY <1>1 DEF CandidatesGoOn
  <2> QED  BY <1>15, <2>1, GoOnCovered
<1>17. NewLeadersCover(lead)
  BY <1>1, NoNewLeader
<1>18. ByOne(n, full, full)
  BY <1>1, <1>9 DEF ByOne
<1>19. ServerSettled(lead, full[n], n)'
  BY <1>1, <1>15, ServerStaysSettled
<1>20. TableTrue(full[n], n)'
  <2>1. ASSUME NEW p \in Nodes, NEW i, Acked(p, t, i) PROVE Acked(p, t, i)'
    BY <1>1, <1>13, <2>1 DEF Acked
  <2> QED  BY <1>1, <1>2, <1>3, <1>8, <1>9, <2>1 DEF TableTrue
<1>21. Settled(lead, F, t, c)'
  BY <1>1, <1>2, <1>19 DEF ServerSettled
<1>22. \A r \in ms : TrueMessage(lead, full, r)'
  <2>1. IsImage(snapshot[n].image, F, Base(n))
    BY <1>3 DEF ServerSettled
  <2>2. PICK r : r = Replicate(n, t, m.from, lg, nxt)
    OBVIOUS
  <2>3. TrueMessage(lead, full, r)'
    BY <1>2, <1>3, <1>10, <1>21, <2>1, <2>2, ReplicateTrue
  <2> QED  BY <1>11, <2>2, <2>3
<1>23. PICK recs : recs = {}
  OBVIOUS
<1>24. committed' \subseteq committed \cup recs /\ \A rec \in recs : RecordSettled(lead, rec)'
  BY <1>1, <1>23
<1> QED  BY <1>13, <1>15, <1>16, <1>17, <1>18, <1>19, <1>20, <1>22, <1>24, CommitsHold

LEMMA AppendReplyCommits ==
    ASSUME Proposals = {}, Shape, Shape', Ballots, Records, NEW lead, NEW full,
           Logs(lead, full), Commits(lead, full), NEW n \in Nodes, NEW m \in network,
           HandleAppendReply(n, m)
    PROVE  Commits(lead, full)'
<1>1. m.type = "AppendReply" /\ NoNewGrant
  BY AppendReplyCalm DEF HandleAppendReply
<1> QED  BY <1>1, AppendReplyCases, StepDownCommits, AcknowledgesCommits, RejectsCommits

-----------------------------------------------------------------------------
(***************************************************************************)
(* Crashes.                                                                *)
(***************************************************************************)
\* A server that crashes falls back to its snapshot, which is settled.
LEMMA CrashCommits ==
    ASSUME Shape, Shape', Ballots, Records, NEW lead, NEW full, Logs(lead, full),
           Commits(lead, full), NEW n \in Nodes, Crash(n)
    PROVE  Commits(lead, full)'
<1>1. /\ UNCHANGED <<term, log, snapshot, leadersByTerm, committed, network>>
      /\ role' = [role EXCEPT ![n] = "follower"]
      /\ commitIndex' = [commitIndex EXCEPT ![n] = Base(n)]
      /\ applied' = [applied EXCEPT ![n] = snapshot[n].image]
      /\ \A k \in Nodes : k # n => nextIndex'[k] = nextIndex[k]
      /\ \A k \in Nodes : k # n => matchIndex'[k] = matchIndex[k]
  BY DEF Crash, Restored, Base, persistentVars, Shape, ShapedLeaders
<1>2. /\ role'[n] = "follower"
      /\ commitIndex'[n] = Base(n)
      /\ applied'[n] = snapshot[n].image
      /\ \A k \in Nodes \ {n} : /\ role'[k] = role[k]
                                /\ commitIndex'[k] = commitIndex[k]
                                /\ applied'[k] = applied[k]
  BY <1>1 DEF Shape, ShapedElections, ShapedLogs
<1>3. PICK t \in Nat, b \in Nat, c \in Nat, F \in Seq(KnownEntries) :
        t = term[n] /\ b = Base(n) /\ c = commitIndex[n] /\ F = full[n] /\ b <= c
  BY IndexTypes DEF Logs
<1>4. ServerSettled(lead, F, n)
  BY <1>3 DEF Commits
<1>5. NoNewAck /\ NoNewGrant
  BY <1>1 DEF NoNewAck, NoNewGrant
<1>6. Turns(lead, full, lead, full)
  <2>1. \A k \in Nodes : term'[k] >= term[k]
    BY <1>1, IndexTypes
  <2> QED  BY <1>5, <2>1, SameTurns
<1>7. VotesCover(lead, full)' /\ CandidatesStay(full, full)
  <2>1. CandidatesGoOn(full, full)
    BY <1>1, <1>2 DEF CandidatesGoOn
  <2> QED  BY <1>5, <1>6, <2>1, GoOnCovered
<1>8. NewLeadersCover(lead)
  BY <1>1, NoNewLeader
<1>9. ByOne(n, full, full)
  BY <1>1, <1>2 DEF ByOne
<1>10. Settled(lead, F, t, b)'
  <2>1. Settled(lead, F, t, c) /\ SameUpTo(F, F, c)
    BY <1>3, <1>4 DEF ServerSettled, IsImage, SameUpTo
  <2>2. lead \in [Nat -> Seq(KnownEntries)] /\ Onward(lead, lead)
    BY <1>6 DEF Turns
  <2>3. Settled(lead, F, t, c)'
    BY <2>1, <2>2, SettledStays
  <2> QED  BY <1>3, <2>3, LoggedTypes, SettledLess
<1>11. ServerSettled(lead, full[n], n)'
  BY <1>1, <1>2, <1>3, <1>4, <1>10 DEF ServerSettled, Base
<1>12. TableTrue(full[n], n)'
  BY <1>2 DEF TableTrue
<1>13. PICK recs, ms : recs = {} /\ ms = {}
  OBVIOUS
<1>14. /\ committed' \subseteq committed \cup recs
       /\ \A rec \in recs : RecordSettled(lead, rec)'
       /\ network' \subseteq network \cup ms
       /\ \A r \in ms : TrueMessage(lead, full, r)'
  BY <1>1, <1>13
<1> QED  BY <1>6, <1>7, <1>8, <1>9, <1>11, <1>12, <1>14, CommitsHold

-----------------------------------------------------------------------------
(***************************************************************************)
(* The invariant.                                                          *)
(***************************************************************************)
\* Every log can be traced and every commit explained.
Explains(lead, full) == Logs(lead, full) /\ Commits(lead, full)

EveryCommitExplained == \E lead, full : Explains(lead, full)

LEMMA InitCommits == Init => EveryCommitExplained
<1> SUFFICES ASSUME Init PROVE EveryCommitExplained
  OBVIOUS
<1>1. PICK lead, full : /\ lead = [t \in Nat |-> <<>>]
                        /\ full = [n \in Nodes |-> <<>>]
  OBVIOUS
<1>2. <<>> \in Seq(KnownEntries) /\ Len(<<>>) = 0
  BY EmptySeq
<1>3. \A n \in Nodes : /\ role[n] = "follower"
                       /\ commitIndex[n] = 0
                       /\ Base(n) = 0
                       /\ full[n] = <<>>
  BY <1>1 DEF Init, NoSnapshot, Base
<1>4. leadersByTerm = {} /\ committed = {} /\ network = {}
  BY DEF Init
<1>5. Logs(lead, full)
  <2>1. lead \in [Nat -> Seq(KnownEntries)] /\ full \in [Nodes -> Seq(KnownEntries)]
    BY <1>1, <1>2
  <2>2. \A n \in Nodes : Fits(full[n], log[n], snapshot[n])
    BY <1>1, <1>2 DEF Init, Fits, NoSnapshot
  <2>3. \A t : Traced(lead, <<>>, t)
    BY <1>2 DEF Traced
  <2> QED  BY <1>1, <1>3, <1>4, <2>1, <2>2, <2>3 DEF Logs
<1>6. \A t, i \in Nat : ~Has(lead[t], t, i)
  BY <1>1, <1>2 DEF Has
<1>7. AcksKept(lead, full)
  BY <1>6 DEF AcksKept, Covers
<1>8. VotesCover(lead, full) /\ LeadersCover(lead)
  BY <1>3, <1>4 DEF VotesCover, LeadersCover, Led
<1>9. ASSUME NEW n \in Nodes PROVE ServerSettled(lead, full[n], n) /\ TableTrue(full[n], n)
  BY <1>2, <1>3 DEF ServerSettled, Settled, IsImage, TableTrue
<1>10. Commits(lead, full)
  BY <1>4, <1>7, <1>8, <1>9 DEF Commits
<1> QED  BY <1>5, <1>10 DEF EveryCommitExplained, Explains

LEMMA ReceiveCommits ==
    ASSUME Proposals = {}, Shape, Shape', Ballots, Records, Records', ElectionSafety',
           NEW lead, NEW full, Logs(lead, full), Commits(lead, full),
           NEW n \in Nodes, Receive(n)
    PROVE  \E lead2, full2 : Explains(lead2, full2)' /\ Inherits(lead, full, lead2)
<1>0. Inherits(lead, full, lead)
  BY DEF Inherits
<1>1. PICK m \in network :
        /\ m.to = n
        /\ \/ HandleRequestVote(n, m)
           \/ HandleVoteReply(n, m)
           \/ HandleAppendEntries(n, m)
           \/ HandleAppendReply(n, m)
           \/ HandleInstallSnapshot(n, m)
           \/ HandleReadHeartbeat(n, m)
           \/ HandleReadAck(n, m)
  BY DEF Receive
<1>2. CASE HandleRequestVote(n, m)
  <2>1. Logs(lead, full)'
    BY <1>2, RequestVoteLogs
  <2>2. Commits(lead, full)'
    BY <1>2, RequestVoteCommits
  <2> QED  BY <2>1, <2>2, <1>0 DEF Explains
<1>3. CASE HandleVoteReply(n, m)
  BY <1>1, <1>3, VoteReplyCommits DEF Explains
<1>4. CASE HandleAppendEntries(n, m)
  BY <1>4, AppendEntriesCommits, <1>0 DEF Explains
<1>5. CASE HandleAppendReply(n, m)
  <2>1. Logs(lead, full)'
    BY <1>5, AppendReplyLogs
  <2>2. Commits(lead, full)'
    BY <1>5, AppendReplyCommits
  <2> QED  BY <2>1, <2>2, <1>0 DEF Explains
<1>6. CASE HandleInstallSnapshot(n, m)
  BY <1>6, InstallSnapshotCommits, <1>0 DEF Explains
<1>7. CASE HandleReadHeartbeat(n, m)
  <2>1. Commits(lead, full)'
    BY <1>7, ReadHeartbeatCommits
  <2>2. Logs(lead, full)'
    BY <1>7, ReadHeartbeatLogs
  <2> QED  BY <2>1, <2>2, <1>0 DEF Explains
<1>8. CASE HandleReadAck(n, m)
  <2>1. Commits(lead, full)'
    BY <1>8, ReadAckCommits
  <2>2. Logs(lead, full)'
    BY <1>8, ReadAckLogs
  <2> QED  BY <2>1, <2>2, <1>0 DEF Explains
<1> QED  BY <1>1, <1>2, <1>3, <1>4, <1>5, <1>6, <1>7, <1>8

LEMMA NextCommits ==
    ASSUME Proposals = {}, Shape, Shape', Ballots, Records, Records', ElectionSafety',
           NEW lead, NEW full, Logs(lead, full), Commits(lead, full), [Next]_vars
    PROVE  \E lead2, full2 : Explains(lead2, full2)' /\ Inherits(lead, full, lead2)
<1>0. Inherits(lead, full, lead)
  BY DEF Inherits
<1>1. CASE UNCHANGED vars
  <2>1. Logs(lead, full)'
    BY <1>1 DEF vars, persistentVars, electionVars, Logs, Fits, Led, TracedMessage, Traced
  <2>2. Commits(lead, full)'
    BY <1>1, StutterCommits
  <2> QED  BY <2>1, <2>2, <1>0 DEF Explains
<1>2. ASSUME NEW n \in Nodes, StartElection(n)
      PROVE  \E lead2, full2 : Explains(lead2, full2)' /\ Inherits(lead, full, lead2)
  <2>1. \E lead2 : /\ Logs(lead2, full)'
                    /\ Commits(lead2, full)'
                    /\ Inherits(lead, full, lead2)
    BY <1>2, StartElectionCommits
  <2> QED  BY <2>1 DEF Explains
<1>3. ASSUME NEW n \in Nodes, Heartbeat(n)
      PROVE  \E lead2, full2 : Explains(lead2, full2)' /\ Inherits(lead, full, lead2)
  <2>1. Logs(lead, full)'
    BY <1>3, HeartbeatLogs
  <2>2. Commits(lead, full)'
    BY <1>3, HeartbeatCommits
  <2> QED  BY <2>1, <2>2, <1>0 DEF Explains
<1>4. ASSUME NEW n \in Nodes, Receive(n)
      PROVE  \E lead2, full2 : Explains(lead2, full2)' /\ Inherits(lead, full, lead2)
  BY <1>4, ReceiveCommits
<1>5. ASSUME NEW n \in Nodes, NEW c \in Clients, ClientCommand(n, c)
      PROVE  \E lead2, full2 : Explains(lead2, full2)' /\ Inherits(lead, full, lead2)
  <2>1. \E lead2, full2 : /\ Logs(lead2, full2)'
                           /\ Commits(lead2, full2)'
                           /\ Inherits(lead, full, lead2)
    BY <1>5, AppendCommits
  <2> QED  BY <2>1 DEF Explains
<1>6. ASSUME NEW n \in Nodes,
             \/ \E c \in Clients : RequestRead(n, c)
             \/ Crash(n)
             \/ Resume(n)
      PROVE  \E lead2, full2 : Explains(lead2, full2)' /\ Inherits(lead, full, lead2)
  <2>1. Logs(lead, full)'
    BY <1>6, IdleLogs
  <2>2. Commits(lead, full)'
    BY <1>6, RequestReadCommits, CrashCommits, ResumeCommits
  <2> QED  BY <2>1, <2>2, <1>0 DEF Explains
<1> QED  BY <1>1, <1>2, <1>3, <1>4, <1>5, <1>6 DEF Next

\* With a fixed configuration every commit can be explained at any time.
THEOREM CommitsExplained ==
    ASSUME Proposals = {}
    PROVE  Spec => []EveryCommitExplained
<1> DEFINE Inv == Records /\ Ballots /\ EveryCommitExplained
<1>1. Init => Inv
  BY InitLogs, InitBallots, InitCommits
<1>2. Shape /\ Shape' /\ ElectionSafety' /\ Inv /\ [Next]_vars => Inv'
  <2> SUFFICES ASSUME Shape, Shape', ElectionSafety', Inv, [Next]_vars PROVE Inv'
    OBVIOUS
  <2>1. Records'
    BY NextRecords
  <2>2. Ballots'
    BY NextBallots
  <2>3. PICK lead, full : Logs(lead, full) /\ Commits(lead, full)
    BY DEF EveryCommitExplained, Explains
  <2>4. \E lead2, full2 : Explains(lead2, full2)'
    BY <2>1, <2>3, NextCommits
  <2> QED  BY <2>1, <2>2, <2>4 DEF EveryCommitExplained
<1> QED  BY <1>1, <1>2, ShapeInvariant, OneLeaderPerTerm, PTL DEF Spec

-----------------------------------------------------------------------------
(***************************************************************************)
(* What the invariant promises.                                            *)
(***************************************************************************)
\* What was chosen is in the log of every leader of its term or a later one.
LEMMA LeadersShare ==
    ASSUME NEW lead, NEW full, Logs(lead, full), Commits(lead, full),
           NEW t \in Nat, NEW i \in Nat, Chosen(lead, t, i),
           NEW u \in Nat, t <= u, Led(u)
    PROVE  SameUpTo(lead[t], lead[u], i)
<1>1. PICK T \in Seq(KnownEntries), U \in Seq(KnownEntries) : T = lead[t] /\ U = lead[u]
  BY DEF Logs
<1>2. Has(T, t, i) /\ Traced(lead, T, t) /\ Traced(lead, U, u)
  BY <1>1 DEF Chosen, Logs
<1>3. i \in 1 .. Len(T) /\ T[i].term = t
  BY <1>2 DEF Has
<1>4. Has(U, t, i)
  <2>1. CASE t = u
    BY <1>1, <1>2, <2>1
  <2>2. CASE t < u
    BY <1>1, <2>2, LeadersHave
  <2> QED  BY <2>1, <2>2
<1>5. i <= Len(U) /\ U[i].term = t
  <2>1. Len(U) \in Nat
    BY LoggedTypes
  <2> QED  BY <1>4, <2>1 DEF Has
<1>6. SameUpTo(T, U, i)
  BY <1>2, <1>3, <1>5, TermFixesLog
<1> QED  BY <1>1, <1>6

\* Two chosen entries are in one log.
LEMMA ChosenAgree ==
    ASSUME NEW lead, NEW full, Logs(lead, full), Commits(lead, full),
           NEW t \in Nat, NEW i \in Nat, Chosen(lead, t, i),
           NEW u \in Nat, NEW k \in Nat, Chosen(lead, u, k),
           NEW j \in Nat, j \in 1 .. i, j \in 1 .. k
    PROVE  lead[t][j] = lead[u][j]
<1>1. /\ Len(lead[t]) \in Nat /\ Len(lead[u]) \in Nat
      /\ Has(lead[t], t, i) /\ Has(lead[u], u, k)
  BY LoggedTypes DEF Chosen, Logs
<1>2. lead[t] # <<>> /\ lead[u] # <<>>
  BY <1>1 DEF Has
<1>3. Led(t) /\ Led(u)
  BY <1>2 DEF Logs
<1>4. CASE t <= u
  <2>1. SameUpTo(lead[t], lead[u], i)
    BY <1>3, <1>4, LeadersShare
  <2> QED  BY <2>1 DEF SameUpTo
<1>5. CASE u <= t
  <2>1. SameUpTo(lead[u], lead[t], k)
    BY <1>3, <1>5, LeadersShare
  <2> QED  BY <2>1 DEF SameUpTo
<1> QED  BY <1>4, <1>5

\* A server whose log has a committed entry holds it.
LEMMA HoldsWhole ==
    ASSUME Shape, NEW n \in Nodes, NEW L \in Seq(KnownEntries),
           Fits(L, log[n], snapshot[n]), NEW rec, rec.index \in 1 .. Len(L),
           L[rec.index] = rec.entry
    PROVE  Holds(n, rec)
<1>1. PICK b \in Nat, z \in Nat, j \in Nat : b = Base(n) /\ z = LastIndex(n) /\ j = rec.index
  <2>1. Base(n) \in Nat /\ LastIndex(n) \in Nat /\ rec.index \in Nat
    BY IndexTypes
  <2> QED  BY <2>1
<1>2. Len(L) = z /\ \A i \in b + 1 .. z : EntryAt(n, i) = L[i]
  BY <1>1, FitsIndices
<1>3. CASE j <= b
  BY <1>1, <1>3 DEF Holds
<1>4. CASE j > b
  <2>1. j <= z /\ j \in b + 1 .. z
    BY <1>1, <1>2, <1>4
  <2>2. EntryAt(n, j) = rec.entry
    BY <1>1, <1>2, <2>1
  <2> QED  BY <1>1, <2>1, <2>2 DEF Holds
<1> QED  BY <1>1, <1>3, <1>4

LEMMA LeadersComplete ==
    ASSUME Shape, Records, EveryCommitExplained
    PROVE  LeaderCompleteness
<1> SUFFICES ASSUME NEW n \in Nodes, role[n] = "leader", NEW rec \in committed,
                    rec.term <= term[n]
             PROVE  Holds(n, rec)
  BY DEF LeaderCompleteness
<1>1. PICK lead, full : Logs(lead, full) /\ Commits(lead, full)
  BY DEF EveryCommitExplained, Explains
<1>2. RecordSettled(lead, rec)
  BY <1>1 DEF Commits
<1>3. PICK t \in Nat, i \in Nat : /\ t <= rec.term
                                  /\ rec.index \in 1 .. i
                                  /\ Chosen(lead, t, i)
                                  /\ rec.entry = lead[t][rec.index]
  BY <1>2 DEF RecordSettled
<1>4. PICK u \in Nat, F \in Seq(KnownEntries) : u = term[n] /\ F = full[n]
  BY <1>1, IndexTypes DEF Logs
<1>5. Led(u) /\ lead[u] = F /\ Fits(F, log[n], snapshot[n])
  BY <1>1, <1>4 DEF Logs, Records, Led
<1>6. t <= u
  <2>1. rec.term \in Nat
    BY DEF Shape, ShapedLogs, CommitRecords
  <2> QED  BY <1>3, <1>4, <2>1
<1>7. SameUpTo(lead[t], F, i)
  BY <1>1, <1>3, <1>5, <1>6, LeadersShare
<1>8. rec.index \in 1 .. Len(F) /\ F[rec.index] = rec.entry
  <2>1. Len(F) \in Nat /\ i <= Len(F)
    BY <1>7, LoggedTypes DEF SameUpTo
  <2>2. F[rec.index] = rec.entry
    BY <1>3, <1>7 DEF SameUpTo
  <2> QED  BY <1>3, <2>1, <2>2
<1> QED  BY <1>5, <1>8, HoldsWhole

LEMMA MachinesAgree ==
    ASSUME Shape, EveryCommitExplained
    PROVE  StateMachineSafety
<1> SUFFICES ASSUME NEW n \in Nodes, NEW rec \in committed
             PROVE  /\ rec.index <= commitIndex[n] =>
                         /\ rec.index <= Len(applied[n])
                         /\ applied[n][rec.index] = rec.entry.cmd
                    /\ rec.index <= Base(n) =>
                         snapshot[n].image[rec.index] = rec.entry.cmd
  BY DEF StateMachineSafety
<1>1. PICK lead, full : Logs(lead, full) /\ Commits(lead, full)
  BY DEF EveryCommitExplained, Explains
<1>2. RecordSettled(lead, rec)
  BY <1>1 DEF Commits
<1>3. PICK t \in Nat, i \in Nat : /\ rec.index \in 1 .. i
                                  /\ Chosen(lead, t, i)
                                  /\ rec.entry = lead[t][rec.index]
  BY <1>2 DEF RecordSettled
<1>4. PICK u \in Nat, F \in Seq(KnownEntries), c \in Nat, b \in Nat, j \in Nat :
        u = term[n] /\ F = full[n] /\ c = commitIndex[n] /\ b = Base(n) /\ b <= c
        /\ j = rec.index
  <2>1. rec.index \in Nat
    BY <1>3
  <2> QED  BY <1>1, <2>1, IndexTypes DEF Logs
<1>5. ServerSettled(lead, F, n)
  BY <1>1, <1>4 DEF Commits
<1>6. /\ Settled(lead, F, u, c)
      /\ IsImage(applied[n], F, c)
      /\ IsImage(snapshot[n].image, F, b)
  BY <1>4, <1>5 DEF ServerSettled
<1>7. ASSUME j <= c PROVE F[j] = rec.entry
  <2>1. c # 0
    BY <1>3, <1>4, <1>7
  <2>2. PICK x \in Nat, k \in Nat : c <= k /\ Chosen(lead, x, k) /\ SameUpTo(F, lead[x], c)
    BY <1>6, <2>1 DEF Settled
  <2>3. j \in 1 .. i /\ j \in 1 .. k /\ j \in 1 .. c
    BY <1>3, <1>4, <1>7, <2>2
  <2>4. lead[t][j] = lead[x][j]
    BY <1>1, <1>3, <2>2, <2>3, ChosenAgree
  <2>5. F[j] = lead[x][j]
    BY <2>2, <2>3 DEF SameUpTo
  <2> QED  BY <1>3, <1>4, <2>4, <2>5
<1>8. ASSUME j <= c PROVE j <= Len(applied[n]) /\ applied[n][j] = rec.entry.cmd
  <2>1. Len(applied[n]) = c
    BY <1>4 DEF Shape, ShapedLogs
  <2>2. j \in 1 .. c
    BY <1>3, <1>4, <1>8
  <2> QED  BY <1>6, <1>7, <1>8, <2>1, <2>2 DEF IsImage
<1>9. ASSUME j <= b PROVE snapshot[n].image[j] = rec.entry.cmd
  <2>1. j <= c /\ j \in 1 .. b
    BY <1>3, <1>4, <1>9
  <2> QED  BY <1>6, <1>7, <2>1 DEF IsImage
<1> QED  BY <1>4, <1>8, <1>9

\* What was chosen is still stored by everyone who acknowledged it.
LEMMA ChosenHeld ==
    ASSUME Records, NEW lead, NEW full, Logs(lead, full), Commits(lead, full),
           NEW t \in Nat, NEW i \in Nat, Chosen(lead, t, i), NEW v \in Nodes, Acked(v, t, i),
           term[v] \in Nat
    PROVE  SameUpTo(lead[t], full[v], i)
<1>1. t <= term[v]
  BY AckedTerm
<1>2. Has(lead[t], t, i)
  BY DEF Chosen
<1>3. Has(full[v], t, i) \/ Dropped(lead, t, i, term[v])
  <2>1. Covers(lead, full[v], v, term[v] + 1, term[v])
    BY DEF Commits, AcksKept
  <2>2. t < term[v] + 1
    BY <1>1
  <2> QED  BY <1>2, <2>1, <2>2 DEF Covers
<1>4. ~Dropped(lead, t, i, term[v])
  <2> SUFFICES ASSUME NEW w \in t + 1 .. term[v], Led(w), ~Has(lead[w], t, i)
               PROVE  FALSE
    BY DEF Dropped
  <2>1. w \in Nat /\ t < w
    OBVIOUS
  <2> QED  BY <2>1, LeadersHave
<1>5. PICK T \in Seq(KnownEntries), F \in Seq(KnownEntries) : T = lead[t] /\ F = full[v]
  BY DEF Logs
<1>6. Traced(lead, T, t) /\ Traced(lead, F, term[v])
  BY <1>5 DEF Logs
<1>7. /\ i \in 1 .. Len(T) /\ T[i].term = t
      /\ i \in 1 .. Len(F) /\ F[i].term = t
  BY <1>2, <1>3, <1>4, <1>5 DEF Has
<1>8. i <= Len(F)
  BY <1>7, LoggedTypes
<1>9. SameUpTo(T, F, i)
  BY <1>6, <1>7, <1>8, TermFixesLog
<1> QED  BY <1>5, <1>9

LEMMA CommitsLast ==
    ASSUME Shape, Records, EveryCommitExplained
    PROVE  CommittedDurable
<1> SUFFICES ASSUME NEW rec \in committed
             PROVE  Majority({v \in Nodes : Holds(v, rec)}, InitialVoters)
  BY DEF CommittedDurable
<1>1. PICK lead, full : Logs(lead, full) /\ Commits(lead, full)
  BY DEF EveryCommitExplained, Explains
<1>2. RecordSettled(lead, rec)
  BY <1>1 DEF Commits
<1>3. PICK t \in Nat, i \in Nat : /\ rec.index \in 1 .. i
                                  /\ Chosen(lead, t, i)
                                  /\ rec.entry = lead[t][rec.index]
  BY <1>2 DEF RecordSettled
<1>4. ASSUME NEW v \in Nodes, Acked(v, t, i) PROVE Holds(v, rec)
  <2>1. PICK F \in Seq(KnownEntries) : F = full[v] /\ Fits(F, log[v], snapshot[v])
    BY <1>1 DEF Logs
  <2>2. SameUpTo(lead[t], F, i)
    <3>1. term[v] \in Nat
      BY IndexTypes
    <3> QED  BY <1>1, <1>3, <1>4, <2>1, <3>1, ChosenHeld
  <2>3. i <= Len(F) /\ F[rec.index] = rec.entry
    BY <1>3, <2>2 DEF SameUpTo
  <2>4. rec.index \in 1 .. Len(F)
    BY <1>3, <2>3, LoggedTypes
  <2> QED  BY <2>1, <2>3, <2>4, HoldsWhole
<1>5. {v \in Nodes : Acked(v, t, i)} \subseteq {v \in Nodes : Holds(v, rec)}
  BY <1>4
<1>6. Majority({v \in Nodes : Acked(v, t, i)}, InitialVoters)
  BY <1>3 DEF Chosen
<1> QED  BY <1>5, <1>6, VotersFinite, MajorityGrows

-----------------------------------------------------------------------------
(***************************************************************************)
(* One server at a time commits, and what it commits is observed.          *)
(***************************************************************************)
CommitsObserved(n) ==
    \/ /\ committed' = committed
       /\ \/ commitIndex'[n] <= commitIndex[n]
          \/ \E m \in network : /\ m.type = "InstallSnapshot"
                                /\ commitIndex'[n] = m.snapshot.lastIndex
    \/ /\ commitIndex'[n] > commitIndex[n]
       /\ \E lg, t : Observe(n, lg, commitIndex'[n], t)

CommitsBy(n) ==
    /\ \A k \in Nodes \ {n} : commitIndex'[k] = commitIndex[k] /\ applied'[k] = applied[k]
    /\ CommitsObserved(n)

LEMMA IdleObserved ==
    ASSUME Shape, NEW n \in Nodes, UNCHANGED <<commitIndex, applied, committed>>
    PROVE  CommitsBy(n)
<1>1. commitIndex'[n] <= commitIndex[n]
  BY IndexTypes
<1> QED  BY <1>1 DEF CommitsBy, CommitsObserved

LEMMA SetCommitObserved ==
    ASSUME Shape, NEW n \in Nodes, NEW lg, NEW ci, NEW t, SetCommitIndex(n, lg, ci, t)
    PROVE  CommitsBy(n)
<1>1. CASE UNCHANGED commitVars
  BY <1>1, IdleObserved DEF commitVars
<1>2. CASE /\ ci > commitIndex[n]
           /\ commitIndex' = [commitIndex EXCEPT ![n] = ci]
           /\ \E history : applied' = [applied EXCEPT ![n] = history]
           /\ Observe(n, lg, ci, t)
  <2>1. /\ commitIndex'[n] = ci
        /\ \A k \in Nodes \ {n} : commitIndex'[k] = commitIndex[k]
                                  /\ applied'[k] = applied[k]
    BY <1>2 DEF Shape, ShapedLogs
  <2> QED  BY <1>2, <2>1 DEF CommitsBy, CommitsObserved
<1> QED  BY <1>1, <1>2, Zenon DEF SetCommitIndex

LEMMA InstallObserved ==
    ASSUME Shape, NEW n \in Nodes, NEW m \in network, HandleInstallSnapshot(n, m)
    PROVE  CommitsBy(n)
<1>1. UNCHANGED committed /\ m.type = "InstallSnapshot"
  BY DEF HandleInstallSnapshot
<1>2. CASE UNCHANGED <<commitIndex, applied>>
  BY <1>1, <1>2, IdleObserved
<1>3. CASE /\ commitIndex' = [commitIndex EXCEPT ![n] = m.snapshot.lastIndex]
           /\ applied' = [applied EXCEPT ![n] = m.snapshot.image]
  BY <1>1, <1>3 DEF Shape, ShapedLogs, CommitsBy, CommitsObserved
<1> QED  BY <1>2, <1>3 DEF HandleInstallSnapshot

LEMMA CrashObserved ==
    ASSUME Shape, NEW n \in Nodes, Crash(n)
    PROVE  CommitsBy(n)
<1>1. /\ commitIndex' = [commitIndex EXCEPT ![n] = Base(n)]
      /\ applied' = [applied EXCEPT ![n] = Restored(n)]
      /\ UNCHANGED committed
  BY DEF Crash, Base
<1>2. /\ commitIndex'[n] = Base(n)
      /\ \A k \in Nodes \ {n} : commitIndex'[k] = commitIndex[k]
                                /\ applied'[k] = applied[k]
  BY <1>1 DEF Shape, ShapedLogs
<1>3. commitIndex'[n] <= commitIndex[n]
  BY <1>2, IndexTypes
<1> QED  BY <1>1, <1>2, <1>3 DEF CommitsBy, CommitsObserved

LEMMA NextObserved ==
    ASSUME Shape, Next
    PROVE  \E n \in Nodes : CommitsBy(n)
<1>1. ASSUME NEW n \in Nodes, Receive(n) PROVE CommitsBy(n)
  <2>1. PICK m \in network :
          \/ HandleRequestVote(n, m)
          \/ HandleVoteReply(n, m)
          \/ HandleAppendEntries(n, m)
          \/ HandleAppendReply(n, m)
          \/ HandleInstallSnapshot(n, m)
          \/ HandleReadHeartbeat(n, m)
          \/ HandleReadAck(n, m)
    BY <1>1 DEF Receive
  <2>2. CASE HandleAppendEntries(n, m) \/ HandleAppendReply(n, m)
    <3>1. UNCHANGED commitVars \/ \E lg, ci, t : SetCommitIndex(n, lg, ci, t)
      BY <2>2, Zenon DEF HandleAppendEntries, HandleAppendReply, StepDown
    <3> QED  BY <3>1, SetCommitObserved, IdleObserved DEF commitVars
  <2>3. CASE \/ HandleRequestVote(n, m)
             \/ HandleVoteReply(n, m)
             \/ HandleReadHeartbeat(n, m)
             \/ HandleReadAck(n, m)
    BY <2>3, IdleObserved DEF HandleRequestVote, HandleVoteReply, HandleReadHeartbeat,
       HandleReadAck, StepDown, commitVars
  <2> QED  BY <2>1, <2>2, <2>3, InstallObserved
<1>2. ASSUME NEW n \in Nodes,
             \/ StartElection(n)
             \/ Heartbeat(n)
             \/ \E c \in Clients : ClientCommand(n, c) \/ RequestRead(n, c)
             \/ \E V \in Proposals : ChangeConfig(n, V)
             \/ Resume(n)
      PROVE  CommitsBy(n)
  BY <1>2, IdleObserved DEF StartElection, Heartbeat, ClientCommand, RequestRead,
     ChangeConfig, Resume, commitVars
<1> QED  BY <1>1, <1>2, CrashObserved DEF Next

\* Whatever is observed as committed first is so by a server that commits it.
LEMMA ObservedFresh ==
    ASSUME Shape, Next, NEW rec \in committed', rec \notin committed
    PROVE  \E n \in Nodes : commitIndex'[n] >= rec.index /\ commitIndex[n] < rec.index
<1>1. PICK n \in Nodes : CommitsBy(n)
  BY NextObserved
<1>2. PICK ci : ci = commitIndex'[n]
  OBVIOUS
<1>3. PICK lg, t : Observe(n, lg, ci, t)
  BY <1>1, <1>2 DEF CommitsBy, CommitsObserved
<1>4. PICK i \in commitIndex[n] + 1 .. ci : rec.index = i
  BY <1>3 DEF Observe
<1>5. commitIndex[n] \in Nat
  BY IndexTypes
<1> QED  BY <1>2, <1>4, <1>5

-----------------------------------------------------------------------------
(***************************************************************************)
(* The promises.  All hold of any number of servers, whatever is lost,     *)
(* repeated, late or out of order, whoever crashes and whatever is         *)
(* compacted or installed, as long as no configuration change is proposed. *)
(***************************************************************************)
\* A leader stores every entry committed in its term or before: the election
\* restriction and the commit rule together forbid that a committed entry is
\* overwritten (_on_request_vote, _advance_commit; the hazards of Figure 8).
THEOREM LeadersKeepCommits ==
    ASSUME Proposals = {}
    PROVE  Spec => []LeaderCompleteness
<1>1. Shape /\ Records /\ EveryCommitExplained => LeaderCompleteness
  BY LeadersComplete
<1> QED  BY <1>1, ShapeInvariant, OneLeaderPerTerm, LogsAreTraced, CommitsExplained, PTL

\* No two state machines are ever fed different commands for one index, live,
\* from a snapshot or after a restart (_set_commit_index, _on_install_snapshot,
\* pause).
THEOREM MachinesNeverDiverge ==
    ASSUME Proposals = {}
    PROVE  Spec => []StateMachineSafety
<1>1. Shape /\ EveryCommitExplained => StateMachineSafety
  BY MachinesAgree
<1> QED  BY <1>1, ShapeInvariant, CommitsExplained, PTL

\* Committed entries stay on a majority for ever (_on_append_entries,
\* _on_install_snapshot, pause).
THEOREM CommitsNeverLost ==
    ASSUME Proposals = {}
    PROVE  Spec => []CommittedDurable
<1>1. Shape /\ Records /\ EveryCommitExplained => CommittedDurable
  BY CommitsLast
<1> QED  BY <1>1, ShapeInvariant, OneLeaderPerTerm, LogsAreTraced, CommitsExplained, PTL

\* When an entry is first seen committed, a majority of the committing server's
\* configuration stores it (_advance_commit; _observe_commits of the checker).
THEOREM CommitsHaveQuorum ==
    ASSUME Proposals = {}
    PROVE  Spec => CommitQuorum
<1> DEFINE Fixed == \A n \in Nodes : config[n].voters = InitialVoters
           Backed == \A rec \in committed' \ committed :
                       \E n \in Nodes :
                         /\ commitIndex'[n] >= rec.index
                         /\ commitIndex[n] < rec.index
                         /\ Majority({v \in Nodes : Holds(v, rec)'}, config'[n].voters)
<1>1. Shape => Fixed
  BY VotersFixed
<1>2. Shape /\ Fixed' /\ CommittedDurable' /\ [Next]_vars => [Backed]_vars
  <2> SUFFICES ASSUME Shape, Fixed', CommittedDurable', Next,
                      NEW rec \in committed', rec \notin committed
               PROVE  \E n \in Nodes :
                        /\ commitIndex'[n] >= rec.index
                        /\ commitIndex[n] < rec.index
                        /\ Majority({v \in Nodes : Holds(v, rec)'}, config'[n].voters)
    OBVIOUS
  <2>1. PICK n \in Nodes : commitIndex'[n] >= rec.index /\ commitIndex[n] < rec.index
    BY ObservedFresh
  <2>2. Majority({v \in Nodes : Holds(v, rec)'}, InitialVoters)
    BY DEF CommittedDurable
  <2>3. config'[n].voters = InitialVoters
    OBVIOUS
  <2> QED  BY <2>1, <2>2, <2>3
<1> QED  BY <1>1, <1>2, ShapeInvariant, CommitsNeverLost, PTL DEF Spec, CommitQuorum
-----------------------------------------------------------------------------
\* No server but a crashing one loses commits.
Kept(n) == commitIndex'[n] < commitIndex[n] => alive[n] /\ ~alive'[n]

LEMMA UntouchedKept ==
    ASSUME Shape, NEW n \in Nodes, UNCHANGED commitIndex
    PROVE  Kept(n)
<1>1. commitIndex[n] \in Nat
  BY IndexTypes
<1> QED  BY <1>1 DEF Kept

LEMMA RaisedKept ==
    ASSUME Shape, NEW n \in Nodes, NEW k \in Nodes, NEW ci \in Nat,
           ci >= commitIndex[n], commitIndex' = [commitIndex EXCEPT ![n] = ci]
    PROVE  Kept(k)
<1>1. commitIndex \in [Nodes -> Nat]
  BY DEF Shape, ShapedLogs
<1> QED  BY <1>1 DEF Kept

\* _set_commit_index only ever raises it.
LEMMA SetCommitIndexKept ==
    ASSUME Shape, NEW n \in Nodes, NEW k \in Nodes, NEW lg, NEW ci \in Nat, NEW t,
           SetCommitIndex(n, lg, ci, t)
    PROVE  Kept(k)
<1>1. CASE UNCHANGED commitIndex
  BY <1>1, UntouchedKept
<1>2. CASE ci > commitIndex[n] /\ commitIndex' = [commitIndex EXCEPT ![n] = ci]
  <2>1. ci >= commitIndex[n]
    BY <1>2, IndexTypes
  <2> QED  BY <1>2, <2>1, RaisedKept
<1> QED  BY <1>1, <1>2 DEF SetCommitIndex, commitVars

\* A follower takes the larger of its commit index and the leader's.
LEMMA AppendEntriesKept ==
    ASSUME Shape, NEW n \in Nodes, NEW k \in Nodes, NEW m \in network,
           HandleAppendEntries(n, m)
    PROVE  Kept(k)
<1> DEFINE a == AboveBase(n, m)
           match == a.prevIndex + Len(a.entries)
<1>1. CASE UNCHANGED commitVars
  BY <1>1, UntouchedKept DEF commitVars
<1>2. CASE SetCommitIndex(n, Merged(n, a).log, FollowerCommit(n, m, match), m.term)
  <2>1. m.type = "AppendEntries"
    BY DEF HandleAppendEntries
  <2>2. a.prevIndex \in Nat /\ a.entries \in Seq(KnownEntries) /\ m.commit \in Nat
    BY <2>1, AboveBaseShaped
  <2> HIDE DEF a
  <2>3. match \in Nat /\ commitIndex[n] \in Nat
    BY <2>2, LenProperties, IndexTypes
  <2>4. FollowerCommit(n, m, match) \in Nat
    BY <2>2, <2>3 DEF FollowerCommit, Larger, Smaller
  <2> QED  BY <1>2, <2>4, SetCommitIndexKept
<1> QED  BY <1>1, <1>2 DEF HandleAppendEntries

LEMMA AppendReplyKept ==
    ASSUME Shape, NEW n \in Nodes, NEW k \in Nodes, NEW m \in network,
           HandleAppendReply(n, m)
    PROVE  Kept(k)
<1> DEFINE matched == [matchIndex[n] EXCEPT ![m.from] = Larger(@, m.match)]
           S == Committable(n, matched)
<1>1. CASE UNCHANGED commitVars
  BY <1>1, UntouchedKept DEF commitVars
<1>2. CASE S # {} /\ SetCommitIndex(n, log[n], Max(S), term[n])
  <2>1. LastIndex(n) \in Int /\ commitIndex[n] \in Nat
    BY IndexTypes
  <2>2. S \in SUBSET Int /\ \A i \in S : i <= LastIndex(n) /\ i \in Nat
    BY <2>1 DEF Committable
  <2> HIDE DEF S
  <2>3. Max(S) \in Nat
    BY <1>2, <2>1, <2>2, BoundedMax
  <2> QED  BY <1>2, <2>3, SetCommitIndexKept
<1> QED  BY <1>1, <1>2 DEF HandleAppendReply, StepDown

\* A snapshot that is not newer than the commit index is not installed.
LEMMA InstallSnapshotKept ==
    ASSUME Shape, NEW n \in Nodes, NEW k \in Nodes, NEW m \in network,
           HandleInstallSnapshot(n, m)
    PROVE  Kept(k)
<1>1. CASE UNCHANGED commitIndex
  BY <1>1, UntouchedKept
<1>2. CASE /\ ~Covered(n, m.snapshot)
           /\ commitIndex' = [commitIndex EXCEPT ![n] = m.snapshot.lastIndex]
  <2>1. m.type = "InstallSnapshot"
    BY DEF HandleInstallSnapshot
  <2>2. m.snapshot.lastIndex \in Nat
    BY <2>1 DEF Shape, ShapedNetwork, ShapedMessage, SnapshotFull, KnownSnapshots
  <2>3. m.snapshot.lastIndex >= commitIndex[n]
    BY <1>2, <2>2, IndexTypes DEF Covered
  <2> QED  BY <1>2, <2>2, <2>3, RaisedKept
<1> QED  BY <1>1, <1>2 DEF HandleInstallSnapshot

LEMMA NextKept ==
    ASSUME Shape, Next, NEW k \in Nodes
    PROVE  Kept(k)
<1>1. ASSUME NEW n \in Nodes, StartElection(n) PROVE Kept(k)
  BY <1>1, UntouchedKept DEF StartElection, commitVars
<1>2. ASSUME NEW n \in Nodes, Heartbeat(n) PROVE Kept(k)
  BY <1>2, UntouchedKept DEF Heartbeat, commitVars
<1>3. ASSUME NEW n \in Nodes, Receive(n) PROVE Kept(k)
  <2>1. PICK m \in network :
          \/ HandleRequestVote(n, m) \/ HandleVoteReply(n, m)
          \/ HandleAppendEntries(n, m)
          \/ HandleAppendReply(n, m)
          \/ HandleInstallSnapshot(n, m)
          \/ HandleReadHeartbeat(n, m) \/ HandleReadAck(n, m)
    BY <1>3 DEF Receive
  <2>2. CASE HandleRequestVote(n, m) \/ HandleVoteReply(n, m)
    BY <2>2, UntouchedKept DEF HandleRequestVote, HandleVoteReply, StepDown, commitVars
  <2>3. CASE HandleReadHeartbeat(n, m) \/ HandleReadAck(n, m)
    BY <2>3, UntouchedKept DEF HandleReadHeartbeat, HandleReadAck, StepDown, commitVars
  <2> QED  BY <2>1, <2>2, <2>3, AppendEntriesKept, AppendReplyKept, InstallSnapshotKept
<1>4. ASSUME NEW n \in Nodes, NEW c \in Clients,
             ClientCommand(n, c) \/ RequestRead(n, c)
      PROVE  Kept(k)
  BY <1>4, UntouchedKept DEF ClientCommand, RequestRead, commitVars
<1>5. ASSUME NEW n \in Nodes, NEW V \in Proposals, ChangeConfig(n, V) PROVE Kept(k)
  BY <1>5, UntouchedKept DEF ChangeConfig, commitVars
<1>6. ASSUME NEW n \in Nodes, Crash(n) PROVE Kept(k)
  <2>1. /\ commitIndex \in [Nodes -> Nat]
        /\ alive \in [Nodes -> BOOLEAN]
    BY DEF Shape, ShapedLogs, ShapedElections
  <2>2. /\ alive[n]
        /\ alive' = [alive EXCEPT ![n] = FALSE]
        /\ commitIndex' = [commitIndex EXCEPT ![n] = snapshot[n].lastIndex]
    BY <1>6 DEF Crash
  <2> QED  BY <2>1, <2>2 DEF Kept
<1>7. ASSUME NEW n \in Nodes, Resume(n) PROVE Kept(k)
  BY <1>7, UntouchedKept DEF Resume, commitVars
<1> QED  BY <1>1, <1>2, <1>3, <1>4, <1>5, <1>6, <1>7 DEF Next

\* In every instance of the model no message, however late, duplicated or
\* reordered, takes a commit back: only a crash lowers a commit index
\* (_set_commit_index, _on_append_entries, _on_install_snapshot).
THEOREM CommitIndexNeverFalls == Spec => CommitIndexMonotonic
<1>1. Shape /\ [Next]_vars => [\A n \in Nodes : Kept(n)]_vars
  BY NextKept
<1> QED  BY <1>1, ShapeInvariant, PTL DEF Spec, CommitIndexMonotonic, Kept
=============================================================================

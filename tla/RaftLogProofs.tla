--------------------------- MODULE RaftLogProofs ---------------------------
(***************************************************************************)
(* Where the entries of every log came from, and with it Log Matching, in  *)
(* every instance of RaftNode that elects one leader per term: whatever    *)
(* configurations are appended, compacted, installed and truncated.        *)
(***************************************************************************)
EXTENDS RaftElectionProofs

-----------------------------------------------------------------------------
(***************************************************************************)
(* Logs: where every entry came from.  Compacted entries are gone from the *)
(* state, and so are the logs of former leaders, but the invariant may     *)
(* speak of both: it says that there are                                   *)
(*   full[n]  the log of n from index 1 on, compacted entries included;    *)
(*   lead[t]  the whole log of the leader of term t when it last led,      *)
(* such that the state fits them.  They stand in for history variables.     *)
(***************************************************************************)
\* Sequences L and M are the same up to index i.
SameUpTo(L, M, i) == /\ i <= Len(L)
                     /\ i <= Len(M)
                     /\ \A j \in 1 .. i : L[j] = M[j]

\* Some server led term t.
Led(t) == \E n \in Nodes : <<t, n>> \in leadersByTerm

\* The log lg above snapshot s is what is stored of L, and s knows its last term.
Fits(L, lg, s) ==
    /\ Len(L) = s.lastIndex + Len(lg)
    /\ \A i \in s.lastIndex + 1 .. Len(L) : L[i] = lg[i - s.lastIndex]
    /\ s.lastTerm = IF s.lastIndex = 0 THEN 0 ELSE L[s.lastIndex].term

\* Every entry of L is of a term up to t, and L up to it is what the leader of
\* that term had up to it.
Traced(lead, L, t) ==
    \A i \in 1 .. Len(L) : L[i].term <= t /\ SameUpTo(L, lead[L[i].term], i)

\* Message m comes from a leader whose log is L.
TracedMessage(L, m) ==
    /\ m.type = "AppendEntries" =>
         /\ \A k \in 1 .. Len(m.entries) :
              m.prevIndex + k <= Len(L) /\ m.entries[k] = L[m.prevIndex + k]
         /\ m.entries # <<>> /\ m.prevIndex > 0 => m.prevTerm = L[m.prevIndex].term
    /\ m.type = "InstallSnapshot" =>
         /\ m.snapshot.lastIndex \in 1 .. Len(L)
         /\ m.snapshot.lastTerm = L[m.snapshot.lastIndex].term

Logs(lead, full) ==
    /\ lead \in [Nat -> Seq(KnownEntries)]
    /\ full \in [Nodes -> Seq(KnownEntries)]
    /\ \A n \in Nodes : /\ Fits(full[n], log[n], snapshot[n])
                        /\ Traced(lead, full[n], term[n])
                        /\ role[n] = "leader" => full[n] = lead[term[n]]
    /\ \A t \in Nat : /\ Traced(lead, lead[t], t)
                      /\ lead[t] # <<>> => Led(t)
    /\ \A m \in network :
         m.type \in {"AppendEntries", "InstallSnapshot"} =>
           Led(m.term) /\ TracedMessage(lead[m.term], m)

EveryLogTraced == \E lead, full : Logs(lead, full)

\* A leader is on record, and nobody campaigns in a term it has led.
Records ==
    \A n \in Nodes :
      /\ role[n] = "leader" => <<term[n], n>> \in leadersByTerm
      /\ role[n] = "candidate" => <<term[n], n>> \notin leadersByTerm
      /\ \A t \in Nat : <<t, n>> \in leadersByTerm => t <= term[n]

-----------------------------------------------------------------------------
(***************************************************************************)
(* Traced logs.                                                            *)
(***************************************************************************)
LEMMA LoggedTypes ==
    ASSUME NEW L \in Seq(KnownEntries)
    PROVE  /\ Len(L) \in Nat
           /\ \A i \in 1 .. Len(L) : L[i] \in KnownEntries /\ L[i].term \in Nat
<1>1. Len(L) \in Nat
  BY LenProperties
<1>2. \A i \in 1 .. Len(L) : L[i] \in KnownEntries
  BY ElementOfSeq
<1>3. \A e \in KnownEntries : e.term \in Nat
  BY DEF KnownEntries
<1> QED  BY <1>1, <1>2, <1>3

\* Every log of lead is traced to lead.
Leads(lead) ==
    /\ lead \in [Nat -> Seq(KnownEntries)]
    /\ \A t \in Nat : Traced(lead, lead[t], t)

LEMMA SameTransitive ==
    ASSUME NEW L, NEW M, NEW N, NEW i \in Int, NEW k \in Int, i <= k,
           Len(N) \in Int, SameUpTo(L, M, i), SameUpTo(M, N, k)
    PROVE  SameUpTo(L, N, i)
BY DEF SameUpTo

LEMMA SameSymmetric ==
    ASSUME NEW L, NEW M, NEW i, SameUpTo(L, M, i)
    PROVE  SameUpTo(M, L, i)
BY DEF SameUpTo

LEMMA SameLess ==
    ASSUME NEW L, NEW M, NEW i \in Int, NEW k \in Int, i <= k, SameUpTo(L, M, k),
           Len(L) \in Int, Len(M) \in Int
    PROVE  SameUpTo(L, M, i)
BY DEF SameUpTo

\* Traced logs with an entry of one term at one index are the same up to it.
LEMMA TermFixesLog ==
    ASSUME NEW lead, NEW L \in Seq(KnownEntries), NEW M \in Seq(KnownEntries),
           NEW t, NEW u, Traced(lead, L, t), Traced(lead, M, u),
           NEW i \in 1 .. Len(L), i <= Len(M), L[i].term = M[i].term
    PROVE  SameUpTo(L, M, i)
<1>1. i \in 1 .. Len(M)
  BY LoggedTypes
<1>2. SameUpTo(L, lead[L[i].term], i) /\ SameUpTo(M, lead[L[i].term], i)
  BY <1>1 DEF Traced
<1> QED  BY <1>2 DEF SameUpTo

\* A shorter log is as well traced, in as late a term.
LEMMA TracedPrefix ==
    ASSUME NEW lead, NEW L \in Seq(KnownEntries), NEW M \in Seq(KnownEntries),
           NEW t \in Nat, NEW u \in Nat, t <= u, Traced(lead, L, t),
           SameUpTo(L, M, Len(M))
    PROVE  Traced(lead, M, u)
<1> SUFFICES ASSUME NEW i \in 1 .. Len(M)
             PROVE  M[i].term <= u /\ SameUpTo(M, lead[M[i].term], i)
  BY DEF Traced
<1>1. i \in 1 .. Len(L) /\ M[i] = L[i] /\ Len(M) \in Nat
  BY LoggedTypes DEF SameUpTo
<1>2. L[i].term \in Nat /\ L[i].term <= t /\ SameUpTo(L, lead[L[i].term], i)
  BY <1>1, LoggedTypes DEF Traced
<1>3. \A j \in 1 .. i : M[j] = L[j]
  BY <1>1 DEF SameUpTo
<1> QED  BY <1>1, <1>2, <1>3 DEF SameUpTo

\* lead2 has all of lead's logs, and may have added to them.
Extends(lead, lead2) ==
    \A t \in Nat : SameUpTo(lead[t], lead2[t], Len(lead[t]))

LEMMA TracedGrows ==
    ASSUME NEW lead \in [Nat -> Seq(KnownEntries)],
           NEW lead2 \in [Nat -> Seq(KnownEntries)], Extends(lead, lead2),
           NEW L \in Seq(KnownEntries), NEW t, Traced(lead, L, t)
    PROVE  Traced(lead2, L, t)
<1> SUFFICES ASSUME NEW i \in 1 .. Len(L)
             PROVE  L[i].term <= t /\ SameUpTo(L, lead2[L[i].term], i)
  BY DEF Traced
<1>1. L[i].term \in Nat /\ Len(L) \in Nat
  BY LoggedTypes
<1>2. L[i].term <= t /\ SameUpTo(L, lead[L[i].term], i)
  BY DEF Traced
<1>3. PICK u \in Nat : u = L[i].term
  BY <1>1
<1>4. SameUpTo(lead[u], lead2[u], Len(lead[u])) /\ SameUpTo(L, lead[u], i)
  BY <1>2, <1>3 DEF Extends
<1>5. Len(lead[u]) \in Nat /\ Len(lead2[u]) \in Nat /\ i <= Len(lead[u])
  BY <1>4, LoggedTypes DEF SameUpTo
<1>6. SameUpTo(L, lead2[u], i)
  BY <1>1, <1>4, <1>5, SameTransitive
<1> QED  BY <1>2, <1>3, <1>6

\* Terms never decrease along a traced log.
LEMMA TracedOrdered ==
    ASSUME NEW lead, Leads(lead), NEW L \in Seq(KnownEntries), NEW t,
           Traced(lead, L, t), NEW i \in 1 .. Len(L), NEW j \in 1 .. i
    PROVE  L[j].term <= L[i].term
<1>1. L[i].term \in Nat /\ Len(L) \in Nat
  BY LoggedTypes
<1>2. PICK u \in Nat : u = L[i].term
  BY <1>1
<1>3. SameUpTo(L, lead[u], i) /\ lead[u] \in Seq(KnownEntries) /\ Traced(lead, lead[u], u)
  BY <1>2 DEF Traced, Leads
<1>4. L[j] = lead[u][j] /\ j \in 1 .. Len(lead[u])
  BY <1>1, <1>3, LoggedTypes DEF SameUpTo
<1>5. lead[u][j].term <= u
  BY <1>3, <1>4 DEF Traced
<1> QED  BY <1>2, <1>4, <1>5

\* A message that a leader's log explains, it explains when it has grown.
LEMMA TracedMessageGrows ==
    ASSUME NEW L \in Seq(KnownEntries), NEW M \in Seq(KnownEntries),
           SameUpTo(L, M, Len(L)), NEW m, ShapedMessage(m), TracedMessage(L, m),
           m.type \in {"AppendEntries", "InstallSnapshot"}
    PROVE  TracedMessage(M, m)
<1>1. Len(L) \in Nat /\ Len(M) \in Nat
  BY LoggedTypes
<1>2. CASE m.type = "AppendEntries"
  <2>1. m.prevIndex \in Nat /\ m.entries \in Seq(KnownEntries) /\ Len(m.entries) \in Nat
    BY <1>2, LoggedTypes DEF ShapedMessage
  <2>2. \A k \in 1 .. Len(m.entries) :
          m.prevIndex + k <= Len(M) /\ m.entries[k] = M[m.prevIndex + k]
    <3> SUFFICES ASSUME NEW k \in 1 .. Len(m.entries)
                 PROVE  /\ m.prevIndex + k <= Len(M)
                        /\ m.entries[k] = M[m.prevIndex + k]
      OBVIOUS
    <3>1. m.prevIndex + k <= Len(L) /\ m.entries[k] = L[m.prevIndex + k]
      BY <1>2 DEF TracedMessage
    <3>2. PICK j \in Nat : j = m.prevIndex + k /\ j >= 1
      BY <2>1
    <3>3. j \in 1 .. Len(L) /\ j <= Len(M) /\ L[j] = M[j]
      BY <1>1, <3>1, <3>2 DEF SameUpTo
    <3> QED  BY <3>1, <3>2, <3>3
  <2>3. m.entries # <<>> /\ m.prevIndex > 0 => m.prevIndex \in 1 .. Len(L)
    <3>1. m.entries # <<>> => 1 \in 1 .. Len(m.entries)
      BY <2>1, EmptySeq
    <3> QED  BY <1>1, <1>2, <2>1, <3>1 DEF TracedMessage
  <2>4. m.entries # <<>> /\ m.prevIndex > 0 => m.prevTerm = M[m.prevIndex].term
    BY <1>2, <2>3 DEF TracedMessage, SameUpTo
  <2> QED  BY <1>2, <2>2, <2>4 DEF TracedMessage
<1>3. CASE m.type = "InstallSnapshot"
  BY <1>1, <1>3 DEF TracedMessage, SameUpTo
<1> QED  BY <1>2, <1>3

-----------------------------------------------------------------------------
(***************************************************************************)
(* Steps of one server: what a step has to show to keep Logs.              *)
(***************************************************************************)
\* The step leaves every server but n alone.
Apart(n) ==
    \A k \in Nodes \ {n} : /\ log'[k] = log[k]
                           /\ snapshot'[k] = snapshot[k]
                           /\ term'[k] = term[k]
                           /\ role'[k] = role[k]

Explained(lead, ms) ==
    \A m \in ms : m.type \in {"AppendEntries", "InstallSnapshot"} =>
                    Led(m.term) /\ TracedMessage(lead[m.term], m)

LEMMA LogsGrow ==
    ASSUME ShapedNetwork, NEW lead, NEW full, Logs(lead, full),
           NEW lead2 \in [Nat -> Seq(KnownEntries)], Extends(lead, lead2),
           leadersByTerm \subseteq leadersByTerm'
    PROVE  /\ \A t \in Nat : Led(t) => Led(t)'
           /\ \A m \in network : m.type \in {"AppendEntries", "InstallSnapshot"} =>
                Led(m.term)' /\ TracedMessage(lead2[m.term], m)
           /\ \A n \in Nodes : Traced(lead2, full[n], term[n])
           /\ \A t \in Nat : Traced(lead2, lead[t], t)
<1>1. /\ lead \in [Nat -> Seq(KnownEntries)]
      /\ full \in [Nodes -> Seq(KnownEntries)]
  BY DEF Logs
<1>2. \A t : Led(t) => Led(t)'
  BY DEF Led
<1>3. ASSUME NEW m \in network, m.type \in {"AppendEntries", "InstallSnapshot"}
      PROVE  Led(m.term)' /\ TracedMessage(lead2[m.term], m)
  <2>1. ShapedMessage(m) /\ m.term \in Nat
    BY DEF ShapedNetwork, ShapedMessage
  <2>2. PICK t \in Nat : t = m.term
    BY <2>1
  <2>3. Led(t) /\ TracedMessage(lead[t], m)
    BY <1>3, <2>2 DEF Logs
  <2>4. SameUpTo(lead[t], lead2[t], Len(lead[t]))
    BY DEF Extends
  <2>5. TracedMessage(lead2[t], m)
    BY <1>1, <1>3, <2>1, <2>3, <2>4, TracedMessageGrows
  <2> QED  BY <1>2, <2>2, <2>3, <2>5
<1>4. ASSUME NEW n \in Nodes PROVE Traced(lead2, full[n], term[n])
  BY <1>1, TracedGrows DEF Logs
<1>5. ASSUME NEW t \in Nat PROVE Traced(lead2, lead[t], t)
  BY <1>1, TracedGrows DEF Logs
<1> QED  BY <1>2, <1>3, <1>4, <1>5

LEMMA ExtendsItself ==
    ASSUME NEW lead \in [Nat -> Seq(KnownEntries)]
    PROVE  Extends(lead, lead)
BY LoggedTypes DEF Extends, SameUpTo

\* A step of n that leaves it with log L, and no leader's log longer.
LEMMA FollowerLogs ==
    ASSUME Shape, NEW lead, NEW full, Logs(lead, full), NEW n \in Nodes,
           Apart(n), leadersByTerm \subseteq leadersByTerm',
           NEW L \in Seq(KnownEntries), Fits(L, log'[n], snapshot'[n]),
           Traced(lead, L, term'[n]),
           role'[n] = "leader" => L = lead[term'[n]],
           NEW full2, full2 = [full EXCEPT ![n] = L],
           NEW ms, network' \subseteq network \cup ms, Explained(lead, ms)'
    PROVE  Logs(lead, full2)'
<1>1. /\ lead \in [Nat -> Seq(KnownEntries)]
      /\ full \in [Nodes -> Seq(KnownEntries)]
  BY DEF Logs
<1>2. full2 \in [Nodes -> Seq(KnownEntries)] /\ full2[n] = L
  BY <1>1
<1>3. /\ \A t \in Nat : Led(t) => Led(t)'
      /\ \A m \in network : m.type \in {"AppendEntries", "InstallSnapshot"} =>
           Led(m.term)' /\ TracedMessage(lead[m.term], m)
  BY <1>1, ExtendsItself, LogsGrow DEF Shape
<1>4. \A m \in network' : m.type \in {"AppendEntries", "InstallSnapshot"} =>
        Led(m.term)' /\ TracedMessage(lead[m.term], m)
  BY <1>3 DEF Explained
<1>5. ASSUME NEW k \in Nodes
      PROVE  /\ Fits(full2[k], log'[k], snapshot'[k])
             /\ Traced(lead, full2[k], term'[k])
             /\ role'[k] = "leader" => full2[k] = lead[term'[k]]
  <2>1. CASE k = n
    BY <1>2, <2>1
  <2>2. CASE k # n
    <3>1. full2[k] = full[k]
      BY <1>1, <2>2
    <3> QED  BY <2>2, <3>1 DEF Logs, Apart
  <2> QED  BY <2>1, <2>2
<1>6. \A t \in Nat : Traced(lead, lead[t], t) /\ (lead[t] # <<>> => Led(t)')
  BY <1>3 DEF Logs
<1> QED  BY <1>1, <1>2, <1>4, <1>5, <1>6 DEF Logs

\* A step that leaves n leader with log L, nobody else having led its term.
LEMMA LeaderLogs ==
    ASSUME Shape, Shape', NEW lead, NEW full, Logs(lead, full), NEW n \in Nodes,
           Apart(n), leadersByTerm \subseteq leadersByTerm',
           ElectionSafety', Records', role'[n] = "leader",
           NEW t \in Nat, term'[n] = t,
           NEW L \in Seq(KnownEntries), Fits(L, log'[n], snapshot'[n]),
           SameUpTo(lead[t], L, Len(lead[t])),
           NEW lead2, lead2 = [lead EXCEPT ![t] = L],
           Traced(lead2, L, t),
           NEW full2, full2 = [full EXCEPT ![n] = L],
           NEW ms, network' \subseteq network \cup ms, Explained(lead2, ms)'
    PROVE  Logs(lead2, full2)'
<1>1. /\ lead \in [Nat -> Seq(KnownEntries)]
      /\ full \in [Nodes -> Seq(KnownEntries)]
  BY DEF Logs
<1>2. /\ full2 \in [Nodes -> Seq(KnownEntries)]
      /\ full2[n] = L
      /\ lead2 \in [Nat -> Seq(KnownEntries)]
      /\ lead2[t] = L
      /\ \A u \in Nat \ {t} : lead2[u] = lead[u]
  BY <1>1
<1>3. Extends(lead, lead2)
  <2> SUFFICES ASSUME NEW u \in Nat
               PROVE  SameUpTo(lead[u], lead2[u], Len(lead[u]))
    BY DEF Extends
  <2>1. CASE u = t
    BY <1>2, <2>1
  <2>2. CASE u # t
    <3>1. SameUpTo(lead[u], lead[u], Len(lead[u]))
      BY <1>1, ExtendsItself DEF Extends
    <3> QED  BY <1>2, <2>2, <3>1
  <2> QED  BY <2>1, <2>2
<1>4. /\ \A u \in Nat : Led(u) => Led(u)'
      /\ \A m \in network : m.type \in {"AppendEntries", "InstallSnapshot"} =>
           Led(m.term)' /\ TracedMessage(lead2[m.term], m)
      /\ \A k \in Nodes : Traced(lead2, full[k], term[k])
      /\ \A u \in Nat : Traced(lead2, lead[u], u)
  BY <1>2, <1>3, LogsGrow DEF Shape
<1>5. \A m \in network' : m.type \in {"AppendEntries", "InstallSnapshot"} =>
        Led(m.term)' /\ TracedMessage(lead2[m.term], m)
  BY <1>4 DEF Explained
<1>6. ASSUME NEW k \in Nodes
      PROVE  /\ Fits(full2[k], log'[k], snapshot'[k])
             /\ Traced(lead2, full2[k], term'[k])
             /\ role'[k] = "leader" => full2[k] = lead2[term'[k]]
  <2>1. CASE k = n
    BY <1>2, <2>1
  <2>2. CASE k # n
    <3>1. full2[k] = full[k] /\ term'[k] = term[k] /\ term[k] \in Nat
      BY <1>1, <2>2 DEF Apart, Shape, ShapedElections
    <3>2. role'[k] = "leader" => term'[k] # t
      <4>1. role'[k] = "leader" =>
              <<term'[k], k>> \in leadersByTerm' /\ <<term'[n], n>> \in leadersByTerm'
        BY DEF Records
      <4> QED  BY <2>2, <4>1 DEF ElectionSafety
    <3>3. role'[k] = "leader" => full2[k] = lead2[term'[k]]
      <4>1. PICK u \in Nat : u = term[k]
        BY <3>1
      <4>2. u # t => lead2[u] = lead[u]
        BY <1>2
      <4>3. role[k] = "leader" => full[k] = lead[u]
        BY <4>1 DEF Logs
      <4> QED  BY <2>2, <3>1, <3>2, <4>1, <4>2, <4>3 DEF Apart
    <3> QED  BY <1>4, <2>2, <3>1, <3>3 DEF Logs, Apart
  <2> QED  BY <2>1, <2>2
<1>7. ASSUME NEW u \in Nat
      PROVE  Traced(lead2, lead2[u], u) /\ (lead2[u] # <<>> => Led(u)')
  <2>1. CASE u = t
    <3>1. Led(u)'
      BY <2>1 DEF Records, Led
    <3> QED  BY <1>2, <2>1, <3>1
  <2>2. CASE u # t
    BY <1>2, <1>4, <2>2 DEF Logs
  <2> QED  BY <2>1, <2>2
<1> QED  BY <1>2, <1>5, <1>6, <1>7 DEF Logs

-----------------------------------------------------------------------------
(***************************************************************************)
(* Records: who leads is on record.                                        *)
(***************************************************************************)
\* Servers step down or stay what they are, and no leader is new.
Steady ==
    /\ UNCHANGED leadersByTerm
    /\ \A k \in Nodes :
         /\ term'[k] >= term[k]
         /\ role'[k] # "follower" => role'[k] = role[k] /\ term'[k] = term[k]

LEMMA SteadyRecords ==
    ASSUME Shape, Shape', Records, Steady
    PROVE  Records'
<1>1. /\ term \in [Nodes -> Nat]
      /\ term' \in [Nodes -> Nat]
  BY DEF Shape, ShapedElections
<1> SUFFICES ASSUME NEW n \in Nodes
             PROVE  /\ role'[n] = "leader" => <<term'[n], n>> \in leadersByTerm
                    /\ role'[n] = "candidate" => <<term'[n], n>> \notin leadersByTerm
                    /\ \A t \in Nat : <<t, n>> \in leadersByTerm => t <= term'[n]
  BY DEF Records, Steady
<1>2. \A t \in Nat : <<t, n>> \in leadersByTerm => t <= term'[n]
  <2> SUFFICES ASSUME NEW t \in Nat, <<t, n>> \in leadersByTerm PROVE t <= term'[n]
    OBVIOUS
  <2>1. t <= term[n] /\ term[n] <= term'[n]
    BY DEF Records, Steady
  <2> QED  BY <1>1, <2>1
<1> QED  BY <1>2 DEF Records, Steady

LEMMA CalmSteady == Calm => Steady
BY DEF Calm, Steady

LEMMA RequestVoteSteady ==
    ASSUME Shape, NEW n \in Nodes, NEW m \in network, HandleRequestVote(n, m)
    PROVE  Steady
<1>1. /\ term \in [Nodes -> Nat]
      /\ role \in [Nodes -> {"follower", "candidate", "leader"}]
      /\ m.term \in Nat
  BY DEF Shape, ShapedElections, ShapedNetwork, ShapedMessage
<1>2. /\ term' = [term EXCEPT ![n] = Larger(term[n], m.term)]
      /\ IF m.term > term[n] THEN role' = [role EXCEPT ![n] = "follower"]
                             ELSE UNCHANGED role
      /\ UNCHANGED leadersByTerm
  BY DEF HandleRequestVote
<1>3. /\ Larger(term[n], m.term) \in Nat
      /\ Larger(term[n], m.term) >= term[n]
      /\ ~(m.term > term[n]) => Larger(term[n], m.term) = term[n]
  BY <1>1 DEF Larger
<1> QED  BY <1>1, <1>2, <1>3 DEF Steady

\* What becoming leader means to the logs.
Elected(n, t) ==
    /\ term' = [term EXCEPT ![n] = t]
    /\ role' = [role EXCEPT ![n] = "leader"]
    /\ leadersByTerm' = leadersByTerm \cup {<<t, n>>}
    /\ <<t, n>> \notin leadersByTerm
    /\ UNCHANGED <<log, snapshot>>

LEMMA ElectedRecords ==
    ASSUME Shape, Records, NEW n \in Nodes, NEW t \in Nat, t >= term[n], Elected(n, t)
    PROVE  Records'
<1>1. /\ term \in [Nodes -> Nat]
      /\ role \in [Nodes -> {"follower", "candidate", "leader"}]
  BY DEF Shape, ShapedElections
<1> SUFFICES ASSUME NEW k \in Nodes
             PROVE  /\ role'[k] = "leader" => <<term'[k], k>> \in leadersByTerm'
                    /\ role'[k] = "candidate" => <<term'[k], k>> \notin leadersByTerm'
                    /\ \A u \in Nat : <<u, k>> \in leadersByTerm' => u <= term'[k]
  BY DEF Records
<1>2. /\ role[k] = "leader" => <<term[k], k>> \in leadersByTerm
      /\ role[k] = "candidate" => <<term[k], k>> \notin leadersByTerm
      /\ \A u \in Nat : <<u, k>> \in leadersByTerm => u <= term[k]
  BY DEF Records
<1>3. CASE k = n
  <2>1. term'[k] = t /\ role'[k] = "leader"
    BY <1>1, <1>3 DEF Elected
  <2> QED  BY <1>1, <1>2, <1>3, <2>1 DEF Elected
<1>4. CASE k # n
  <2>1. term'[k] = term[k] /\ role'[k] = role[k]
    BY <1>1, <1>4 DEF Elected
  <2> QED  BY <1>2, <1>4, <2>1 DEF Elected
<1> QED  BY <1>3, <1>4

\* n asks for votes in term t with ms, or leads it with its own vote alone.
SeeksTerm(n, t, ms) ==
    /\ \A m \in ms : /\ m.type = "RequestVote"
                     /\ m.term = t
                     /\ m.from = n
                     /\ m.lastIndex = LastIndex(n)
                     /\ m.lastTerm = TermAt(n, LastIndex(n))
    /\ \/ /\ Elected(n, t)
          /\ BecomeLeader(n, t, ms)
          /\ Majority({n}, config[n].voters)
       \/ /\ term' = [term EXCEPT ![n] = t]
          /\ role' = [role EXCEPT ![n] = "candidate"]
          /\ Send(ms)
          /\ UNCHANGED <<leadersByTerm, log, snapshot, nextIndex, matchIndex>>
    /\ UNCHANGED commitVars
    /\ <<t, n>> \notin leadersByTerm

LEMMA StartElectionCases ==
    ASSUME Shape, Records, NEW n \in Nodes, StartElection(n), NEW t \in Nat, t = term[n] + 1
    PROVE  \E ms : SeeksTerm(n, t, ms)
<1> DEFINE requests == {[type |-> "RequestVote", term |-> t, from |-> n, to |-> p,
                         lastIndex |-> LastIndex(n),
                         lastTerm |-> TermAt(n, LastIndex(n))] :
                          p \in config[n].voters \ {n}}
<1>1. /\ term' = [term EXCEPT ![n] = t]
      /\ \/ /\ BecomeLeader(n, t, requests)
            /\ Majority({n}, config[n].voters)
         \/ /\ role' = [role EXCEPT ![n] = "candidate"]
            /\ Send(requests)
            /\ UNCHANGED <<leadersByTerm, nextIndex, matchIndex>>
      /\ UNCHANGED <<log, snapshot>>
      /\ UNCHANGED commitVars
  BY DEF StartElection, leaderVars
<1>2. \A m \in requests : /\ m.type = "RequestVote"
                          /\ m.term = t
                          /\ m.from = n
                          /\ m.lastIndex = LastIndex(n)
                          /\ m.lastTerm = TermAt(n, LastIndex(n))
  OBVIOUS
<1>3. ~(t <= term[n])
  BY IndexTypes
<1> HIDE DEF requests
<1>4. <<t, n>> \notin leadersByTerm
  BY <1>3 DEF Records
<1>5. BecomeLeader(n, t, requests) => Elected(n, t)
  BY <1>1, <1>4 DEF BecomeLeader, Elected
<1> QED  BY <1>1, <1>2, <1>4, <1>5 DEF SeeksTerm

\* A vote makes a candidate leader, or changes nothing the logs depend on.
LEMMA VoteReplyCases ==
    ASSUME Shape, Records, NEW n \in Nodes, NEW m \in network, HandleVoteReply(n, m)
    PROVE  \/ StepDown(n, m)
           \/ /\ UNCHANGED <<term, role, leadersByTerm, network, log, snapshot,
                             nextIndex, matchIndex>>
              /\ UNCHANGED commitVars
           \/ /\ Elected(n, term[n])
              /\ BecomeLeader(n, term[n], {})
              /\ role[n] = "candidate"
              /\ m.granted
              /\ m.term = term[n]
              /\ Majority(votes[n] \cup {m.from}, config[n].voters)
              /\ UNCHANGED commitVars
<1> SUFFICES ASSUME ~StepDown(n, m)
             PROVE  \/ /\ UNCHANGED <<term, role, leadersByTerm, network, log, snapshot,
                                      nextIndex, matchIndex>>
                       /\ UNCHANGED commitVars
                    \/ /\ Elected(n, term[n])
                       /\ BecomeLeader(n, term[n], {})
                       /\ role[n] = "candidate"
                       /\ m.granted
                       /\ m.term = term[n]
                       /\ Majority(votes[n] \cup {m.from}, config[n].voters)
                       /\ UNCHANGED commitVars
  OBVIOUS
<1>1. /\ role[n] = "candidate"
      /\ m.granted
      /\ m.term = term[n]
      /\ UNCHANGED <<term, log, snapshot>>
      /\ UNCHANGED commitVars
      /\ \/ /\ Majority(votes[n] \cup {m.from}, config[n].voters)
            /\ BecomeLeader(n, term[n], {})
         \/ UNCHANGED <<role, leadersByTerm, network, nextIndex, matchIndex>>
  BY DEF HandleVoteReply, persistentVars, leaderVars
<1>2. term = [term EXCEPT ![n] = term[n]]
  BY DEF Shape, ShapedElections
<1>3. <<term[n], n>> \notin leadersByTerm
  BY <1>1 DEF Records
<1>4. BecomeLeader(n, term[n], {}) => Elected(n, term[n])
  BY <1>1, <1>2, <1>3 DEF BecomeLeader, Elected
<1> QED  BY <1>1, <1>4

\* A candidate starts or wins its election, or the step is steady.
LEMMA NextRecords ==
    ASSUME Shape, Shape', Records, [Next]_vars
    PROVE  Records'
<1>1. CASE UNCHANGED vars
  BY <1>1, SameCalm, CalmSteady, SteadyRecords DEF vars, persistentVars, electionVars
<1>2. ASSUME NEW n \in Nodes, StartElection(n) PROVE Records'
  <2>1. PICK t \in Nat : t = term[n] + 1 /\ t >= term[n]
    <3>1. term[n] \in Nat
      BY IndexTypes
    <3> QED  BY <3>1
  <2>2. /\ \/ Elected(n, t)
           \/ /\ term' = [term EXCEPT ![n] = t]
              /\ role' = [role EXCEPT ![n] = "candidate"]
              /\ UNCHANGED leadersByTerm
        /\ <<t, n>> \notin leadersByTerm
    BY <1>2, <2>1, StartElectionCases DEF SeeksTerm
  <2>3. CASE Elected(n, t)
    BY <2>1, <2>3, ElectedRecords
  <2>4. CASE /\ term' = [term EXCEPT ![n] = t]
             /\ role' = [role EXCEPT ![n] = "candidate"]
             /\ UNCHANGED leadersByTerm
    <3>1. /\ term \in [Nodes -> Nat]
          /\ role \in [Nodes -> {"follower", "candidate", "leader"}]
      BY DEF Shape, ShapedElections
    <3> SUFFICES ASSUME NEW k \in Nodes
                 PROVE  /\ role'[k] = "leader" => <<term'[k], k>> \in leadersByTerm
                        /\ role'[k] = "candidate" => <<term'[k], k>> \notin leadersByTerm
                        /\ \A u \in Nat : <<u, k>> \in leadersByTerm => u <= term'[k]
      BY <2>4 DEF Records
    <3>2. /\ role[k] = "leader" => <<term[k], k>> \in leadersByTerm
          /\ role[k] = "candidate" => <<term[k], k>> \notin leadersByTerm
          /\ \A u \in Nat : <<u, k>> \in leadersByTerm => u <= term[k]
      BY DEF Records
    <3>3. CASE k = n
      <4>1. term'[k] = t /\ role'[k] = "candidate" /\ term[k] \in Nat
        BY <2>4, <3>1, <3>3
      <4>2. \A u \in Nat : <<u, k>> \in leadersByTerm => u <= t
        BY <2>1, <3>2, <3>3, <4>1
      <4> QED  BY <2>2, <3>3, <4>1, <4>2
    <3>4. CASE k # n
      BY <2>4, <3>1, <3>2, <3>4
    <3> QED  BY <3>3, <3>4
  <2> QED  BY <2>2, <2>3, <2>4
<1>3. ASSUME NEW n \in Nodes, Receive(n) PROVE Records'
  <2>1. PICK m \in network :
          \/ HandleRequestVote(n, m)
          \/ HandleVoteReply(n, m)
          \/ HandleAppendEntries(n, m)
          \/ HandleAppendReply(n, m)
          \/ HandleInstallSnapshot(n, m)
          \/ HandleReadHeartbeat(n, m)
          \/ HandleReadAck(n, m)
    BY <1>3 DEF Receive
  <2>2. CASE HandleRequestVote(n, m)
    BY <2>2, RequestVoteSteady, SteadyRecords
  <2>3. CASE HandleVoteReply(n, m)
    <3>1. CASE StepDown(n, m)
      BY <3>1, StepDownCalm, CalmSteady, SteadyRecords
    <3>2. CASE UNCHANGED <<term, role, leadersByTerm>>
      BY <3>2 DEF Records
    <3>3. CASE Elected(n, term[n])
      <4>1. term[n] \in Nat /\ term[n] >= term[n]
        BY IndexTypes
      <4> QED  BY <3>3, <4>1, ElectedRecords
    <3> QED  BY <2>3, <3>1, <3>2, <3>3, VoteReplyCases
  <2> QED  BY <2>1, <2>2, <2>3, CalmSteady, SteadyRecords, AppendEntriesCalm,
             AppendReplyCalm, InstallSnapshotCalm, ReadHeartbeatCalm, ReadAckCalm
<1>4. ASSUME NEW n \in Nodes, Heartbeat(n) \/ Crash(n) \/ Resume(n) PROVE Records'
  BY <1>4, HeartbeatCalm, CrashCalm, ResumeCalm, CalmSteady, SteadyRecords
<1>5. ASSUME NEW n \in Nodes, NEW c \in Clients, ClientCommand(n, c) \/ RequestRead(n, c)
      PROVE  Records'
  BY <1>5, AppendAsLeaderCalm, RequestReadCalm, CalmSteady, SteadyRecords
     DEF ClientCommand
<1>6. ASSUME NEW n \in Nodes, NEW V \in Proposals, ChangeConfig(n, V) PROVE Records'
  BY <1>6, AppendAsLeaderCalm, CalmSteady, SteadyRecords DEF ChangeConfig
<1> QED  BY <1>1, <1>2, <1>3, <1>4, <1>5, <1>6 DEF Next

-----------------------------------------------------------------------------
(***************************************************************************)
(* Indices of a whole log and of what a server stores of it.               *)
(***************************************************************************)
LEMMA FitsIndices ==
    ASSUME Shape, NEW n \in Nodes, NEW L \in Seq(KnownEntries),
           Fits(L, log[n], snapshot[n])
    PROVE  /\ Len(L) = LastIndex(n)
           /\ \A i \in Base(n) + 1 .. LastIndex(n) : EntryAt(n, i) = L[i]
           /\ \A i \in Base(n) .. LastIndex(n) :
                TermAt(n, i) = IF i = 0 THEN 0 ELSE L[i].term
<1>1. Base(n) \in Nat /\ Len(log[n]) \in Nat /\ LastIndex(n) \in Nat
  BY IndexTypes
<1>2. Len(L) = LastIndex(n)
  BY <1>1 DEF Fits, Base, LastIndex
<1>3. \A i \in Base(n) + 1 .. LastIndex(n) : EntryAt(n, i) = L[i]
  BY <1>2 DEF Fits, Base, EntryAt
<1>4. ASSUME NEW i \in Base(n) .. LastIndex(n)
      PROVE  TermAt(n, i) = IF i = 0 THEN 0 ELSE L[i].term
  <2>1. CASE i = Base(n)
    BY <2>1 DEF Fits, Base, TermAt, TermIn
  <2>2. CASE i # Base(n)
    <3>1. i \in Base(n) + 1 .. LastIndex(n) /\ i # 0
      BY <1>1, <2>2
    <3>2. EntryAt(n, i) = L[i]
      BY <1>3, <3>1
    <3>3. TermAt(n, i) = EntryAt(n, i).term
      BY <1>1, <2>2, <3>1 DEF Base, EntryAt, TermAt, TermIn
    <3> QED  BY <3>1, <3>2, <3>3
  <2> QED  BY <2>1, <2>2
<1> QED  BY <1>2, <1>3, <1>4

\* A log fits as well above a later snapshot of it.
LEMMA TailFits ==
    ASSUME NEW L \in Seq(KnownEntries), NEW lg \in Seq(KnownEntries),
           NEW s, s.lastIndex \in Nat, Fits(L, lg, s),
           NEW k \in Nat, k >= s.lastIndex, k > 0, k <= Len(L),
           NEW z, z.lastIndex = k, z.lastTerm = L[k].term
    PROVE  Fits(L, SubSeq(lg, k - s.lastIndex + 1, Len(lg)), z)
<1> DEFINE b == s.lastIndex
           rest == SubSeq(lg, k - b + 1, Len(lg))
<1>1. /\ b \in Nat
      /\ b <= k
      /\ Len(lg) \in Nat
      /\ Len(L) = b + Len(lg)
      /\ \A i \in b + 1 .. Len(L) : L[i] = lg[i - b]
  BY LenProperties DEF Fits
<1>2. k - b + 1 \in Nat \ {0} /\ Len(lg) \in Int /\ Len(lg) <= Len(lg)
  BY <1>1
<1> HIDE DEF b
<1>3. Len(rest) = Len(L) - k
  <2>1. Len(rest) = IF k - b + 1 <= Len(lg) THEN Len(lg) - (k - b + 1) + 1 ELSE 0
    BY <1>2, Stretch
  <2> HIDE DEF rest
  <2> QED  BY <1>1, <2>1
<1>4. \A i \in k + 1 .. Len(L) : L[i] = rest[i - k]
  <2> SUFFICES ASSUME NEW i \in k + 1 .. Len(L) PROVE L[i] = rest[i - k]
    OBVIOUS
  <2>1. PICK j \in Int : j = i - k /\ j \in 1 .. Len(lg) - (k - b + 1) + 1
    BY <1>1
  <2>2. rest[j] = lg[(k - b + 1) + j - 1]
    BY <1>2, <2>1, StretchElement
  <2>3. b \in Int /\ b <= k /\ Len(L) \in Int
    BY <1>1
  <2>4. i \in b + 1 .. Len(L)
    BY <2>3
  <2>5. (k - b + 1) + j - 1 = i - b
    BY <2>1, <2>3
  <2> HIDE DEF rest
  <2> QED  BY <1>1, <2>1, <2>2, <2>4, <2>5
<1> HIDE DEF rest
<1>5. Len(L) = k + Len(rest) /\ k # 0
  BY <1>1, <1>3
<1>6. Fits(L, rest, z)
  BY <1>4, <1>5 DEF Fits
<1> QED  BY <1>6 DEF rest, b

\* A log fits as well when more of it is compacted.
LEMMA CompactedFits ==
    ASSUME Shape, NEW n \in Nodes, NEW L \in Seq(KnownEntries),
           NEW lg \in Seq(KnownEntries), Fits(L, lg, snapshot[n]), NEW ci \in Nat,
           ci > commitIndex[n], ci <= Len(L), NEW image
    PROVE  Fits(L, SubSeq(lg, ci - Base(n) + 1, Len(lg)), Compacted(n, lg, ci, image))
<1>1. /\ snapshot[n].lastIndex \in Nat
      /\ snapshot[n].lastIndex <= commitIndex[n]
      /\ commitIndex[n] \in Nat
      /\ \A i \in snapshot[n].lastIndex + 1 .. Len(L) :
           L[i] = lg[i - snapshot[n].lastIndex]
  BY IndexTypes DEF Fits, Base
<1>2. ci \in snapshot[n].lastIndex + 1 .. Len(L) /\ ci >= snapshot[n].lastIndex /\ ci > 0
  BY <1>1, LenProperties
<1>3. /\ Compacted(n, lg, ci, image).lastIndex = ci
      /\ Compacted(n, lg, ci, image).lastTerm = L[ci].term
  BY <1>1, <1>2 DEF Compacted, Base
<1> QED  BY <1>1, <1>2, <1>3, TailFits DEF Base

\* What _set_commit_index compacts is still the same log.
LEMMA SetCommitFits ==
    ASSUME Shape, NEW n \in Nodes, NEW L \in Seq(KnownEntries),
           NEW lg \in Seq(KnownEntries), Fits(L, lg, snapshot[n]), NEW ci \in Nat,
           ci > commitIndex[n] => ci <= Len(L), NEW t, SetCommitIndex(n, lg, ci, t)
    PROVE  /\ Fits(L, log'[n], snapshot'[n])
           /\ \A k \in Nodes \ {n} : log'[k] = log[k] /\ snapshot'[k] = snapshot[k]
<1> DEFINE fed == [i \in 1 .. ci - commitIndex[n] |->
                     lg[commitIndex[n] - Base(n) + i].cmd]
           history == applied[n] \o fed
           rest == SubSeq(lg, ci - Base(n) + 1, Len(lg))
<1>1. /\ log \in [Nodes -> Seq(KnownEntries)]
      /\ snapshot \in [Nodes -> KnownSnapshots]
      /\ commitIndex[n] \in Nat
  BY DEF Shape, ShapedLogs
<1>2. CASE ci <= commitIndex[n]
  <2>1. log' = [log EXCEPT ![n] = lg] /\ UNCHANGED snapshot
    BY <1>1, <1>2 DEF SetCommitIndex
  <2> QED  BY <1>1, <2>1
<1>3. CASE ci > commitIndex[n]
  <2>1. \/ /\ snapshot' = [snapshot EXCEPT ![n] = Compacted(n, lg, ci, history)]
           /\ log' = [log EXCEPT ![n] = rest]
        \/ /\ log' = [log EXCEPT ![n] = lg]
           /\ UNCHANGED snapshot
    <3>1. ~(ci <= commitIndex[n])
      BY <1>1, <1>3
    <3> QED  BY <3>1, Zenon DEF SetCommitIndex
  <2>2. Fits(L, rest, Compacted(n, lg, ci, history))
    BY <1>3, CompactedFits
  <2> HIDE DEF rest, history
  <2> QED  BY <1>1, <2>1, <2>2
<1> QED  BY <1>1, <1>2, <1>3

-----------------------------------------------------------------------------
(***************************************************************************)
(* Steps that add nothing to any log.                                      *)
(***************************************************************************)
\* No new message carries entries.
NoNewEntries ==
    \A m \in network' : m.type \in {"AppendEntries", "InstallSnapshot"} => m \in network

\* The log of n is what it was, however much of it is compacted, and n leads
\* only if it led.
LEMMA QuietLogs ==
    ASSUME Shape, Shape', NEW lead, NEW full, Logs(lead, full), NEW n \in Nodes,
           Apart(n), leadersByTerm \subseteq leadersByTerm',
           term'[n] >= term[n], Fits(full[n], log'[n], snapshot'[n]),
           role'[n] = "leader" => role[n] = "leader" /\ term'[n] = term[n],
           NEW ms, network' \subseteq network \cup ms, Explained(lead, ms)'
    PROVE  Logs(lead, full)'
<1>1. /\ lead \in [Nat -> Seq(KnownEntries)]
      /\ full \in [Nodes -> Seq(KnownEntries)]
      /\ term[n] \in Nat
      /\ term'[n] \in Nat
      /\ Traced(lead, full[n], term[n])
      /\ role[n] = "leader" => full[n] = lead[term[n]]
  BY DEF Logs, Shape, ShapedElections
<1>2. full[n] \in Seq(KnownEntries) /\ full = [full EXCEPT ![n] = full[n]]
  BY <1>1
<1>3. PICK L \in Seq(KnownEntries) : L = full[n]
  BY <1>2
<1>4. SameUpTo(L, L, Len(L))
  BY <1>3, LoggedTypes DEF SameUpTo
<1>5. Traced(lead, L, term'[n])
  BY <1>1, <1>3, <1>4, TracedPrefix
<1>6. Fits(L, log'[n], snapshot'[n]) /\ full = [full EXCEPT ![n] = L]
  BY <1>2, <1>3
<1>7. role'[n] = "leader" => L = lead[term'[n]]
  BY <1>1, <1>3
<1> QED  BY <1>5, <1>6, <1>7, FollowerLogs

LEMMA UntouchedLogs ==
    ASSUME Shape, Shape', NEW lead, NEW full, Logs(lead, full), NEW n \in Nodes,
           Apart(n), UNCHANGED <<log, snapshot>>,
           leadersByTerm \subseteq leadersByTerm', term'[n] >= term[n],
           role'[n] = "leader" => role[n] = "leader" /\ term'[n] = term[n],
           NEW ms, network' \subseteq network \cup ms, Explained(lead, ms)'
    PROVE  Logs(lead, full)'
<1>1. Fits(full[n], log'[n], snapshot'[n])
  BY DEF Logs
<1> QED  BY <1>1, QuietLogs

LEMMA SilentLogs ==
    ASSUME Shape, Shape', NEW lead, NEW full, Logs(lead, full), NEW n \in Nodes,
           Apart(n), UNCHANGED <<log, snapshot>>, NoNewEntries,
           leadersByTerm \subseteq leadersByTerm', term'[n] >= term[n],
           role'[n] = "leader" => role[n] = "leader" /\ term'[n] = term[n]
    PROVE  Logs(lead, full)'
<1>1. PICK ms : ms = network' \ network
  OBVIOUS
<1>2. Explained(lead, ms)'
  BY <1>1 DEF NoNewEntries, Explained
<1> QED  BY <1>1, <1>2, UntouchedLogs

LEMMA SendNoEntries ==
    ASSUME NEW ms, Send(ms),
           \A m \in ms : m.type \notin {"AppendEntries", "InstallSnapshot"}
    PROVE  NoNewEntries
BY DEF Send, NoNewEntries

LEMMA ReplyNoEntries ==
    ASSUME NEW t, NEW n, NEW p, NEW ok, NEW match,
           Send({AppendReply(t, n, p, ok, match)}) \/ Send({VoteReply(t, n, p, ok)})
    PROVE  NoNewEntries
<1>1. AppendReply(t, n, p, ok, match).type = "AppendReply" /\ VoteReply(t, n, p, ok).type = "VoteReply"
  BY DEF AppendReply, VoteReply
<1> QED  BY <1>1, SendNoEntries

LEMMA BecomeFollowerApart ==
    ASSUME Shape, NEW n \in Nodes, NEW t \in Nat, BecomeFollower(n, t)
    PROVE  /\ term'[n] = t
           /\ role'[n] = "follower"
           /\ UNCHANGED <<log, snapshot>> => Apart(n)
BY DEF BecomeFollower, Shape, ShapedElections, Apart

LEMMA FollowLeaderApart ==
    ASSUME Shape, NEW n \in Nodes, NEW t \in Nat, FollowLeader(n, t)
    PROVE  /\ term'[n] = t
           /\ role'[n] = "follower"
           /\ \A k \in Nodes \ {n} : term'[k] = term[k] /\ role'[k] = role[k]
BY DEF FollowLeader, BecomeFollower, Shape, ShapedElections

LEMMA StepDownLogs ==
    ASSUME Shape, Shape', NEW lead, NEW full, Logs(lead, full), NEW n \in Nodes,
           NEW m \in network, StepDown(n, m)
    PROVE  Logs(lead, full)'
<1>1. m.term \in Nat /\ term[n] \in Nat
  BY IndexTypes DEF Shape, ShapedNetwork, ShapedMessage
<1>2. /\ m.term > term[n]
      /\ BecomeFollower(n, m.term)
      /\ UNCHANGED <<log, snapshot, leadersByTerm, network>>
  BY DEF StepDown
<1>3. Apart(n) /\ term'[n] = m.term /\ role'[n] = "follower"
  BY <1>1, <1>2, BecomeFollowerApart
<1>4. NoNewEntries
  BY <1>2 DEF NoNewEntries
<1> QED  BY <1>1, <1>2, <1>3, <1>4, SilentLogs

LEMMA RequestVoteLogs ==
    ASSUME Shape, Shape', NEW lead, NEW full, Logs(lead, full), NEW n \in Nodes,
           NEW m \in network, HandleRequestVote(n, m)
    PROVE  Logs(lead, full)'
<1>1. /\ UNCHANGED <<log, snapshot, leadersByTerm>>
      /\ NoNewEntries
  BY ReplyNoEntries DEF HandleRequestVote
<1>2. Apart(n)
  <2>1. /\ term' = [term EXCEPT ![n] = Larger(term[n], m.term)]
        /\ role' = [role EXCEPT ![n] = "follower"] \/ UNCHANGED role
    BY DEF HandleRequestVote
  <2> QED  BY <1>1, <2>1 DEF Apart, Shape, ShapedElections
<1>3. /\ term'[n] >= term[n]
      /\ role'[n] = "leader" => role[n] = "leader" /\ term'[n] = term[n]
  BY RequestVoteSteady DEF Steady
<1> QED  BY <1>1, <1>2, <1>3, SilentLogs

LEMMA ReadHeartbeatLogs ==
    ASSUME Shape, Shape', NEW lead, NEW full, Logs(lead, full), NEW n \in Nodes,
           NEW m \in network, HandleReadHeartbeat(n, m)
    PROVE  Logs(lead, full)'
<1>1. /\ UNCHANGED <<log, snapshot, leadersByTerm>>
      /\ NoNewEntries
  BY SendNoEntries DEF HandleReadHeartbeat
<1>2. m.term \in Nat
  BY DEF Shape, ShapedNetwork, ShapedMessage
<1>3. Apart(n)
  <2>1. BecomeFollower(n, m.term) \/ UNCHANGED <<term, role>>
    BY DEF HandleReadHeartbeat
  <2>2. CASE BecomeFollower(n, m.term)
    BY <1>1, <1>2, <2>2, BecomeFollowerApart
  <2>3. CASE UNCHANGED <<term, role>>
    BY <1>1, <2>3 DEF Apart
  <2> QED  BY <2>1, <2>2, <2>3
<1>4. /\ term'[n] >= term[n]
      /\ role'[n] = "leader" => role[n] = "leader" /\ term'[n] = term[n]
  BY ReadHeartbeatCalm DEF Calm
<1> QED  BY <1>1, <1>3, <1>4, SilentLogs

LEMMA ReadAckLogs ==
    ASSUME Shape, Shape', NEW lead, NEW full, Logs(lead, full), NEW n \in Nodes,
           NEW m \in network, HandleReadAck(n, m)
    PROVE  Logs(lead, full)'
<1>1. CASE StepDown(n, m)
  BY <1>1, StepDownLogs
<1>2. CASE UNCHANGED <<persistentVars, electionVars, network>>
  <2>1. term'[n] >= term[n]
    BY <1>2, IndexTypes DEF persistentVars
  <2> QED  BY <1>2, <2>1, SilentLogs
           DEF persistentVars, electionVars, Apart, NoNewEntries
<1> QED  BY <1>1, <1>2 DEF HandleReadAck

LEMMA IdleLogs ==
    ASSUME Shape, Shape', NEW lead, NEW full, Logs(lead, full), NEW n \in Nodes,
           \/ \E c \in Clients : RequestRead(n, c)
           \/ Crash(n)
           \/ Resume(n)
    PROVE  Logs(lead, full)'
<1>1. /\ UNCHANGED <<persistentVars, leadersByTerm>>
      /\ UNCHANGED role \/ role' = [role EXCEPT ![n] = "follower"]
  BY DEF RequestRead, Crash, Resume, electionVars
<1>2. NoNewEntries
  <2>1. CASE UNCHANGED network
    BY <2>1 DEF NoNewEntries
  <2>2. ASSUME NEW c \in Clients, RequestRead(n, c) PROVE NoNewEntries
    BY <2>2, SendNoEntries DEF RequestRead
  <2> QED  BY <2>1, <2>2 DEF Crash, Resume
<1>3. /\ Apart(n)
      /\ term'[n] = term[n]
      /\ role'[n] = "leader" => role[n] = "leader"
      /\ term[n] \in Nat
  BY <1>1 DEF persistentVars, Apart, Shape, ShapedElections
<1>4. term'[n] >= term[n]
  BY <1>3
<1> QED  BY <1>1, <1>2, <1>3, <1>4, SilentLogs DEF persistentVars

\* What a leader sends from its log lg, which is what it stores of L.
LEMMA ReplicateTraced ==
    ASSUME Shape, NEW n \in Nodes, NEW p, NEW t, NEW lg \in Seq(KnownEntries),
           NEW L \in Seq(KnownEntries), Fits(L, lg, snapshot[n]),
           NEW nxt \in Nat \ {0}, NEW m, m = Replicate(n, t, p, lg, nxt)
    PROVE  /\ m.term = t
           /\ m.from = n
           /\ m.type \in {"AppendEntries", "InstallSnapshot"}
           /\ TracedMessage(L, m)
           /\ m.type = "AppendEntries" =>
                /\ m.prevIndex = nxt - 1
                /\ m.commit = commitIndex[n]
                /\ m.prevIndex \in 1 .. Len(L) => m.prevTerm = L[m.prevIndex].term
           /\ m.type = "InstallSnapshot" => m.snapshot = snapshot[n]
<1> DEFINE b == Base(n)
<1>1. /\ b \in Nat
      /\ Len(lg) \in Nat
      /\ Len(L) = b + Len(lg)
      /\ \A i \in b + 1 .. Len(L) : L[i] = lg[i - b]
      /\ snapshot[n].lastIndex = b
      /\ snapshot[n].lastTerm = IF b = 0 THEN 0 ELSE L[b].term
  BY IndexTypes, LenProperties DEF Fits, Base
<1>2. CASE nxt - 1 < b
  <2>1. m = [type |-> "InstallSnapshot", term |-> t, from |-> n, to |-> p,
             snapshot |-> snapshot[n]]
    BY <1>2 DEF Replicate
  <2> HIDE DEF b
  <2>2. b \in 1 .. Len(L) /\ b # 0
    BY <1>1, <1>2
  <2>3. TracedMessage(L, m)
    BY <1>1, <2>1, <2>2 DEF TracedMessage
  <2> QED  BY <2>1, <2>3
<1>3. CASE ~(nxt - 1 < b)
  <2> DEFINE es == SubSeq(lg, nxt - b, Len(lg))
  <2>1. m = [type |-> "AppendEntries", term |-> t, from |-> n, to |-> p,
             prevIndex |-> nxt - 1, prevTerm |-> TermIn(lg, snapshot[n], nxt - 1),
             entries |-> es, commit |-> commitIndex[n]]
    BY <1>3 DEF Replicate
  <2>2. nxt - b \in Nat \ {0} /\ Len(lg) \in Int /\ Len(lg) <= Len(lg)
    BY <1>1, <1>3
  <2>3. nxt - 1 \in 1 .. Len(L) => TermIn(lg, snapshot[n], nxt - 1) = L[nxt - 1].term
    <3> SUFFICES ASSUME nxt - 1 \in 1 .. Len(L)
                 PROVE  TermIn(lg, snapshot[n], nxt - 1) = L[nxt - 1].term
      OBVIOUS
    <3>1. CASE nxt - 1 = b
      BY <1>1, <3>1 DEF TermIn
    <3>2. CASE nxt - 1 # b
      <4>1. nxt - 1 \in b + 1 .. Len(L) /\ ~(nxt - 1 <= b)
        BY <1>1, <1>3, <3>2
      <4> QED  BY <1>1, <4>1 DEF TermIn
    <3> QED  BY <3>1, <3>2
  <2>4. /\ Len(es) = IF nxt - b <= Len(lg) THEN Len(lg) - (nxt - b) + 1 ELSE 0
        /\ es \in Seq(KnownEntries)
    BY <2>2, Stretch
  <2>5. \A k \in 1 .. Len(es) : nxt - 1 + k <= Len(L) /\ es[k] = L[nxt - 1 + k]
    <3> SUFFICES ASSUME NEW k \in 1 .. Len(es)
                 PROVE  nxt - 1 + k <= Len(L) /\ es[k] = L[nxt - 1 + k]
      OBVIOUS
    <3>1. k \in 1 .. Len(lg) - (nxt - b) + 1
      <4> HIDE DEF es, b
      <4> QED  BY <1>1, <2>2, <2>4
    <3>2. es[k] = lg[(nxt - b) + k - 1]
      BY <2>2, <3>1, StretchElement
    <3> HIDE DEF es, b
    <3>3. nxt - 1 + k \in b + 1 .. Len(L) /\ nxt - 1 + k - b = (nxt - b) + k - 1
      BY <1>1, <1>3, <3>1
    <3> QED  BY <1>1, <3>2, <3>3
  <2> HIDE DEF b, es
  <2>6. es # <<>> /\ nxt - 1 > 0 => nxt - 1 \in 1 .. Len(L)
    <3>1. es # <<>> => 1 \in 1 .. Len(es)
      BY <2>4, EmptySeq, LenProperties
    <3>2. es # <<>> => nxt <= Len(L)
      BY <2>5, <3>1
    <3> QED  BY <1>1, <3>2
  <2>7. TracedMessage(L, m)
    BY <2>1, <2>3, <2>5, <2>6 DEF TracedMessage
  <2> QED  BY <2>1, <2>3, <2>7
<1> QED  BY <1>2, <1>3

\* What a leader broadcasts.
LEMMA BroadcastExplained ==
    ASSUME Shape, NEW n \in Nodes, NEW t \in Nat, NEW lg \in Seq(KnownEntries),
           NEW lead \in [Nat -> Seq(KnownEntries)], Fits(lead[t], lg, snapshot[n]),
           NEW nxt \in [Nodes -> Nat \ {0}], NEW voters \in SUBSET Nodes,
           NEW ms, ms = Broadcast(n, t, lg, nxt, voters), Led(t)'
    PROVE  Explained(lead, ms)'
<1> SUFFICES ASSUME NEW m \in ms
             PROVE  Led(m.term)' /\ TracedMessage(lead[m.term], m)
  BY DEF Explained
<1>1. PICK p \in voters \ {n} : m = Replicate(n, t, p, lg, nxt[p])
  BY DEF Broadcast
<1>2. nxt[p] \in Nat \ {0} /\ lead[t] \in Seq(KnownEntries)
  BY <1>1
<1>3. m.term = t /\ TracedMessage(lead[t], m)
  BY <1>1, <1>2, ReplicateTraced, SMTT(60)
<1> QED  BY <1>3

-----------------------------------------------------------------------------
(***************************************************************************)
(* Leaders.                                                                *)
(***************************************************************************)
LEMMA SentSubset ==
    ASSUME NEW ms, Send(ms)
    PROVE  network' \subseteq network \cup ms
BY DEF Send

LEMMA HeartbeatLogs ==
    ASSUME Shape, Shape', Records, NEW lead, NEW full, Logs(lead, full),
           NEW n \in Nodes, Heartbeat(n)
    PROVE  Logs(lead, full)'
<1>1. /\ role[n] = "leader"
      /\ Send(Broadcast(n, term[n], log[n], nextIndex[n], config[n].voters))
      /\ UNCHANGED <<term, role, log, snapshot, leadersByTerm>>
  BY DEF Heartbeat, persistentVars, electionVars
<1>2. /\ term[n] \in Nat
      /\ log[n] \in Seq(KnownEntries)
      /\ nextIndex[n] \in [Nodes -> Nat \ {0}]
      /\ config[n].voters \in SUBSET Nodes
  BY IndexTypes DEF Shape, ShapedLeaders
<1>3. PICK t \in Nat, lg \in Seq(KnownEntries), nxt \in [Nodes -> Nat \ {0}],
           V \in SUBSET Nodes :
        t = term[n] /\ lg = log[n] /\ nxt = nextIndex[n] /\ V = config[n].voters
  BY <1>2
<1>4. PICK ms : ms = Broadcast(n, t, lg, nxt, V)
  OBVIOUS
<1>5. /\ lead \in [Nat -> Seq(KnownEntries)]
      /\ Fits(lead[t], lg, snapshot[n])
  BY <1>1, <1>3 DEF Logs
<1>6. Explained(lead, ms)'
  <2>1. Led(t)'
    BY <1>1, <1>3 DEF Records, Led
  <2> QED  BY <1>4, <1>5, <2>1, BroadcastExplained
<1>7. term'[n] >= term[n]
  BY <1>1, <1>2
<1>8. network' \subseteq network \cup ms
  BY <1>1, <1>3, <1>4, SentSubset
<1> QED  BY <1>1, <1>6, <1>7, <1>8, UntouchedLogs DEF Apart

\* A new leader's log is the log of its term, which had none.
LEMMA ElectedLogs ==
    ASSUME Shape, Shape', Records, Records', ElectionSafety',
           NEW lead, NEW full, Logs(lead, full), NEW n \in Nodes, NEW t \in Nat,
           t >= term[n], Elected(n, t), NEW sent, BecomeLeader(n, t, sent),
           \A m \in sent : m.type \notin {"AppendEntries", "InstallSnapshot"},
           NEW lead2, lead2 = [lead EXCEPT ![t] = full[n]]
    PROVE  Logs(lead2, full)' /\ lead[t] = <<>>
<1>1. /\ lead \in [Nat -> Seq(KnownEntries)]
      /\ full \in [Nodes -> Seq(KnownEntries)]
      /\ Traced(lead, full[n], term[n])
      /\ Fits(full[n], log[n], snapshot[n])
      /\ term \in [Nodes -> Nat]
      /\ role \in [Nodes -> {"follower", "candidate", "leader"}]
  BY DEF Logs, Shape, ShapedElections
<1>2. /\ term'[n] = t
      /\ role'[n] = "leader"
      /\ leadersByTerm \subseteq leadersByTerm'
      /\ Apart(n)
      /\ Fits(full[n], log'[n], snapshot'[n])
  BY <1>1 DEF Elected, Apart
<1>3. lead[t] = <<>>
  <2> SUFFICES ASSUME lead[t] # <<>> PROVE FALSE
    OBVIOUS
  <2>1. PICK k \in Nodes : <<t, k>> \in leadersByTerm
    BY DEF Logs, Led
  <2>2. <<t, k>> \in leadersByTerm' /\ <<t, n>> \in leadersByTerm'
    BY <1>2, <2>1 DEF Elected
  <2>3. <<t, k>> = <<t, n>>
    BY <2>2 DEF ElectionSafety
  <2> QED  BY <2>1, <2>3 DEF Elected
<1>4. PICK L \in Seq(KnownEntries) : L = full[n]
  BY <1>1
<1>5. SameUpTo(lead[t], L, Len(lead[t]))
  BY <1>3, LoggedTypes DEF SameUpTo
<1>6. lead2 \in [Nat -> Seq(KnownEntries)] /\ lead2[t] = L
  BY <1>1, <1>4
<1>7. Traced(lead2, L, t)
  <2>1. Extends(lead, lead2)
    <3> SUFFICES ASSUME NEW u \in Nat PROVE SameUpTo(lead[u], lead2[u], Len(lead[u]))
      BY DEF Extends
    <3>1. CASE u = t
      BY <1>5, <1>6, <3>1
    <3>2. CASE u # t
      <4>1. lead2[u] = lead[u]
        BY <1>1, <3>2
      <4> QED  BY <1>1, <4>1, ExtendsItself DEF Extends
    <3> QED  BY <3>1, <3>2
  <2>2. Traced(lead2, L, term[n])
    <3>1. lead \in [Nat -> Seq(KnownEntries)] /\ Traced(lead, L, term[n])
      BY <1>1, <1>4
    <3>2. lead2 \in [Nat -> Seq(KnownEntries)]
      BY <1>6
    <3> QED  BY <2>1, <3>1, <3>2, TracedGrows
  <2>3. SameUpTo(L, L, Len(L)) /\ term[n] \in Nat /\ term[n] <= t
    BY <1>1, LoggedTypes DEF SameUpTo
  <2> QED  BY <2>2, <2>3, TracedPrefix
<1>8. PICK ms : ms = sent \cup Broadcast(n, t, log[n], [p \in Nodes |-> LastIndex(n) + 1],
                                         config[n].voters)
  OBVIOUS
<1>9. Explained(lead2, ms)'
  <2>1. PICK bs : bs = Broadcast(n, t, log[n], [p \in Nodes |-> LastIndex(n) + 1],
                                 config[n].voters)
    OBVIOUS
  <2>2. /\ log[n] \in Seq(KnownEntries)
        /\ [p \in Nodes |-> LastIndex(n) + 1] \in [Nodes -> Nat \ {0}]
        /\ config[n].voters \in SUBSET Nodes
    BY IndexTypes
  <2>3. Fits(lead2[t], log[n], snapshot[n])
    BY <1>1, <1>4, <1>6
  <2>4. Led(t)'
    BY DEF Elected, Led
  <2>5. Explained(lead2, bs)'
    BY <1>6, <2>1, <2>2, <2>3, <2>4, BroadcastExplained
  <2> QED  BY <1>8, <2>1, <2>5 DEF Explained
<1>10. network' \subseteq network \cup ms
  BY <1>8, SentSubset DEF BecomeLeader
<1>11. PICK full2 : full2 = [full EXCEPT ![n] = L]
  OBVIOUS
<1>12. Fits(L, log'[n], snapshot'[n]) /\ lead2 = [lead EXCEPT ![t] = L]
  BY <1>2, <1>4
<1>13. Logs(lead2, full2)'
  BY <1>2, <1>5, <1>7, <1>9, <1>10, <1>11, <1>12, LeaderLogs
<1>14. full2 = full
  BY <1>1, <1>4, <1>11
<1> QED  BY <1>3, <1>13, <1>14

\* A leader's log and the log of its term grow by one entry of its term.
LEMMA AppendedLogs ==
    ASSUME Shape, Shape', Records, Records', ElectionSafety',
           NEW lead, NEW full, Logs(lead, full), NEW n \in Nodes, role[n] = "leader",
           NEW cmd \in KnownCommands, NEW voters \in SUBSET Nodes,
           AppendAsLeader(n, cmd, voters),
           UNCHANGED <<term, role, leadersByTerm, snapshot>>,
           NEW t \in Nat, t = term[n],
           NEW L, L = Append(full[n], [term |-> t, cmd |-> cmd]),
           NEW lead2, lead2 = [lead EXCEPT ![t] = L],
           NEW full2, full2 = [full EXCEPT ![n] = L]
    PROVE  Logs(lead2, full2)'
<1> DEFINE e == [term |-> t, cmd |-> cmd]
<1>1. /\ lead \in [Nat -> Seq(KnownEntries)]
      /\ full \in [Nodes -> Seq(KnownEntries)]
      /\ Traced(lead, full[n], t)
      /\ Fits(full[n], log[n], snapshot[n])
      /\ full[n] = lead[t]
  BY DEF Logs
<1>2. PICK F \in Seq(KnownEntries) : F = full[n]
  BY <1>1
<1>3. PICK lg \in Seq(KnownEntries) : lg = log[n]
  BY IndexTypes
<1>4. e \in KnownEntries
  BY DEF KnownEntries
<1> HIDE DEF e
<1>5. PICK lg2 : lg2 = Append(lg, e)
  OBVIOUS
<1>6. /\ L \in Seq(KnownEntries)
      /\ Len(L) = Len(F) + 1
      /\ \A i \in 1 .. Len(F) : L[i] = F[i]
      /\ L[Len(F) + 1] = e
  BY <1>2, <1>4, AppendProperties DEF e
<1>7. /\ lg2 \in Seq(KnownEntries)
      /\ Len(lg2) = Len(lg) + 1
      /\ \A i \in 1 .. Len(lg) : lg2[i] = lg[i]
      /\ lg2[Len(lg) + 1] = e
  BY <1>4, <1>5, AppendProperties
<1>8. Len(F) \in Nat /\ Len(lg) \in Nat /\ Base(n) \in Nat
  BY LenProperties, IndexTypes
<1>9. SameUpTo(F, L, Len(F))
  BY <1>6, <1>8 DEF SameUpTo
<1>10. Fits(L, lg2, snapshot[n])
  <2>1. /\ Len(F) = Base(n) + Len(lg)
        /\ \A i \in Base(n) + 1 .. Len(F) : F[i] = lg[i - Base(n)]
        /\ snapshot[n].lastTerm = IF Base(n) = 0 THEN 0 ELSE F[Base(n)].term
    BY <1>1, <1>2, <1>3 DEF Fits, Base
  <2>2. Len(L) = Base(n) + Len(lg2)
    BY <1>6, <1>7, <1>8, <2>1
  <2>3. \A i \in Base(n) + 1 .. Len(L) : L[i] = lg2[i - Base(n)]
    <3> SUFFICES ASSUME NEW i \in Base(n) + 1 .. Len(L) PROVE L[i] = lg2[i - Base(n)]
      OBVIOUS
    <3>1. PICK j \in Int : j = i - Base(n)
      BY <1>8
    <3>2. CASE i = Len(F) + 1
      <4>1. j = Len(lg) + 1
        BY <1>8, <2>1, <3>1, <3>2
      <4> QED  BY <1>6, <1>7, <3>1, <3>2, <4>1
    <3>3. CASE i # Len(F) + 1
      <4>1. /\ j \in 1 .. Len(lg)
            /\ i \in 1 .. Len(F)
            /\ i \in Base(n) + 1 .. Len(F)
        <5>1. Len(L) = Len(F) + 1
          BY <1>6
        <5>2. i \in Base(n) + 1 .. Len(F)
          BY <1>8, <3>3, <5>1
        <5> QED  BY <1>8, <2>1, <3>1, <5>2
      <4>2. F[i] = lg[j]
        BY <2>1, <3>1, <4>1
      <4> QED  BY <1>6, <1>7, <3>1, <4>1, <4>2
    <3> QED  BY <3>2, <3>3
  <2>4. Base(n) # 0 => Base(n) \in 1 .. Len(F)
    BY <1>8, <2>1
  <2> QED  BY <1>6, <2>1, <2>2, <2>3, <2>4 DEF Fits, Base
<1>11. lead2 \in [Nat -> Seq(KnownEntries)] /\ lead2[t] = L
  BY <1>1, <1>6
<1>12. Traced(lead2, L, t)
  <2>1. Extends(lead, lead2)
    <3> SUFFICES ASSUME NEW u \in Nat PROVE SameUpTo(lead[u], lead2[u], Len(lead[u]))
      BY DEF Extends
    <3>1. CASE u = t
      BY <1>1, <1>2, <1>9, <1>11, <3>1
    <3>2. CASE u # t
      <4>1. lead2[u] = lead[u]
        BY <1>1, <3>2
      <4> QED  BY <1>1, <4>1, ExtendsItself DEF Extends
    <3> QED  BY <3>1, <3>2
  <2>2. Traced(lead2, F, t)
    <3>1. Traced(lead, F, t)
      BY <1>1, <1>2
    <3> QED  BY <1>1, <1>11, <2>1, <3>1, TracedGrows
  <2> SUFFICES ASSUME NEW i \in 1 .. Len(L)
               PROVE  L[i].term <= t /\ SameUpTo(L, lead2[L[i].term], i)
    BY DEF Traced
  <2>3. CASE i = Len(F) + 1
    <3>1. L[i].term = t
      BY <1>6, <2>3 DEF e
    <3> QED  BY <1>6, <1>8, <1>11, <2>3, <3>1 DEF SameUpTo
  <2>4. CASE i # Len(F) + 1
    <3>1. i \in 1 .. Len(F) /\ L[i] = F[i]
      BY <1>6, <1>8, <2>4
    <3>2. PICK u \in Nat : u = F[i].term
      BY <3>1, LoggedTypes
    <3>3. u <= t /\ SameUpTo(F, lead2[u], i)
      BY <2>2, <3>1, <3>2 DEF Traced
    <3>4. SameUpTo(L, lead2[u], i)
      BY <1>6, <1>8, <3>1, <3>3 DEF SameUpTo
    <3> QED  BY <3>1, <3>2, <3>3, <3>4
  <2> QED  BY <2>3, <2>4
<1>13. /\ Send(Broadcast(n, t, lg2, nextIndex[n], voters))
       /\ log' = [log EXCEPT ![n] = lg2]
  BY <1>3, <1>5 DEF AppendAsLeader, e
<1>14. PICK nxt \in [Nodes -> Nat \ {0}] : nxt = nextIndex[n]
  BY DEF Shape, ShapedLeaders
<1>15. PICK ms : ms = Broadcast(n, t, lg2, nxt, voters)
  OBVIOUS
<1>16. Explained(lead2, ms)'
  <2>1. Led(t)'
    BY DEF Records, Led
  <2>2. Fits(lead2[t], lg2, snapshot[n])
    BY <1>10, <1>11
  <2> QED  BY <1>7, <1>11, <1>15, <2>1, <2>2, BroadcastExplained
<1>17. network' \subseteq network \cup ms
  BY <1>13, <1>14, <1>15, SentSubset
<1>18. /\ Apart(n)
       /\ term'[n] = t
       /\ role'[n] = "leader"
       /\ leadersByTerm \subseteq leadersByTerm'
       /\ Fits(L, log'[n], snapshot'[n])
  BY <1>10, <1>13 DEF Apart, Shape, ShapedLogs
<1>19. SameUpTo(lead[t], L, Len(lead[t]))
  BY <1>1, <1>2, <1>9
<1> QED  BY <1>6, <1>12, <1>16, <1>17, <1>18, <1>19, LeaderLogs

\* Both a request and a configuration are appended that way.
LEMMA CommandCase ==
    ASSUME Shape, NEW n \in Nodes, NEW c \in Clients, ClientCommand(n, c)
    PROVE  \E cmd \in KnownCommands, voters \in SUBSET Nodes :
             /\ cmd = Request(c, nextReq[c])
             /\ role[n] = "leader"
             /\ AppendAsLeader(n, cmd, voters)
             /\ UNCHANGED <<term, role, leadersByTerm, snapshot>>
             /\ UNCHANGED commitVars
<1>1. nextReq[c] \in Nat /\ config[n].voters \in SUBSET Nodes
  BY IndexTypes DEF Shape, ShapedReads
<1> QED  BY <1>1 DEF ClientCommand, electionVars, Request, KnownCommands, ClientCommands

LEMMA AppendCases ==
    ASSUME Shape, NEW n \in Nodes,
           \/ \E c \in Clients : ClientCommand(n, c)
           \/ \E V \in Proposals : ChangeConfig(n, V)
    PROVE  \E cmd \in KnownCommands, voters \in SUBSET Nodes :
             /\ role[n] = "leader"
             /\ AppendAsLeader(n, cmd, voters)
             /\ UNCHANGED <<term, role, leadersByTerm, snapshot>>
             /\ UNCHANGED commitVars
<1>1. ASSUME NEW c \in Clients, ClientCommand(n, c)
      PROVE  \E cmd \in KnownCommands, voters \in SUBSET Nodes :
               /\ role[n] = "leader"
               /\ AppendAsLeader(n, cmd, voters)
               /\ UNCHANGED <<term, role, leadersByTerm, snapshot>>
               /\ UNCHANGED commitVars
  BY <1>1, CommandCase
<1>2. ASSUME NEW V \in Proposals, ChangeConfig(n, V)
      PROVE  /\ role[n] = "leader"
             /\ AppendAsLeader(n, [kind |-> "config", voters |-> V], V)
             /\ UNCHANGED <<term, role, leadersByTerm, snapshot>>
             /\ UNCHANGED commitVars
             /\ [kind |-> "config", voters |-> V] \in KnownCommands
             /\ V \in SUBSET Nodes
  <2>1. V \in KnownVoters /\ V \in SUBSET Nodes
    BY KnownVotersAreNodes DEF KnownVoters
  <2> QED  BY <1>2, <2>1 DEF ChangeConfig, electionVars, KnownCommands
<1> QED  BY <1>1, <1>2

-----------------------------------------------------------------------------
(***************************************************************************)
(* Followers: what they merge and install is a part of the leader's log.   *)
(***************************************************************************)
\* The entry before those of a, if there is one, is one of W.
Anchored(W, a) ==
    a.prevIndex > 0 => a.prevIndex <= Len(W) /\ a.prevTerm = W[a.prevIndex].term

\* The entries of a are those of W after that one.
Carries(W, a) ==
    /\ a.prevIndex \in Nat
    /\ a.entries \in Seq(KnownEntries)
    /\ Len(a.entries) \in Nat
    /\ \A k \in 1 .. Len(a.entries) :
         a.prevIndex + k <= Len(W) /\ a.entries[k] = W[a.prevIndex + k]
    /\ Len(a.entries) > 0 => Anchored(W, a)

\* What is left of a message above the snapshot still comes from that log.
LEMMA AboveBaseTraced ==
    ASSUME Shape, NEW n \in Nodes, NEW m \in network, m.type = "AppendEntries",
           NEW W \in Seq(KnownEntries), TracedMessage(W, m),
           NEW a, a = AboveBase(n, m)
    PROVE  /\ Carries(W, a)
           /\ Anchored(W, m) => Anchored(W, a)
           /\ a.prevIndex + Len(a.entries) = m.prevIndex + Len(m.entries)
           /\ Len(a.entries) > 0 => Base(n) <= a.prevIndex
           /\ a.prevIndex >= Base(n) \/ a.prevIndex + Len(a.entries) < Base(n)
<1> DEFINE covered == IF m.prevIndex < Base(n)
                      THEN Smaller(Len(m.entries), Base(n) - m.prevIndex) ELSE 0
           es == SubSeq(m.entries, covered + 1, Len(m.entries))
<1>1. /\ m.prevIndex \in Nat
      /\ m.entries \in Seq(KnownEntries)
      /\ Len(m.entries) \in Nat
      /\ Base(n) \in Nat
  BY LenProperties, IndexTypes DEF Shape, ShapedNetwork, ShapedMessage
<1>2. /\ \A k \in 1 .. Len(m.entries) :
           m.prevIndex + k <= Len(W) /\ m.entries[k] = W[m.prevIndex + k]
      /\ Len(m.entries) > 0 /\ m.prevIndex > 0 => m.prevTerm = W[m.prevIndex].term
  BY <1>1, EmptySeq DEF TracedMessage
<1>3. /\ a.prevIndex = m.prevIndex + covered
      /\ a.prevTerm = IF covered > 0 THEN m.entries[covered].term ELSE m.prevTerm
      /\ a.entries = es
  BY DEF AboveBase
<1>4. /\ covered \in 0 .. Len(m.entries)
      /\ m.prevIndex < Base(n) =>
           \/ covered = Base(n) - m.prevIndex
           \/ covered = Len(m.entries) /\ covered < Base(n) - m.prevIndex
      /\ m.prevIndex >= Base(n) => covered = 0
  BY <1>1 DEF Smaller
<1> HIDE DEF covered
<1>5. covered + 1 \in Nat \ {0} /\ Len(m.entries) \in Int /\ Len(m.entries) <= Len(m.entries)
  BY <1>1, <1>4
<1>6. es \in Seq(KnownEntries) /\ Len(es) = Len(m.entries) - covered
  <2>1. es \in Seq(KnownEntries)
        /\ Len(es) = IF covered + 1 <= Len(m.entries)
                     THEN Len(m.entries) - (covered + 1) + 1 ELSE 0
    BY <1>1, <1>5, Stretch
  <2> HIDE DEF es
  <2> QED  BY <1>1, <1>4, <2>1
<1>7. \A k \in 1 .. Len(es) : es[k] = m.entries[covered + k]
  <2> SUFFICES ASSUME NEW k \in 1 .. Len(es) PROVE es[k] = m.entries[covered + k]
    OBVIOUS
  <2>1. k \in 1 .. Len(m.entries) - (covered + 1) + 1
    <3> HIDE DEF es
    <3> QED  BY <1>1, <1>4, <1>6
  <2>2. es[k] = m.entries[(covered + 1) + k - 1]
    BY <1>1, <1>5, <2>1, StretchElement
  <2>3. (covered + 1) + k - 1 = covered + k
    BY <1>4, <2>1
  <2> QED  BY <2>2, <2>3
<1> HIDE DEF es
<1>8. ASSUME NEW k \in 1 .. Len(es)
      PROVE  a.prevIndex + k <= Len(W) /\ es[k] = W[a.prevIndex + k]
  <2>1. PICK j \in 1 .. Len(m.entries) : j = covered + k
    BY <1>1, <1>4, <1>6
  <2>2. m.prevIndex + j = a.prevIndex + k
    BY <1>1, <1>3, <1>4, <2>1
  <2>3. m.prevIndex + j <= Len(W) /\ m.entries[j] = W[m.prevIndex + j]
    BY <1>2
  <2> QED  BY <1>7, <2>1, <2>2, <2>3
<1>9. Anchored(W, m) \/ Len(es) > 0 => Anchored(W, a)
  <2> SUFFICES ASSUME Anchored(W, m) \/ Len(es) > 0, a.prevIndex > 0
               PROVE  a.prevIndex <= Len(W) /\ a.prevTerm = W[a.prevIndex].term
    BY DEF Anchored
  <2>1. CASE covered > 0
    <3>1. covered \in 1 .. Len(m.entries)
      BY <1>1, <1>4, <2>1
    <3>2. m.prevIndex + covered <= Len(W) /\ m.entries[covered] = W[m.prevIndex + covered]
      BY <1>2, <3>1
    <3> QED  BY <1>3, <2>1, <3>2
  <2>2. CASE ~(covered > 0)
    <3>1. covered = 0
      BY <1>4, <2>2
    <3>2. a.prevIndex = m.prevIndex /\ a.prevTerm = m.prevTerm
      BY <1>1, <1>3, <3>1
    <3>3. CASE Anchored(W, m)
      BY <3>2, <3>3 DEF Anchored
    <3>4. CASE Len(es) > 0
      <4>1. Len(m.entries) > 0 /\ 1 \in 1 .. Len(m.entries)
        BY <1>1, <1>6, <3>1, <3>4
      <4>2. m.prevIndex + 1 <= Len(W)
        BY <1>2, <4>1
      <4>3. Len(W) \in Nat
        BY LenProperties
      <4> QED  BY <1>1, <1>2, <3>2, <4>1, <4>2, <4>3
    <3> QED  BY <3>3, <3>4
  <2> QED  BY <2>1, <2>2
<1>10. covered \in Nat /\ Len(es) \in Nat
  BY <1>1, <1>4, <1>6, LenProperties
<1>11. a.prevIndex + Len(es) = m.prevIndex + Len(m.entries)
  <2>1. a.prevIndex = m.prevIndex + covered
    BY <1>3
  <2>2. Len(es) = Len(m.entries) - covered
    BY <1>6
  <2>3. m.prevIndex \in Nat /\ Len(m.entries) \in Nat
    BY <1>1, LenProperties
  <2> QED  BY <1>10, <2>1, <2>2, <2>3
<1>12. Len(es) > 0 => Base(n) <= a.prevIndex
  <2>1. Len(es) > 0 => covered # Len(m.entries)
    BY <1>1, <1>6, <1>10
  <2>2. CASE m.prevIndex < Base(n)
    BY <1>1, <1>3, <1>4, <1>10, <2>1, <2>2
  <2>3. CASE m.prevIndex >= Base(n)
    BY <1>1, <1>3, <1>4, <1>10, <2>3
  <2> QED  BY <1>1, <2>2, <2>3
<1>13. a.prevIndex >= Base(n) \/ a.prevIndex + Len(es) < Base(n)
  <2>1. CASE m.prevIndex >= Base(n)
    BY <1>1, <1>3, <1>4, <1>10, <2>1
  <2>2. CASE covered = Base(n) - m.prevIndex
    BY <1>1, <1>3, <1>10, <2>2
  <2>3. CASE covered = Len(m.entries) /\ covered < Base(n) - m.prevIndex
    <3>1. Len(es) = 0
      BY <1>1, <1>6, <1>10, <2>3
    <3> QED  BY <1>1, <1>3, <1>10, <2>3, <3>1
  <2> QED  BY <1>1, <1>4, <2>1, <2>2, <2>3
<1>14. a.prevIndex \in Nat
  BY <1>1, <1>3, <1>10
<1> QED  BY <1>3, <1>6, <1>8, <1>9, <1>10, <1>11, <1>12, <1>13, <1>14 DEF Carries

\* A log that passes the consistency check is the leader's up to that entry.
LEMMA ConsistentPrefix ==
    ASSUME Shape, NEW n \in Nodes, NEW F \in Seq(KnownEntries),
           Fits(F, log[n], snapshot[n]), NEW lead, NEW t, NEW u,
           Traced(lead, F, t), NEW W \in Seq(KnownEntries), Traced(lead, W, u),
           NEW a, a.prevIndex \in Nat, Anchored(W, a), Base(n) <= a.prevIndex,
           Consistent(n, a)
    PROVE  SameUpTo(F, W, a.prevIndex)
<1>1. Base(n) \in Nat /\ LastIndex(n) \in Nat
  BY IndexTypes
<1>2. PICK p \in Nat : p = a.prevIndex
  OBVIOUS
<1>3. CASE p = 0
  BY <1>2, <1>3, LenProperties DEF SameUpTo
<1>4. CASE p # 0
  <2>1. p <= LastIndex(n) /\ TermAt(n, p) = a.prevTerm
    BY <1>1, <1>2, <1>4 DEF Consistent, Larger
  <2>2. Len(F) = LastIndex(n) /\ TermAt(n, p) = F[p].term
    <3>1. p \in Base(n) .. LastIndex(n)
      BY <1>1, <1>2, <2>1
    <3> QED  BY <1>4, <3>1, FitsIndices
  <2>3. p <= Len(W) /\ F[p].term = W[p].term
    BY <1>2, <1>4, <2>1, <2>2 DEF Anchored
  <2>4. p \in 1 .. Len(F)
    BY <1>1, <1>4, <2>1, <2>2
  <2> QED  BY <1>2, <2>3, <2>4, TermFixesLog
<1> QED  BY <1>3, <1>4

\* Below the first conflict a log is the leader's.
LEMMA FirstConflict ==
    ASSUME Shape, NEW n \in Nodes, NEW F \in Seq(KnownEntries),
           Fits(F, log[n], snapshot[n]), NEW lead, NEW t, NEW u,
           Traced(lead, F, t), NEW W \in Seq(KnownEntries), Traced(lead, W, u),
           NEW a, Carries(W, a), Len(a.entries) > 0 => Base(n) <= a.prevIndex,
           Consistent(n, a), Conflicts(n, a) # {},
           NEW c, c = Min(Conflicts(n, a))
    PROVE  /\ c \in Conflicts(n, a)
           /\ c \in a.prevIndex + 1 .. a.prevIndex + Len(a.entries)
           /\ Len(a.entries) > 0
           /\ c <= Len(F) + 1
           /\ SameUpTo(F, W, c - 1)
<1> DEFINE C == Conflicts(n, a)
           p == a.prevIndex
           end == p + Len(a.entries)
<1>1. /\ p \in Nat
      /\ Len(a.entries) \in Nat
      /\ \A k \in 1 .. Len(a.entries) : p + k <= Len(W) /\ a.entries[k] = W[p + k]
      /\ Len(a.entries) > 0 => Anchored(W, a)
  BY DEF Carries
<1>2. /\ Base(n) \in Nat
      /\ LastIndex(n) \in Nat
      /\ Len(F) = LastIndex(n)
      /\ \A i \in Base(n) .. LastIndex(n) : TermAt(n, i) = IF i = 0 THEN 0 ELSE F[i].term
  BY IndexTypes, FitsIndices
<1>3. C \in SUBSET Int /\ \A i \in C : p + 1 <= i /\ i <= end
  BY <1>1 DEF Conflicts
<1>4. c \in C /\ \A i \in C : c <= i
  <2> HIDE DEF C, p, end
  <2>1. p + 1 \in Int
    BY <1>1
  <2> QED  BY <1>3, <2>1, BoundedMin DEF C
<1>5. c \in p + 1 .. end
  BY <1>1, <1>3, <1>4
<1>6. Len(a.entries) > 0 /\ Base(n) <= p
  BY <1>1, <1>5
<1>7. SameUpTo(F, W, p)
  BY <1>1, <1>6, ConsistentPrefix
<1>8. p <= LastIndex(n)
  BY <1>2, <1>7 DEF SameUpTo
<1>9. c <= LastIndex(n) + 1
  <2>1. CASE end <= LastIndex(n)
    BY <1>1, <1>2, <1>5, <2>1
  <2>2. CASE end > LastIndex(n)
    <3>1. LastIndex(n) + 1 \in p + 1 .. end
      BY <1>1, <1>2, <1>8, <2>2
    <3>2. LastIndex(n) + 1 \in C
      BY <1>2, <3>1 DEF Conflicts
    <3> QED  BY <1>4, <3>2
  <2> QED  BY <1>1, <1>2, <2>1, <2>2
<1>10. SameUpTo(F, W, c - 1)
  <2>1. CASE c - 1 = p
    BY <1>7, <2>1
  <2>2. CASE c - 1 # p
    <3>0. PICK i \in Int : i = c - 1
      BY <1>1, <1>5
    <3>1. i \in p + 1 .. end /\ i <= LastIndex(n) /\ ~(c <= i)
      <4>1. p \in Int /\ end \in Int /\ c \in Int /\ LastIndex(n) \in Int
        BY <1>1, <1>2, <1>5
      <4>2. PICK q \in Int, e \in Int, last \in Int :
                q = p /\ e = end /\ last = LastIndex(n)
        BY <4>1
      <4>3. q + 1 <= c /\ c <= e /\ c <= last + 1 /\ i # q
        BY <1>5, <1>9, <2>2, <3>0, <4>2
      <4>4. i \in q + 1 .. e /\ i <= last /\ ~(c <= i)
        BY ONLY <3>0, <4>1, <4>2, <4>3
      <4> QED  BY <4>2, <4>4
    <3>2. i \notin C
      <4> HIDE DEF C
      <4> QED  BY <1>4, <3>1
    <3>3. TermAt(n, i) = a.entries[i - p].term
      BY <1>2, <3>1, <3>2 DEF Conflicts
    <3>4. PICK k \in 1 .. Len(a.entries) : k = i - p
      <4>1. PICK k \in Int : k = i - p
        BY <1>1
      <4>2. 1 <= k /\ k <= Len(a.entries)
        BY <1>1, <3>1, <4>1
      <4> QED  BY <1>1, <4>1, <4>2
    <3>5. p + k = i /\ p + k <= Len(W) /\ a.entries[k] = W[p + k]
      BY <1>1, <3>1, <3>4
    <3>6. i \in Base(n) .. LastIndex(n) /\ i # 0 /\ i \in 1 .. Len(F)
      BY <1>1, <1>2, <1>6, <3>1
    <3>7. F[i].term = W[i].term
      BY <1>2, <3>3, <3>4, <3>5, <3>6
    <3>8. SameUpTo(F, W, i)
      BY <3>5, <3>6, <3>7, TermFixesLog
    <3> QED  BY <3>0, <3>8
  <2> QED  BY <2>1, <2>2
<1> QED  BY <1>2, <1>4, <1>5, <1>6, <1>9, <1>10

\* What an AppendEntries leaves a follower with: its own log, or the leader's up
\* to the last entry sent.
MergedWhole(n, F, W, a) ==
    IF Conflicts(n, a) = {} THEN F ELSE SubSeq(W, 1, a.prevIndex + Len(a.entries))

\* F is n's whole log and W its leader's, both traced to lead.
Both(n, F, W, lead, t, u) ==
    /\ F \in Seq(KnownEntries)
    /\ W \in Seq(KnownEntries)
    /\ Fits(F, log[n], snapshot[n])
    /\ Traced(lead, F, t)
    /\ Traced(lead, W, u)

\* L is what F has become: F or a part of W, with all that they share.
Becomes(F, W, L) ==
    /\ L \in Seq(KnownEntries)
    /\ L = F \/ SameUpTo(W, L, Len(L))
    /\ \A i \in 1 .. Len(F) :
         i <= Len(W) /\ F[i].term = W[i].term => i <= Len(L) /\ L[i] = F[i]

LEMMA MergedTraced ==
    ASSUME Shape, NEW n \in Nodes, NEW F, NEW W, NEW lead, NEW t, NEW u,
           Both(n, F, W, lead, t, u),
           NEW a, Carries(W, a), Len(a.entries) > 0 => Base(n) <= a.prevIndex,
           Consistent(n, a), NEW L, L = MergedWhole(n, F, W, a)
    PROVE  /\ Becomes(F, W, L)
           /\ Fits(L, Merged(n, a).log, snapshot[n])
           /\ a.prevIndex + Len(a.entries) <= Len(L)
           /\ Len(a.entries) > 0 => SameUpTo(L, W, a.prevIndex + Len(a.entries))
           /\ L # F => \A i \in Nat : SameUpTo(F, W, i) => SameUpTo(F, L, i)
<1> DEFINE p == a.prevIndex
           end == p + Len(a.entries)
<1>0. /\ F \in Seq(KnownEntries)
      /\ W \in Seq(KnownEntries)
      /\ Fits(F, log[n], snapshot[n])
      /\ Traced(lead, F, t)
      /\ Traced(lead, W, u)
  BY DEF Both
<1>1. /\ p \in Nat
      /\ Len(a.entries) \in Nat
      /\ \A k \in 1 .. Len(a.entries) : p + k <= Len(W) /\ a.entries[k] = W[p + k]
      /\ Len(a.entries) > 0 => Anchored(W, a)
      /\ a.entries \in Seq(KnownEntries)
      /\ Len(W) \in Nat
      /\ end \in Nat
  BY <1>0, LenProperties DEF Carries
<1>2. /\ Base(n) \in Nat
      /\ LastIndex(n) \in Nat
      /\ Len(F) = LastIndex(n)
      /\ \A i \in Base(n) .. LastIndex(n) : TermAt(n, i) = IF i = 0 THEN 0 ELSE F[i].term
      /\ \A i \in Base(n) + 1 .. LastIndex(n) : log[n][i - Base(n)] = F[i]
      /\ log[n] \in Seq(KnownEntries)
      /\ LastIndex(n) = Base(n) + Len(log[n])
      /\ Len(log[n]) \in Nat
  BY <1>0, IndexTypes, FitsIndices DEF EntryAt, LastIndex
<1>3. CASE Conflicts(n, a) = {}
  <2>1. L = F /\ Merged(n, a).log = log[n]
    BY <1>3 DEF Merged, MergedWhole
  <2>2. CASE Len(a.entries) = 0
    <3>1. p <= LastIndex(n)
      BY <1>1, <1>2 DEF Consistent, Larger
    <3> QED  BY <1>0, <1>1, <1>2, <2>1, <2>2, <3>1 DEF Becomes
  <2>3. CASE Len(a.entries) > 0
    <3>1. end \in p + 1 .. p + Len(a.entries) /\ end \in Nat
      BY <1>1, <2>3
    <3>2. ~(end > LastIndex(n)) /\ TermAt(n, end) = a.entries[end - p].term
      BY <1>3, <3>1 DEF Conflicts
    <3>3. end \in 1 .. Len(F) /\ end \in Base(n) .. LastIndex(n) /\ end # 0
      <4>1. end \in Nat /\ end >= p + 1 /\ p \in Nat /\ end <= LastIndex(n)
        BY <1>1, <1>2, <3>1, <3>2
      <4>2. p >= Base(n)
        BY <1>1, <2>3
      <4>3. Base(n) \in Nat /\ LastIndex(n) \in Nat /\ Len(F) = LastIndex(n)
        BY <1>2
      <4> HIDE DEF end
      <4> QED  BY <4>1, <4>2, <4>3
    <3>4. PICK k \in 1 .. Len(a.entries) : k = end - p /\ p + k = end
      BY <1>1, <2>3
    <3>5. end <= Len(W) /\ F[end].term = W[end].term
      BY <1>1, <1>2, <3>2, <3>3, <3>4
    <3>6. SameUpTo(F, W, end)
      <4> HIDE DEF end
      <4> QED  BY <1>0, <3>3, <3>5, TermFixesLog
    <3> QED  BY <1>0, <1>2, <2>1, <3>3, <3>6 DEF Becomes
  <2> QED  BY <1>1, <2>2, <2>3
<1>4. CASE Conflicts(n, a) # {}
  <2>1. PICK c : c = Min(Conflicts(n, a))
    OBVIOUS
  <2>2. /\ c \in Conflicts(n, a)
        /\ c \in p + 1 .. end
        /\ Len(a.entries) > 0
        /\ c <= Len(F) + 1
        /\ SameUpTo(F, W, c - 1)
    BY <1>0, <1>4, <2>1, FirstConflict
  <2>3. /\ c \in Nat
        /\ Base(n) <= p
        /\ Base(n) <= c - 1
    BY <1>1, <1>2, <2>2
  <2>4. end <= Len(W)
    <3>1. Len(a.entries) \in 1 .. Len(a.entries)
      BY <1>1, <2>2
    <3> QED  BY <1>1, <3>1
  <2>5. L = SubSeq(W, 1, end)
    BY <1>4 DEF MergedWhole
  <2>0. /\ p \in Nat /\ end \in Nat /\ Base(n) \in Nat /\ c \in Nat
        /\ Base(n) < c /\ p < c /\ c <= end
    BY <1>1, <1>2, <2>2, <2>3
  <2>00. Len(a.entries) \in Nat /\ end = p + Len(a.entries)
    BY <1>1
  <2> HIDE DEF p, end
  <2>6. L \in Seq(KnownEntries) /\ Len(L) = end /\ \A i \in 1 .. end : L[i] = W[i]
    <3>1. L \in Seq(KnownEntries) /\ Len(L) = IF 1 <= end THEN end - 1 + 1 ELSE 0
      BY <1>0, <1>1, <2>4, <2>5, Stretch
    <3>2. ASSUME NEW i \in 1 .. end PROVE L[i] = W[i]
      <4>1. i \in 1 .. end - 1 + 1 /\ 1 + i - 1 = i
        BY <1>1
      <4>2. L[i] = W[1 + i - 1]
        BY <1>0, <1>1, <2>4, <2>5, <4>1, StretchElement
      <4> QED  BY <4>1, <4>2
    <3> QED  BY <1>1, <3>1, <3>2
  <2>7. SameUpTo(L, W, end) /\ SameUpTo(W, L, Len(L))
    <3>1. end <= Len(L) /\ end <= Len(W) /\ Len(L) = end
      BY <2>0, <2>4, <2>6
    <3>2. \A j \in 1 .. end : L[j] = W[j]
      BY <2>6
    <3> QED  BY <3>1, <3>2 DEF SameUpTo
  <2> DEFINE kept == SubSeq(log[n], 1, c - 1 - Base(n))
             new == SubSeq(a.entries, c - p, Len(a.entries))
  <2>8. Merged(n, a).log = kept \o new
    BY <1>4, <2>1 DEF Merged, p
  <2>9. PICK q \in Nat : q = c - 1 - Base(n) /\ q <= Len(log[n])
    BY <1>2, <2>2, <2>3
  <2>10. kept \in Seq(KnownEntries) /\ Len(kept) = q
    <3>1. kept \in Seq(KnownEntries) /\ Len(kept) = IF 1 <= q THEN q - 1 + 1 ELSE 0
      BY <1>2, <2>9, Stretch
    <3> HIDE DEF kept
    <3> QED  BY <2>9, <3>1
  <2>11. \A j \in 1 .. q : kept[j] = L[Base(n) + j]
    <3> SUFFICES ASSUME NEW j \in 1 .. q PROVE kept[j] = L[Base(n) + j]
      OBVIOUS
    <3>1. j \in 1 .. q - 1 + 1 /\ 1 + j - 1 = j
      BY <2>9
    <3>2. kept[j] = log[n][1 + j - 1]
      BY <1>2, <2>9, <3>1, StretchElement
    <3> HIDE DEF kept
    <3>3. PICK i \in Nat : i = Base(n) + j
      BY <1>2
    <3>4. /\ i - Base(n) = j
          /\ i \in Base(n) + 1 .. LastIndex(n)
          /\ i \in 1 .. c - 1
          /\ i \in 1 .. end
      <4>1. Len(log[n]) \in Nat /\ LastIndex(n) = Base(n) + Len(log[n])
        BY <1>2
      <4>2. j \in Nat /\ 1 <= j /\ j <= q
        OBVIOUS
      <4>3. i - Base(n) = j /\ i \in Base(n) + 1 .. LastIndex(n)
        BY <2>0, <2>9, <3>3, <4>1, <4>2
      <4>4. i \in 1 .. c - 1 /\ i \in 1 .. end
        BY <2>0, <2>9, <3>3, <4>2
      <4> QED  BY <4>3, <4>4
    <3>5. F[i] = W[i] /\ L[i] = W[i] /\ log[n][j] = F[i]
      BY <1>2, <2>2, <2>6, <3>4 DEF SameUpTo
    <3> QED  BY <3>1, <3>2, <3>3, <3>5
  <2>12. PICK d \in Nat \ {0} : d = c - p /\ d <= Len(a.entries)
    BY <1>1, <2>2 DEF end
  <2>13. new \in Seq(KnownEntries) /\ Len(new) = end - c + 1
    <3>1. new \in Seq(KnownEntries)
          /\ Len(new) = IF d <= Len(a.entries) THEN Len(a.entries) - d + 1 ELSE 0
      BY <1>1, <2>12, Stretch
    <3> HIDE DEF new
    <3>2. Len(new) = Len(a.entries) - d + 1
      BY <2>12, <3>1
    <3> QED  BY <1>1, <2>3, <2>12, <3>1, <3>2 DEF end
  <2>14. \A j \in 1 .. end - c + 1 : new[j] = L[c + j - 1]
    <3> SUFFICES ASSUME NEW j \in 1 .. end - c + 1 PROVE new[j] = L[c + j - 1]
      OBVIOUS
    <3>1. j \in 1 .. Len(a.entries) - d + 1
      BY <2>0, <2>00, <2>12
    <3>2. new[j] = a.entries[d + j - 1]
      <4>1. new = SubSeq(a.entries, d, Len(a.entries))
        BY <2>12
      <4>2. PICK es \in Seq(KnownEntries) : es = a.entries
        BY <1>1
      <4>3. PICK b \in Int : b = Len(es) /\ b <= Len(es)
        BY <2>00, <4>2
      <4>4. SubSeq(es, d, b)[j] = es[d + j - 1]
        BY <3>1, <4>2, <4>3, StretchElement
      <4> QED  BY <4>1, <4>2, <4>3, <4>4
    <3> HIDE DEF new
    <3>3. PICK k \in 1 .. Len(a.entries) : k = d + j - 1
      BY <2>00, <2>12, <3>1
    <3>4. p + k = c + j - 1 /\ p + k \in 1 .. end
      BY <2>0, <2>00, <2>12, <3>1, <3>3
    <3> QED  BY <1>1, <2>6, <3>2, <3>3, <3>4
  <2> HIDE DEF kept, new
  <2>15. Fits(L, kept \o new, snapshot[n])
    <3> DEFINE lg == kept \o new
    <3>1. /\ Len(lg) = Len(kept) + Len(new)
          /\ \A j \in 1 .. Len(kept) + Len(new) :
               lg[j] = IF j <= Len(kept) THEN kept[j] ELSE new[j - Len(kept)]
      BY <2>10, <2>13, ConcatProperties
    <3> HIDE DEF lg
    <3>2. Len(kept) + Len(new) = end - Base(n) /\ Len(kept) = c - 1 - Base(n)
      BY <2>0, <2>9, <2>10, <2>13
    <3>3. ASSUME NEW i \in Base(n) + 1 .. Len(L)
          PROVE  L[i] = lg[i - Base(n)]
      <4>1. PICK j \in Int : j = i - Base(n)
        BY <1>2
      <4>2. j \in 1 .. Len(kept) + Len(new) /\ i = Base(n) + j
        <5>1. Base(n) + 1 <= i /\ i <= end
          BY <2>0, <2>6
        <5>2. j \in Int /\ i = Base(n) + j /\ 1 <= j /\ j <= end - Base(n)
          BY <2>0, <4>1, <5>1
        <5> QED  BY <3>2, <5>2
      <4>3. CASE j <= Len(kept)
        <5>1. j \in 1 .. q /\ lg[j] = kept[j]
          BY <2>9, <2>10, <3>1, <4>2, <4>3
        <5> QED  BY <2>11, <4>1, <4>2, <5>1
      <4>4. CASE ~(j <= Len(kept))
        <5>1. PICK k \in Int : k = j - Len(kept)
          BY <2>9, <2>10
        <5>2. k \in 1 .. end - c + 1 /\ c + k - 1 = i /\ lg[j] = new[k]
          <6>1. i <= end /\ j = i - Base(n) /\ k = j - (c - 1 - Base(n)) /\ k > 0
            <7>1. Len(kept) = c - 1 - Base(n) /\ Len(kept) \in Int
              BY <2>9, <2>10
            <7>2. i <= end
              BY <2>6
            <7> QED  BY <4>1, <4>4, <5>1, <7>1, <7>2
          <6>2. PICK b \in Int : b = Base(n) /\ i \in Int
            BY <2>0, <4>2
          <6>3. PICK e \in Int : e = end
            BY <2>0
          <6>4. k \in 1 .. end - c + 1 /\ c + k - 1 = i
            <7>1. i \in Int /\ j \in Int /\ k \in Int /\ c \in Int
              BY <2>0, <4>1, <5>1, <6>2
            <7>2. j = i - b /\ k = j - (c - 1 - b) /\ i <= e /\ k > 0
              BY <6>1, <6>2, <6>3
            <7>3. k \in 1 .. e - c + 1 /\ c + k - 1 = i
              BY <7>1, <7>2
            <7> QED  BY <6>3, <7>3
          <6> QED  BY <3>1, <4>2, <4>4, <5>1, <6>4
        <5> QED  BY <2>14, <4>1, <5>2
      <4> QED  BY <4>3, <4>4
    <3>4. snapshot[n].lastTerm = IF Base(n) = 0 THEN 0 ELSE L[Base(n)].term
      <4>1. snapshot[n].lastTerm = IF Base(n) = 0 THEN 0 ELSE F[Base(n)].term
        BY <1>0 DEF Fits, Base
      <4>2. CASE Base(n) = 0
        BY <4>1, <4>2
      <4>3. CASE Base(n) # 0
        <5>1. Base(n) \in 1 .. c - 1 /\ Base(n) \in 1 .. end
          BY <1>1, <1>2, <2>2, <2>3, <4>3
        <5>2. F[Base(n)] = W[Base(n)] /\ L[Base(n)] = W[Base(n)]
          BY <2>2, <2>6, <5>1 DEF SameUpTo
        <5> QED  BY <4>1, <4>3, <5>2
      <4> QED  BY <4>2, <4>3
    <3>5. Len(L) = Base(n) + Len(lg)
      BY <2>0, <2>6, <3>1, <3>2
    <3>6. Fits(L, lg, snapshot[n])
      BY <3>3, <3>4, <3>5 DEF Fits, Base
    <3> QED  BY <3>6 DEF lg
  <2>16. \A i \in Nat : SameUpTo(F, W, i) => i < c
    <3> SUFFICES ASSUME NEW i \in Nat, SameUpTo(F, W, i), i >= c PROVE FALSE
      BY <2>3
    <3>1. c \in 1 .. i /\ c <= Len(F) /\ F[c] = W[c]
      BY <1>1, <1>2, <2>2, <2>3 DEF SameUpTo
    <3>2. c \in Base(n) .. LastIndex(n) /\ c # 0 /\ ~(c > LastIndex(n))
      BY <1>1, <1>2, <2>2, <2>3, <3>1
    <3>3. PICK k \in 1 .. Len(a.entries) : k = c - p /\ p + k = c
      BY <1>1, <2>2, <2>3 DEF end
    <3>4. TermAt(n, c) = a.entries[k].term
      BY <1>1, <1>2, <3>1, <3>2, <3>3
    <3>5. TermAt(n, c) # a.entries[c - p].term
      BY <2>2, <3>2 DEF Conflicts, p
    <3> QED  BY <3>3, <3>4, <3>5
  <2>17. \A i \in Nat : SameUpTo(F, W, i) => SameUpTo(F, L, i)
    <3> SUFFICES ASSUME NEW i \in Nat, SameUpTo(F, W, i) PROVE SameUpTo(F, L, i)
      OBVIOUS
    <3>1. i < c /\ i <= end
      BY <1>1, <2>2, <2>3, <2>16
    <3> QED  BY <1>1, <2>6, <3>1 DEF SameUpTo
  <2>18. ASSUME NEW i \in 1 .. Len(F), i <= Len(W), F[i].term = W[i].term
         PROVE  i <= Len(L) /\ L[i] = F[i]
    <3>1. SameUpTo(F, W, i) /\ i \in Nat
      BY <1>0, <1>2, <2>18, TermFixesLog
    <3>2. SameUpTo(F, L, i) /\ i \in 1 .. i
      BY <2>17, <3>1
    <3> QED  BY <3>2 DEF SameUpTo
  <2> QED  BY <2>2, <2>6, <2>7, <2>8, <2>15, <2>17, <2>18 DEF end, p, Becomes
<1> QED  BY <1>3, <1>4

\* The commit index a leader's message gives is not above the entries it matches.
LEMMA FollowerCommitBounds ==
    ASSUME Shape, NEW n \in Nodes, NEW m \in network, m.type = "AppendEntries",
           NEW match \in Nat, NEW ci, ci = FollowerCommit(n, m, match)
    PROVE  /\ ci \in Nat
           /\ ci >= commitIndex[n]
           /\ ci > commitIndex[n] => ci <= match /\ ci <= m.commit
<1>1. m.commit \in Nat /\ commitIndex[n] \in Nat
  BY IndexTypes DEF Shape, ShapedNetwork, ShapedMessage
<1> QED  BY <1>1 DEF FollowerCommit, Larger, Smaller

\* A follower that finds a message consistent merges it.
Merges(n, m) ==
    LET a == AboveBase(n, m)
        match == a.prevIndex + Len(a.entries)
    IN /\ m.type = "AppendEntries"
       /\ m.term >= term[n]
       /\ FollowLeader(n, m.term)
       /\ Consistent(n, a)
       /\ SetCommitIndex(n, Merged(n, a).log, FollowerCommit(n, m, match), m.term)
       /\ Send({AppendReply(m.term, n, m.from, TRUE, match)})
       /\ UNCHANGED leadersByTerm

LEMMA MergesLogs ==
    ASSUME Shape, Shape', NEW lead, NEW full, Logs(lead, full), NEW n \in Nodes,
           NEW m \in network, Merges(n, m), NEW a, a = AboveBase(n, m),
           NEW t \in Nat, t = m.term,
           NEW L, L = MergedWhole(n, full[n], lead[t], a),
           NEW full2, full2 = [full EXCEPT ![n] = L]
    PROVE  Logs(lead, full2)'
<1>1. /\ lead \in [Nat -> Seq(KnownEntries)]
      /\ full \in [Nodes -> Seq(KnownEntries)]
      /\ Fits(full[n], log[n], snapshot[n])
      /\ Traced(lead, full[n], term[n])
      /\ Traced(lead, lead[t], t)
      /\ term[n] \in Nat
      /\ term[n] <= t
  BY IndexTypes DEF Logs, Merges
<1>2. PICK F \in Seq(KnownEntries), W \in Seq(KnownEntries) : F = full[n] /\ W = lead[t]
  BY <1>1
<1>3. m.type = "AppendEntries" /\ TracedMessage(W, m)
  BY <1>2 DEF Merges, Logs
<1>4. /\ Carries(W, a)
      /\ Len(a.entries) > 0 => Base(n) <= a.prevIndex
  BY <1>3, AboveBaseTraced
<1>5. /\ L \in Seq(KnownEntries)
      /\ Fits(L, Merged(n, a).log, snapshot[n])
      /\ L = F \/ SameUpTo(W, L, Len(L))
      /\ a.prevIndex + Len(a.entries) <= Len(L)
  <2>1. Consistent(n, a)
    BY DEF Merges
  <2>2. Both(n, F, W, lead, term[n], t)
    BY <1>1, <1>2 DEF Both
  <2>3. L = MergedWhole(n, F, W, a)
    BY <1>2
  <2>4. Becomes(F, W, L) /\ Fits(L, Merged(n, a).log, snapshot[n])
        /\ a.prevIndex + Len(a.entries) <= Len(L)
    BY <1>4, <2>1, <2>2, <2>3, MergedTraced
  <2> QED  BY <2>4 DEF Becomes
<1>6. PICK match \in Nat : match = a.prevIndex + Len(a.entries)
  BY <1>4 DEF Carries
<1>7. PICK ci : ci = FollowerCommit(n, m, match)
  OBVIOUS
<1>8. ci \in Nat /\ (ci > commitIndex[n] => ci <= Len(L))
  <2>1. ci \in Nat /\ (ci > commitIndex[n] => ci <= match)
    BY <1>3, <1>7, FollowerCommitBounds
  <2>2. Len(L) \in Nat /\ match <= Len(L)
    BY <1>5, <1>6, LenProperties
  <2> QED  BY <2>1, <2>2
<1>9. PICK lg \in Seq(KnownEntries) : lg = Merged(n, a).log
  <2>1. a.prevIndex \in Nat /\ a.entries \in Seq(KnownEntries)
    BY <1>4 DEF Carries
  <2> QED  BY <2>1, MergedShaped DEF Merges
<1>10. SetCommitIndex(n, lg, ci, t)
  BY <1>6, <1>7, <1>9 DEF Merges
<1>11. /\ Fits(L, log'[n], snapshot'[n])
       /\ \A k \in Nodes \ {n} : log'[k] = log[k] /\ snapshot'[k] = snapshot[k]
  BY <1>5, <1>8, <1>9, <1>10, SetCommitFits
<1>12. FollowLeader(n, t)
  BY DEF Merges
<1>13. Apart(n) /\ term'[n] = t /\ role'[n] = "follower"
  BY <1>11, <1>12, FollowLeaderApart DEF Apart
<1>14. Traced(lead, L, t)
  <2>1. CASE SameUpTo(W, L, Len(L))
    <3>1. t <= t /\ Traced(lead, W, t)
      BY <1>1, <1>2
    <3> QED  BY <1>5, <2>1, <3>1, TracedPrefix
  <2>2. CASE L = F
    <3>1. SameUpTo(F, L, Len(L))
      BY <2>2, LoggedTypes DEF SameUpTo
    <3> QED  BY <1>1, <1>2, <1>5, <3>1, TracedPrefix
  <2> QED  BY <1>5, <2>1, <2>2
<1>15. PICK ms : ms = network' \ network
  OBVIOUS
<1>16. Explained(lead, ms)'
  <2>1. NoNewEntries
    BY ReplyNoEntries DEF Merges
  <2> QED  BY <1>15, <2>1 DEF NoNewEntries, Explained
<1>17. leadersByTerm \subseteq leadersByTerm' /\ network' \subseteq network \cup ms
  BY <1>15 DEF Merges
<1> QED  BY <1>5, <1>11, <1>13, <1>14, <1>16, <1>17, FollowerLogs

\* A message is merged, or refused and nobody's log changes.
LEMMA AppendEntriesCases ==
    ASSUME Shape, NEW n \in Nodes, NEW m \in network, HandleAppendEntries(n, m)
    PROVE  \/ Merges(n, m)
           \/ /\ UNCHANGED <<log, snapshot, leadersByTerm>>
              /\ UNCHANGED commitVars
              /\ Apart(n)
              /\ NoNewEntries
              /\ \/ UNCHANGED <<term, role>>
                 \/ /\ FollowLeader(n, m.term)
                    /\ m.term >= term[n]
                    /\ term'[n] = m.term
                    /\ role'[n] = "follower"
              /\ \E t \in Nat : Send({AppendReply(t, n, m.from, FALSE, 0)})
<1>1. m.term \in Nat /\ term[n] \in Nat
  BY IndexTypes DEF Shape, ShapedNetwork, ShapedMessage
<1>2. UNCHANGED leadersByTerm
  BY DEF HandleAppendEntries
<1>3. CASE /\ Send({AppendReply(term[n], n, m.from, FALSE, 0)})
           /\ UNCHANGED <<persistentVars, role, commitVars>>
  <2>1. NoNewEntries
    BY <1>3, ReplyNoEntries
  <2> QED  BY <1>1, <1>2, <1>3, <2>1 DEF persistentVars, Apart
<1>4. CASE /\ m.term >= term[n]
           /\ FollowLeader(n, m.term)
           /\ Send({AppendReply(m.term, n, m.from, FALSE, 0)})
           /\ UNCHANGED <<log, snapshot, commitVars>>
  <2>1. NoNewEntries
    BY <1>4, ReplyNoEntries
  <2>2. /\ term'[n] = m.term
        /\ role'[n] = "follower"
        /\ Apart(n)
    BY <1>1, <1>4, FollowLeaderApart DEF Apart
  <2> QED  BY <1>1, <1>2, <1>4, <2>1, <2>2
<1> QED  BY <1>2, <1>3, <1>4 DEF HandleAppendEntries, Merges

LEMMA AppendEntriesLogs ==
    ASSUME Shape, Shape', NEW lead, NEW full, Logs(lead, full), NEW n \in Nodes,
           NEW m \in network, HandleAppendEntries(n, m)
    PROVE  \E full2 : Logs(lead, full2)'
<1>1. m.term \in Nat /\ term[n] \in Nat
  BY IndexTypes DEF Shape, ShapedNetwork, ShapedMessage
<1>2. CASE Merges(n, m)
  <2>1. PICK t \in Nat : t = m.term
    BY <1>1
  <2>2. PICK a : a = AboveBase(n, m)
    OBVIOUS
  <2>3. PICK L : L = MergedWhole(n, full[n], lead[t], a)
    OBVIOUS
  <2>4. PICK full2 : full2 = [full EXCEPT ![n] = L]
    OBVIOUS
  <2>5. Logs(lead, full2)'
    BY <1>2, <2>1, <2>2, <2>3, <2>4, MergesLogs
  <2> QED  BY <2>5
<1>3. CASE /\ UNCHANGED <<log, snapshot, leadersByTerm>>
           /\ Apart(n)
           /\ NoNewEntries
           /\ \/ UNCHANGED <<term, role>>
              \/ m.term >= term[n] /\ term'[n] = m.term /\ role'[n] = "follower"
  <2>1. term'[n] >= term[n]
    BY <1>1, <1>3
  <2> QED  BY <1>3, <2>1, SilentLogs
<1> QED  BY <1>2, <1>3, AppendEntriesCases

\* What an installed snapshot leaves a follower with: its own log, or the leader's
\* up to the snapshot.
InstalledWhole(n, F, W, s) == IF KeepsTail(n, s) THEN F ELSE SubSeq(W, 1, s.lastIndex)

LEMMA InstalledTraced ==
    ASSUME Shape, NEW n \in Nodes, NEW F, NEW W, NEW lead, NEW t, NEW u,
           Both(n, F, W, lead, t, u),
           NEW s, ~Covered(n, s), s.lastIndex \in 1 .. Len(W),
           s.lastTerm = W[s.lastIndex].term,
           NEW L, L = InstalledWhole(n, F, W, s)
    PROVE  /\ Becomes(F, W, L)
           /\ Fits(L, InstalledLog(n, s), s)
           /\ SameUpTo(L, W, s.lastIndex)
<1>0. /\ F \in Seq(KnownEntries)
      /\ W \in Seq(KnownEntries)
      /\ Fits(F, log[n], snapshot[n])
      /\ Traced(lead, F, t)
      /\ Traced(lead, W, u)
  BY DEF Both
<1>1. PICK k \in Nat : k = s.lastIndex /\ k > 0 /\ k <= Len(W)
  BY <1>0, LenProperties
<1>2. /\ Base(n) \in Nat
      /\ commitIndex[n] \in Nat
      /\ Base(n) <= commitIndex[n]
      /\ LastIndex(n) \in Nat
      /\ log[n] \in Seq(KnownEntries)
      /\ Len(log[n]) \in Nat
      /\ Len(F) = LastIndex(n)
      /\ \A i \in Base(n) .. LastIndex(n) : TermAt(n, i) = IF i = 0 THEN 0 ELSE F[i].term
      /\ Len(W) \in Nat
  BY <1>0, IndexTypes, FitsIndices, LenProperties
<1>3. k > Base(n)
  BY <1>1, <1>2 DEF Covered
<1>4. CASE KeepsTail(n, s)
  <2>1. L = F /\ InstalledLog(n, s) = SubSeq(log[n], k - Base(n) + 1, Len(log[n]))
    BY <1>1, <1>4 DEF InstalledWhole, InstalledLog
  <2>2. k <= LastIndex(n) /\ TermAt(n, k) = W[k].term
    BY <1>1, <1>4 DEF KeepsTail
  <2>3. k \in Base(n) .. LastIndex(n) /\ k \in 1 .. Len(F)
    BY <1>1, <1>2, <1>3, <2>2
  <2>4. F[k].term = W[k].term
    BY <1>1, <1>2, <2>2, <2>3
  <2>5. SameUpTo(F, W, k)
    BY <1>0, <1>1, <2>3, <2>4, TermFixesLog
  <2>6. Fits(F, SubSeq(log[n], k - Base(n) + 1, Len(log[n])), s)
    <3>1. k >= snapshot[n].lastIndex /\ snapshot[n].lastIndex \in Nat
      BY <1>2, <1>3 DEF Base
    <3>2. s.lastIndex = k /\ s.lastTerm = F[k].term /\ k <= Len(F)
      BY <1>1, <2>3, <2>4
    <3> QED  BY <1>0, <1>1, <1>2, <3>1, <3>2, TailFits DEF Base
  <2> QED  BY <1>0, <1>1, <2>1, <2>3, <2>5, <2>6 DEF Becomes
<1>5. CASE ~KeepsTail(n, s)
  <2>1. L = SubSeq(W, 1, k) /\ InstalledLog(n, s) = <<>>
    BY <1>1, <1>5 DEF InstalledWhole, InstalledLog
  <2>2. L \in Seq(KnownEntries) /\ Len(L) = k
    <3>1. L \in Seq(KnownEntries) /\ Len(L) = IF 1 <= k THEN k - 1 + 1 ELSE 0
      BY <1>0, <1>1, <2>1, Stretch
    <3> QED  BY <1>1, <3>1
  <2>3. \A i \in 1 .. k : L[i] = W[i]
    <3> SUFFICES ASSUME NEW i \in 1 .. k PROVE L[i] = W[i]
      OBVIOUS
    <3>1. i \in 1 .. k - 1 + 1 /\ 1 + i - 1 = i
      BY <1>1
    <3>2. L[i] = W[1 + i - 1]
      BY <1>0, <1>1, <2>1, <3>1, StretchElement
    <3> QED  BY <3>1, <3>2
  <2>4. SameUpTo(W, L, Len(L)) /\ SameUpTo(L, W, k)
    <3>1. k <= Len(L) /\ k <= Len(W) /\ Len(L) = k
      BY <1>1, <2>2
    <3> QED  BY <2>3, <3>1 DEF SameUpTo
  <2>5. Fits(L, <<>>, s)
    <3>1. Len(L) = s.lastIndex + Len(<<>>) /\ s.lastIndex # 0
      BY <1>1, <2>2
    <3>2. s.lastTerm = L[s.lastIndex].term
      BY <1>1, <2>3
    <3>3. \A i \in s.lastIndex + 1 .. Len(L) : FALSE
      BY <1>1, <2>2
    <3> QED  BY <3>1, <3>2, <3>3 DEF Fits
  <2>6. ASSUME NEW i \in 1 .. Len(F), i <= Len(W), F[i].term = W[i].term
        PROVE  i <= Len(L) /\ L[i] = F[i]
    <3>1. SameUpTo(F, W, i) /\ i \in 1 .. i
      BY <1>0, <1>2, <2>6, TermFixesLog
    <3>2. CASE i <= k
      <4>1. F[i] = W[i] /\ i \in 1 .. k
        BY <1>1, <3>1, <3>2 DEF SameUpTo
      <4> QED  BY <2>2, <2>3, <3>2, <4>1
    <3>3. CASE ~(i <= k)
      <4>1. k \in 1 .. i /\ k \in Base(n) .. LastIndex(n) /\ k # 0
        BY <1>1, <1>2, <1>3, <3>3
      <4>2. F[k] = W[k]
        BY <3>1, <4>1 DEF SameUpTo
      <4>3. KeepsTail(n, s)
        BY <1>1, <1>2, <4>1, <4>2 DEF KeepsTail
      <4> QED  BY <1>5, <4>3
    <3> QED  BY <3>2, <3>3
  <2> QED  BY <1>1, <2>1, <2>2, <2>4, <2>5, <2>6 DEF Becomes
<1> QED  BY <1>4, <1>5

\* A follower installs a snapshot of more than it has committed.
Installs(n, m) ==
    /\ m.type = "InstallSnapshot"
    /\ m.term >= term[n]
    /\ FollowLeader(n, m.term)
    /\ ~Covered(n, m.snapshot)
    /\ log' = [log EXCEPT ![n] = InstalledLog(n, m.snapshot)]
    /\ snapshot' = [snapshot EXCEPT ![n] = m.snapshot]
    /\ commitIndex' = [commitIndex EXCEPT ![n] = m.snapshot.lastIndex]
    /\ applied' = [applied EXCEPT ![n] = m.snapshot.image]
    /\ Send({AppendReply(m.term, n, m.from, TRUE, m.snapshot.lastIndex)})
    /\ UNCHANGED <<leadersByTerm, committed>>

LEMMA InstallsLogs ==
    ASSUME Shape, Shape', NEW lead, NEW full, Logs(lead, full), NEW n \in Nodes,
           NEW m \in network, Installs(n, m), NEW s, s = m.snapshot,
           NEW t \in Nat, t = m.term,
           NEW L, L = InstalledWhole(n, full[n], lead[t], s),
           NEW full2, full2 = [full EXCEPT ![n] = L]
    PROVE  Logs(lead, full2)'
<1>1. /\ lead \in [Nat -> Seq(KnownEntries)]
      /\ full \in [Nodes -> Seq(KnownEntries)]
      /\ Fits(full[n], log[n], snapshot[n])
      /\ Traced(lead, full[n], term[n])
      /\ Traced(lead, lead[t], t)
      /\ term[n] \in Nat
      /\ term[n] <= t
      /\ log \in [Nodes -> Seq(KnownEntries)]
      /\ snapshot \in [Nodes -> KnownSnapshots]
  BY IndexTypes DEF Logs, Installs, Shape, ShapedLogs
<1>2. PICK F \in Seq(KnownEntries), W \in Seq(KnownEntries) : F = full[n] /\ W = lead[t]
  BY <1>1
<1>3. TracedMessage(W, m) /\ m.type = "InstallSnapshot"
  BY <1>2 DEF Installs, Logs
<1>4. /\ s.lastIndex \in 1 .. Len(W)
      /\ s.lastTerm = W[s.lastIndex].term
      /\ ~Covered(n, s)
  BY <1>3 DEF TracedMessage, Installs
<1>5. /\ L \in Seq(KnownEntries)
      /\ Fits(L, InstalledLog(n, s), s)
      /\ L = F \/ SameUpTo(W, L, Len(L))
  <2>1. Both(n, F, W, lead, term[n], t)
    BY <1>1, <1>2 DEF Both
  <2>2. L = InstalledWhole(n, F, W, s)
    BY <1>2
  <2>3. Becomes(F, W, L) /\ Fits(L, InstalledLog(n, s), s)
    BY <1>4, <2>1, <2>2, InstalledTraced
  <2> QED  BY <2>3 DEF Becomes
<1>6. /\ Fits(L, log'[n], snapshot'[n])
      /\ \A k \in Nodes \ {n} : log'[k] = log[k] /\ snapshot'[k] = snapshot[k]
  BY <1>1, <1>5 DEF Installs
<1>7. FollowLeader(n, t)
  BY DEF Installs
<1>8. Apart(n) /\ term'[n] = t /\ role'[n] = "follower"
  BY <1>6, <1>7, FollowLeaderApart DEF Apart
<1>9. Traced(lead, L, t)
  <2>1. CASE SameUpTo(W, L, Len(L))
    <3>1. t <= t /\ Traced(lead, W, t)
      BY <1>1, <1>2
    <3> QED  BY <1>5, <2>1, <3>1, TracedPrefix
  <2>2. CASE L = F
    <3>1. SameUpTo(F, L, Len(L))
      BY <2>2, LoggedTypes DEF SameUpTo
    <3> QED  BY <1>1, <1>2, <1>5, <3>1, TracedPrefix
  <2> QED  BY <1>5, <2>1, <2>2
<1>10. PICK ms : ms = network' \ network
  OBVIOUS
<1>11. Explained(lead, ms)'
  <2>1. NoNewEntries
    BY ReplyNoEntries DEF Installs
  <2> QED  BY <1>10, <2>1 DEF NoNewEntries, Explained
<1>12. leadersByTerm \subseteq leadersByTerm' /\ network' \subseteq network \cup ms
  BY <1>10 DEF Installs
<1> QED  BY <1>5, <1>6, <1>8, <1>9, <1>11, <1>12, FollowerLogs

\* A snapshot is installed, or refused or covered and nobody's log changes.
LEMMA InstallSnapshotCases ==
    ASSUME Shape, NEW n \in Nodes, NEW m \in network, HandleInstallSnapshot(n, m)
    PROVE  \/ Installs(n, m)
           \/ /\ UNCHANGED <<log, snapshot, leadersByTerm, commitIndex, applied, committed>>
              /\ Apart(n)
              /\ NoNewEntries
              /\ \/ /\ UNCHANGED <<term, role>>
                    /\ Send({AppendReply(term[n], n, m.from, FALSE, 0)})
                 \/ /\ m.term >= term[n]
                    /\ term'[n] = m.term
                    /\ role'[n] = "follower"
                    /\ Send({AppendReply(m.term, n, m.from, TRUE, CoveredMatch(n))})
<1>1. m.term \in Nat /\ term[n] \in Nat
  BY IndexTypes DEF Shape, ShapedNetwork, ShapedMessage
<1>2. m.type = "InstallSnapshot" /\ UNCHANGED <<leadersByTerm, committed>>
  BY DEF HandleInstallSnapshot
<1>3. CASE /\ Send({AppendReply(term[n], n, m.from, FALSE, 0)})
           /\ UNCHANGED <<persistentVars, role, commitIndex, applied>>
  <2>1. NoNewEntries
    BY <1>3, ReplyNoEntries
  <2> QED  BY <1>1, <1>2, <1>3, <2>1 DEF persistentVars, Apart
<1>4. CASE /\ m.term >= term[n]
           /\ FollowLeader(n, m.term)
           /\ Send({AppendReply(m.term, n, m.from, TRUE, CoveredMatch(n))})
           /\ UNCHANGED <<log, snapshot, commitIndex, applied>>
  <2>1. NoNewEntries
    BY <1>4, ReplyNoEntries
  <2>2. /\ term'[n] = m.term
        /\ role'[n] = "follower"
        /\ Apart(n)
    BY <1>1, <1>4, FollowLeaderApart DEF Apart
  <2> QED  BY <1>1, <1>2, <1>4, <2>1, <2>2
<1> QED  BY <1>2, <1>3, <1>4 DEF HandleInstallSnapshot, Installs

LEMMA InstallSnapshotLogs ==
    ASSUME Shape, Shape', NEW lead, NEW full, Logs(lead, full), NEW n \in Nodes,
           NEW m \in network, HandleInstallSnapshot(n, m)
    PROVE  \E full2 : Logs(lead, full2)'
<1>1. m.term \in Nat /\ term[n] \in Nat
  BY IndexTypes DEF Shape, ShapedNetwork, ShapedMessage
<1>2. CASE Installs(n, m)
  <2>1. PICK t \in Nat : t = m.term
    BY <1>1
  <2>2. PICK s : s = m.snapshot
    OBVIOUS
  <2>3. PICK L : L = InstalledWhole(n, full[n], lead[t], s)
    OBVIOUS
  <2>4. PICK full2 : full2 = [full EXCEPT ![n] = L]
    OBVIOUS
  <2>5. Logs(lead, full2)'
    BY <1>2, <2>1, <2>2, <2>3, <2>4, InstallsLogs
  <2> QED  BY <2>5
<1>3. CASE /\ UNCHANGED <<log, snapshot, leadersByTerm>>
           /\ Apart(n)
           /\ NoNewEntries
           /\ \/ UNCHANGED <<term, role>>
              \/ m.term >= term[n] /\ term'[n] = m.term /\ role'[n] = "follower"
  <2>1. term'[n] >= term[n]
    BY <1>1, <1>3
  <2> QED  BY <1>3, <2>1, SilentLogs
<1> QED  BY <1>2, <1>3, InstallSnapshotCases

-----------------------------------------------------------------------------
(***************************************************************************)
(* Replies to a leader, and elections.                                     *)
(***************************************************************************)
\* A leader commits the newest of what it may commit.
LEMMA NewestCommittable ==
    ASSUME Shape, NEW n \in Nodes, NEW matched, Committable(n, matched) # {},
           NEW ci, ci = Max(Committable(n, matched))
    PROVE  /\ ci \in Committable(n, matched)
           /\ ci \in Nat
           /\ ci > commitIndex[n]
           /\ ci <= LastIndex(n)
<1> DEFINE S == Committable(n, matched)
<1>1. LastIndex(n) \in Int /\ commitIndex[n] \in Nat
  BY IndexTypes
<1>2. S \in SUBSET Int /\ \A i \in S : i <= LastIndex(n) /\ i \in Nat /\ i > commitIndex[n]
  BY <1>1 DEF Committable
<1> HIDE DEF S
<1>3. Max(S) \in S
  BY <1>1, <1>2, BoundedMax DEF S
<1> QED  BY <1>2, <1>3 DEF S

\* What an AppendEntries reply makes its receiver do.
Acknowledges(n, m) ==
    LET matched == [matchIndex[n] EXCEPT ![m.from] = Larger(@, m.match)]
        next == [nextIndex[n] EXCEPT ![m.from] = Larger(@, m.match + 1)]
    IN /\ m.type = "AppendReply"
       /\ m.success
       /\ role[n] = "leader"
       /\ m.term = term[n]
       /\ nextIndex' = [nextIndex EXCEPT ![n] = next]
       /\ matchIndex' = [matchIndex EXCEPT ![n] = matched]
       /\ \/ UNCHANGED <<log, snapshot, commitVars>>
          \/ /\ Committable(n, matched) # {}
             /\ SetCommitIndex(n, log[n], Max(Committable(n, matched)), term[n])
       /\ UNCHANGED <<term, role, leadersByTerm, network>>

Rejects(n, m) ==
    LET next == [nextIndex[n] EXCEPT ![m.from] = BackOff(@)]
    IN /\ role[n] = "leader"
       /\ m.term = term[n]
       /\ nextIndex' = [nextIndex EXCEPT ![n] = next]
       /\ Send({Replicate(n, term[n], m.from, log[n], next[m.from])})
       /\ UNCHANGED <<log, snapshot, commitVars, matchIndex>>
       /\ UNCHANGED <<term, role, leadersByTerm>>

LEMMA AppendReplyCases ==
    ASSUME NEW n, NEW m, HandleAppendReply(n, m)
    PROVE  StepDown(n, m) \/ Acknowledges(n, m) \/ Rejects(n, m)
<1> SUFFICES ASSUME ~StepDown(n, m)
             PROVE  Acknowledges(n, m) \/ Rejects(n, m)
  OBVIOUS
<1>1. CASE m.success
  BY <1>1 DEF HandleAppendReply, Acknowledges, electionVars
<1>2. CASE ~m.success
  BY <1>2 DEF HandleAppendReply, Rejects, electionVars
<1> QED  BY <1>1, <1>2

LEMMA AcknowledgesLogs ==
    ASSUME Shape, Shape', NEW lead, NEW full, Logs(lead, full), NEW n \in Nodes,
           NEW m \in network, Acknowledges(n, m)
    PROVE  Logs(lead, full)'
<1> DEFINE matched == [matchIndex[n] EXCEPT ![m.from] = Larger(@, m.match)]
<1>1. UNCHANGED <<term, role, leadersByTerm, network>>
  BY DEF Acknowledges
<1>2. NoNewEntries /\ term'[n] >= term[n]
  BY <1>1, IndexTypes DEF NoNewEntries
<1>3. CASE UNCHANGED <<log, snapshot>>
  BY <1>1, <1>2, <1>3, SilentLogs DEF Apart
<1>4. CASE /\ Committable(n, matched) # {}
           /\ SetCommitIndex(n, log[n], Max(Committable(n, matched)), term[n])
  <2>1. PICK ci : ci = Max(Committable(n, matched))
    OBVIOUS
  <2>2. ci \in Nat /\ ci <= LastIndex(n)
    BY <1>4, <2>1, NewestCommittable
  <2>3. PICK F \in Seq(KnownEntries) : F = full[n] /\ Fits(F, log[n], snapshot[n])
    BY DEF Logs
  <2>4. Len(F) = LastIndex(n) /\ log[n] \in Seq(KnownEntries)
    BY <2>3, FitsIndices, IndexTypes
  <2>5. /\ Fits(F, log'[n], snapshot'[n])
        /\ \A k \in Nodes \ {n} : log'[k] = log[k] /\ snapshot'[k] = snapshot[k]
    BY <1>4, <2>1, <2>2, <2>3, <2>4, SetCommitFits
  <2>6. PICK ms : ms = network' \ network
    OBVIOUS
  <2>7. Explained(lead, ms)' /\ network' \subseteq network \cup ms
    BY <1>2, <2>6 DEF NoNewEntries, Explained
  <2>8. Apart(n) /\ leadersByTerm \subseteq leadersByTerm'
    BY <1>1, <2>5 DEF Apart
  <2> QED  BY <1>1, <1>2, <2>3, <2>5, <2>7, <2>8, QuietLogs
<1> QED  BY <1>3, <1>4 DEF Acknowledges

\* What a leader sends again after a rejection is still its log.
LEMMA RejectsLogs ==
    ASSUME Shape, Shape', Records, NEW lead, NEW full, Logs(lead, full),
           NEW n \in Nodes, NEW m \in network, m.type = "AppendReply", Rejects(n, m)
    PROVE  Logs(lead, full)'
<1>1. /\ m.from \in Nodes
      /\ nextIndex[n] \in [Nodes -> Nat \ {0}]
      /\ term[n] \in Nat
      /\ log[n] \in Seq(KnownEntries)
  BY IndexTypes DEF Shape, ShapedNetwork, ShapedMessage, ShapedLeaders
<1>2. PICK nxt \in Nat \ {0} :
        nxt = [nextIndex[n] EXCEPT ![m.from] = BackOff(@)][m.from]
  BY <1>1 DEF BackOff, Larger
<1>3. PICK t \in Nat : t = term[n]
  BY <1>1
<1>31. PICK sent : sent = Replicate(n, t, m.from, log[n], nxt)
  OBVIOUS
<1>4. PICK W \in Seq(KnownEntries) : W = lead[t]
  BY <1>3 DEF Logs
<1>5. Fits(W, log[n], snapshot[n])
  BY <1>3, <1>4 DEF Logs, Rejects
<1>6. sent.term = t /\ TracedMessage(W, sent)
  BY <1>1, <1>31, <1>5, ReplicateTraced
<1>7. PICK ms : ms = {sent}
  OBVIOUS
<1>8. network' \subseteq network \cup ms
  BY <1>2, <1>3, <1>31, <1>7, SentSubset DEF Rejects
<1>9. Explained(lead, ms)'
  <2>1. Led(t)'
    BY <1>3 DEF Rejects, Records, Led
  <2> QED  BY <1>4, <1>6, <1>7, <2>1 DEF Explained
<1>10. UNCHANGED <<log, snapshot, term, role, leadersByTerm>> /\ term'[n] >= term[n]
  BY <1>1 DEF Rejects
<1> QED  BY <1>8, <1>9, <1>10, UntouchedLogs DEF Apart

LEMMA AppendReplyLogs ==
    ASSUME Shape, Shape', Records, NEW lead, NEW full, Logs(lead, full),
           NEW n \in Nodes, NEW m \in network, HandleAppendReply(n, m)
    PROVE  Logs(lead, full)'
<1>1. m.type = "AppendReply"
  BY DEF HandleAppendReply
<1> QED  BY <1>1, AppendReplyCases, StepDownLogs, AcknowledgesLogs, RejectsLogs

\* A candidate's log is as it was.
LEMMA CandidateLogs ==
    ASSUME Shape, Shape', NEW lead, NEW full, Logs(lead, full), NEW n \in Nodes,
           NEW t \in Nat, t >= term[n], term' = [term EXCEPT ![n] = t],
           role' = [role EXCEPT ![n] = "candidate"],
           UNCHANGED <<leadersByTerm, log, snapshot>>, NEW ms, Send(ms),
           \A m \in ms : m.type = "RequestVote"
    PROVE  Logs(lead, full)'
<1>1. NoNewEntries
  BY SendNoEntries
<1>2. Apart(n) /\ term'[n] = t /\ role'[n] = "candidate"
  BY DEF Apart, Shape, ShapedElections
<1> QED  BY <1>1, <1>2, SilentLogs

LEMMA StartElectionLogs ==
    ASSUME Shape, Shape', Records, Records', ElectionSafety',
           NEW lead, NEW full, Logs(lead, full), NEW n \in Nodes, StartElection(n)
    PROVE  \E lead2 : Logs(lead2, full)'
<1>1. PICK t \in Nat : t = term[n] + 1 /\ t >= term[n]
  <2>1. term[n] \in Nat
    BY IndexTypes
  <2> QED  BY <2>1
<1>2. PICK ms : SeeksTerm(n, t, ms)
  BY <1>1, StartElectionCases
<1>3. CASE Elected(n, t) /\ BecomeLeader(n, t, ms)
  <2>1. PICK lead2 : lead2 = [lead EXCEPT ![t] = full[n]]
    OBVIOUS
  <2>2. \A m \in ms : m.type \notin {"AppendEntries", "InstallSnapshot"}
    BY <1>2 DEF SeeksTerm
  <2> QED  BY <1>1, <1>3, <2>1, <2>2, ElectedLogs
<1>4. CASE /\ term' = [term EXCEPT ![n] = t]
           /\ role' = [role EXCEPT ![n] = "candidate"]
           /\ Send(ms)
           /\ UNCHANGED <<leadersByTerm, log, snapshot>>
  <2>1. \A m \in ms : m.type = "RequestVote"
    BY <1>2 DEF SeeksTerm
  <2> QED  BY <1>1, <1>4, <2>1, CandidateLogs
<1> QED  BY <1>2, <1>3, <1>4 DEF SeeksTerm

LEMMA VoteReplyLogs ==
    ASSUME Shape, Shape', Records, Records', ElectionSafety',
           NEW lead, NEW full, Logs(lead, full), NEW n \in Nodes, NEW m \in network,
           HandleVoteReply(n, m)
    PROVE  \E lead2 : Logs(lead2, full)'
<1>1. CASE StepDown(n, m)
  BY <1>1, StepDownLogs
<1>2. CASE UNCHANGED <<term, role, leadersByTerm, network, log, snapshot>>
  <2>1. term'[n] >= term[n]
    BY <1>2, IndexTypes
  <2> QED  BY <1>2, <2>1, SilentLogs DEF Apart, NoNewEntries
<1>3. CASE Elected(n, term[n]) /\ BecomeLeader(n, term[n], {})
  <2>1. PICK t \in Nat : t = term[n]
    BY IndexTypes
  <2>2. PICK lead2 : lead2 = [lead EXCEPT ![t] = full[n]]
    OBVIOUS
  <2>3. t >= term[n] /\ Elected(n, t) /\ BecomeLeader(n, t, {})
    BY <1>3, <2>1
  <2> QED  BY <2>2, <2>3, ElectedLogs
<1> QED  BY <1>1, <1>2, <1>3, VoteReplyCases

LEMMA AppendLogs ==
    ASSUME Shape, Shape', Records, Records', ElectionSafety',
           NEW lead, NEW full, Logs(lead, full), NEW n \in Nodes,
           \/ \E c \in Clients : ClientCommand(n, c)
           \/ \E V \in Proposals : ChangeConfig(n, V)
    PROVE  \E lead2, full2 : Logs(lead2, full2)'
<1>1. PICK cmd \in KnownCommands, voters \in SUBSET Nodes :
        /\ role[n] = "leader"
        /\ AppendAsLeader(n, cmd, voters)
        /\ UNCHANGED <<term, role, leadersByTerm, snapshot>>
  BY AppendCases
<1>2. PICK t \in Nat : t = term[n]
  BY IndexTypes
<1>3. PICK L : L = Append(full[n], [term |-> t, cmd |-> cmd])
  OBVIOUS
<1>4. PICK lead2 : lead2 = [lead EXCEPT ![t] = L]
  OBVIOUS
<1>5. PICK full2 : full2 = [full EXCEPT ![n] = L]
  OBVIOUS
<1>6. Logs(lead2, full2)'
  BY <1>1, <1>2, <1>3, <1>4, <1>5, AppendedLogs
<1> QED  BY <1>6

-----------------------------------------------------------------------------
(***************************************************************************)
(* The invariant.                                                          *)
(***************************************************************************)
LEMMA InitLogs ==
    ASSUME Init
    PROVE  Records /\ \E lead, full : Logs(lead, full)
<1>1. Records
  BY DEF Init, Records
<1>2. PICK lead, full : /\ lead = [t \in Nat |-> <<>>]
                        /\ full = [n \in Nodes |-> <<>>]
  OBVIOUS
<1>3. <<>> \in Seq(KnownEntries) /\ Len(<<>>) = 0
  BY EmptySeq
<1>4. lead \in [Nat -> Seq(KnownEntries)] /\ full \in [Nodes -> Seq(KnownEntries)]
  BY <1>2, <1>3
<1>5. ASSUME NEW n \in Nodes PROVE Fits(full[n], log[n], snapshot[n])
  BY <1>2, <1>3 DEF Init, Fits, NoSnapshot
<1>6. \A t : Traced(lead, <<>>, t)
  BY <1>3 DEF Traced
<1>7. \A n \in Nodes : role[n] # "leader"
  BY DEF Init
<1>8. Logs(lead, full)
  BY <1>2, <1>4, <1>5, <1>6, <1>7 DEF Init, Logs
<1> QED  BY <1>1, <1>8

LEMMA NextLogs ==
    ASSUME Shape, Shape', Records, Records', ElectionSafety',
           NEW lead, NEW full, Logs(lead, full), [Next]_vars
    PROVE  \E lead2, full2 : Logs(lead2, full2)'
<1>1. CASE UNCHANGED vars
  <2>1. Logs(lead, full)'
    BY <1>1 DEF vars, persistentVars, electionVars, Logs, Fits, Led, TracedMessage, Traced
  <2> QED  BY <2>1
<1>2. ASSUME NEW n \in Nodes, StartElection(n) PROVE \E lead2, full2 : Logs(lead2, full2)'
  BY <1>2, StartElectionLogs
<1>3. ASSUME NEW n \in Nodes, Heartbeat(n) PROVE \E lead2, full2 : Logs(lead2, full2)'
  BY <1>3, HeartbeatLogs
<1>4. ASSUME NEW n \in Nodes, Receive(n) PROVE \E lead2, full2 : Logs(lead2, full2)'
  <2>1. PICK m \in network :
          \/ HandleRequestVote(n, m)
          \/ HandleVoteReply(n, m)
          \/ HandleAppendEntries(n, m)
          \/ HandleAppendReply(n, m)
          \/ HandleInstallSnapshot(n, m)
          \/ HandleReadHeartbeat(n, m)
          \/ HandleReadAck(n, m)
    BY <1>4 DEF Receive
  <2>2. CASE HandleRequestVote(n, m)
    BY <2>2, RequestVoteLogs
  <2>3. CASE HandleVoteReply(n, m)
    BY <2>3, VoteReplyLogs
  <2>4. CASE HandleAppendEntries(n, m)
    BY <2>4, AppendEntriesLogs
  <2>5. CASE HandleAppendReply(n, m)
    BY <2>5, AppendReplyLogs
  <2>6. CASE HandleInstallSnapshot(n, m)
    BY <2>6, InstallSnapshotLogs
  <2>7. CASE HandleReadHeartbeat(n, m)
    BY <2>7, ReadHeartbeatLogs
  <2>8. CASE HandleReadAck(n, m)
    BY <2>8, ReadAckLogs
  <2> QED  BY <2>1, <2>2, <2>3, <2>4, <2>5, <2>6, <2>7, <2>8
<1>5. ASSUME NEW n \in Nodes,
             \/ \E c \in Clients : ClientCommand(n, c)
             \/ \E V \in Proposals : ChangeConfig(n, V)
      PROVE  \E lead2, full2 : Logs(lead2, full2)'
  BY <1>5, AppendLogs
<1>6. ASSUME NEW n \in Nodes,
             \/ \E c \in Clients : RequestRead(n, c)
             \/ Crash(n)
             \/ Resume(n)
      PROVE  \E lead2, full2 : Logs(lead2, full2)'
  <2>1. Logs(lead, full)'
    BY <1>6, IdleLogs
  <2> QED  BY <2>1
<1> QED  BY <1>1, <1>2, <1>3, <1>4, <1>5, <1>6 DEF Next

LEMMA LogsOrdered ==
    ASSUME Shape, EveryLogTraced
    PROVE  TermsOrdered
<1> SUFFICES ASSUME NEW n \in Nodes, NEW i \in Base(n) .. LastIndex(n) - 1
             PROVE  TermAt(n, i) <= TermAt(n, i + 1)
  BY DEF TermsOrdered
<1>1. PICK lead, full : Logs(lead, full)
  BY DEF EveryLogTraced
<1>2. PICK L \in Seq(KnownEntries) : /\ L = full[n]
                                     /\ Fits(L, log[n], snapshot[n])
                                     /\ Traced(lead, L, term[n])
  BY <1>1 DEF Logs
<1>3. Leads(lead)
  BY <1>1 DEF Logs, Leads
<1>4. Base(n) \in Nat /\ LastIndex(n) \in Nat
  BY IndexTypes
<1>5. /\ Len(L) = LastIndex(n)
      /\ \A k \in Base(n) .. LastIndex(n) : TermAt(n, k) = IF k = 0 THEN 0 ELSE L[k].term
  BY <1>2, FitsIndices
<1>6. PICK j \in Nat : j = i + 1
  BY <1>4
<1>7. /\ j \in 1 .. Len(L)
      /\ j \in Base(n) .. LastIndex(n)
      /\ i \in Base(n) .. LastIndex(n)
      /\ i # 0 => i \in 1 .. j
      /\ j # 0
  BY <1>4, <1>5, <1>6
<1>8. L[j].term \in Nat
  BY <1>7, LoggedTypes
<1>9. i # 0 => L[i].term <= L[j].term
  BY <1>2, <1>3, <1>7, TracedOrdered
<1> QED  BY <1>5, <1>6, <1>7, <1>8, <1>9

LEMMA LogsMatch ==
    ASSUME Shape, EveryLogTraced
    PROVE  LogMatching
<1> SUFFICES ASSUME NEW n1 \in Nodes, NEW n2 \in Nodes,
                    NEW i \in Larger(Base(n1), Base(n2)) + 1 ..
                                Smaller(LastIndex(n1), LastIndex(n2)),
                    TermAt(n1, i) = TermAt(n2, i),
                    NEW j \in Larger(Base(n1), Base(n2)) + 1 .. i
             PROVE  EntryAt(n1, j) = EntryAt(n2, j)
  BY DEF LogMatching
<1>1. PICK lead, full : Logs(lead, full)
  BY DEF EveryLogTraced
<1>2. PICK L \in Seq(KnownEntries), M \in Seq(KnownEntries) :
        /\ L = full[n1] /\ Fits(L, log[n1], snapshot[n1]) /\ Traced(lead, L, term[n1])
        /\ M = full[n2] /\ Fits(M, log[n2], snapshot[n2]) /\ Traced(lead, M, term[n2])
  BY <1>1 DEF Logs
<1>3. /\ Base(n1) \in Nat /\ LastIndex(n1) \in Nat
      /\ Base(n2) \in Nat /\ LastIndex(n2) \in Nat
  BY IndexTypes
<1>4. /\ i \in Base(n1) + 1 .. LastIndex(n1) /\ i \in Base(n2) + 1 .. LastIndex(n2)
      /\ j \in Base(n1) + 1 .. LastIndex(n1) /\ j \in Base(n2) + 1 .. LastIndex(n2)
      /\ i \in Base(n1) .. LastIndex(n1) /\ i \in Base(n2) .. LastIndex(n2)
      /\ j \in 1 .. i
      /\ i # 0
  BY <1>3 DEF Larger, Smaller
<1>5. /\ Len(L) = LastIndex(n1)
      /\ EntryAt(n1, j) = L[j]
      /\ TermAt(n1, i) = L[i].term
  BY <1>2, <1>4, FitsIndices
<1>6. /\ Len(M) = LastIndex(n2)
      /\ EntryAt(n2, j) = M[j]
      /\ TermAt(n2, i) = M[i].term
  BY <1>2, <1>4, FitsIndices
<1>7. i \in 1 .. Len(L) /\ i <= Len(M)
  BY <1>3, <1>4, <1>5, <1>6
<1>8. SameUpTo(L, M, i)
  BY <1>2, <1>5, <1>6, <1>7, TermFixesLog
<1> QED  BY <1>4, <1>5, <1>6, <1>8 DEF SameUpTo

\* One leader per term is all that traced logs need.
THEOREM LogsAreTraced == Spec /\ []ElectionSafety => [](Records /\ EveryLogTraced)
<1> DEFINE Inv == Records /\ EveryLogTraced
<1>1. Init => Inv
  BY InitLogs DEF EveryLogTraced
<1>2. Shape /\ Shape' /\ Inv /\ ElectionSafety' /\ [Next]_vars => Inv'
  <2> SUFFICES ASSUME Shape, Shape', Inv, ElectionSafety', [Next]_vars PROVE Inv'
    OBVIOUS
  <2>1. Records'
    BY NextRecords
  <2>2. PICK lead, full : Logs(lead, full)
    BY DEF EveryLogTraced
  <2>3. \E lead2, full2 : Logs(lead2, full2)'
    BY <2>1, <2>2, NextLogs
  <2> QED  BY <2>1, <2>3 DEF EveryLogTraced
<1> QED  BY <1>1, <1>2, ShapeInvariant, PTL DEF Spec

\* Two logs never disagree below an entry whose term they agree on, whatever is
\* lost, repeated or late, whoever crashes, whatever is compacted, installed or
\* truncated, and whatever configurations are changed to, as long as no term has
\* two leaders (_on_append_entries, _on_install_snapshot, _maybe_compact).
THEOREM LogsNeverFork == Spec /\ []ElectionSafety => []LogMatching
<1>1. Shape /\ EveryLogTraced => LogMatching
  BY LogsMatch
<1> QED  BY <1>1, ShapeInvariant, LogsAreTraced, PTL

\* Under the same condition terms never decrease along a log, which is why
\* _advance_commit may stop at the first entry of an earlier term.
THEOREM TermsNeverDecrease == Spec /\ []ElectionSafety => []TermsOrdered
<1>1. Shape /\ EveryLogTraced => TermsOrdered
  BY LogsOrdered
<1> QED  BY <1>1, ShapeInvariant, LogsAreTraced, PTL

\* The condition holds where the configuration is fixed.
THEOREM FixedLogsNeverFork ==
    ASSUME Proposals = {}
    PROVE  Spec => [](LogMatching /\ TermsOrdered)
<1>1. Spec => []ElectionSafety
  BY OneLeaderPerTerm
<1> QED  BY <1>1, LogsNeverFork, TermsNeverDecrease, PTL
=============================================================================

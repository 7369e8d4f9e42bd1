---------------------------- MODULE RaftLiveness ----------------------------
(***************************************************************************)
(* What a stable leader of RaftNode must eventually do, under the fairness *)
(* that sim.py's scheduler and the timers give: an armed timer fires, a    *)
(* client comes back, and what is repeated until it gets through arrives.  *)
(***************************************************************************)
EXTENDS RaftSafety

CONSTANT MaxIndex       \* BOUND: the last log index a behaviour reaches

\* Server n takes in, by handler, a message of a server of S that is Wanted.
Takes(n, S, Handler(_, _), Wanted(_)) ==
    /\ alive[n]
    /\ \E m \in network :
         /\ m.to = n
         /\ m.from \in S
         /\ term[n] - m.term <= MaxDelay
         /\ Handler(n, m)
         /\ Wanted(m)

TakesBallot(n) ==
    \/ Takes(n, Nodes, HandleRequestVote, LAMBDA m : TRUE)
    \/ Takes(n, Nodes, HandleVoteReply, LAMBDA m : TRUE)

\* Entries up to index i or more, with a commit index of at least c.
TakesEntries(n, i, c) ==
    Takes(n, Nodes, HandleAppendEntries,
          LAMBDA m : m.prevIndex + Len(m.entries) >= i /\ m.commit >= c)

TakesSnapshot(n) == Takes(n, Nodes, HandleInstallSnapshot, LAMBDA m : TRUE)

TakesRejection(n, p) == Takes(n, {p}, HandleAppendReply, LAMBDA m : ~m.success)

\* Acknowledgements that p stores index i or more.
TakesAck(n, p, i) ==
    Takes(n, {p}, HandleAppendReply, LAMBDA m : m.success /\ m.match >= i)

Fairness ==
    \A n \in Nodes :
      /\ WF_vars(Heartbeat(n))
      /\ WF_vars(Resume(n))
      /\ WF_vars(TakesBallot(n))
      /\ WF_vars(TakesSnapshot(n))
      /\ \A c \in Clients : WF_vars(ClientCommand(n, c))
      /\ \A i \in 1 .. MaxIndex : \A c \in 0 .. i : WF_vars(TakesEntries(n, i, c))
      /\ \A p \in Nodes \ {n} :
           /\ WF_vars(TakesRejection(n, p))
           /\ \A i \in 1 .. MaxIndex : WF_vars(TakesAck(n, p, i))

FairSpec == Spec /\ Fairness

-----------------------------------------------------------------------------
\* A leader commits what it appended in its own term, unless it is deposed:
\* lost entries are repeated by heartbeats, rejections move the next index back
\* to where the logs agree, and a crashed voter catches up when it restarts
\* (_broadcast_heartbeats, _on_append_reply, _advance_commit).
CommitsOwnTerm ==
    \A n \in Nodes :
      []<>(\/ role[n] # "leader"
           \/ TermAt(n, LastIndex(n)) # term[n]
           \/ commitIndex[n] = LastIndex(n))

\* The servers n and p hear each other in term t.
InTouch(n, p, t) == {<<n, p, t>>, <<p, n, t>>} \subseteq Links

\* Every voter a leader is in touch with applies what the leader committed,
\* unless the leader is deposed, even when the entries it misses are compacted
\* (_on_append_reply moves the next index back; _send_append_entries falls back
\* to _send_install_snapshot).
VotersCatchUp ==
    \A n \in Nodes :
      []<>(\/ role[n] # "leader"
           \/ \A v \in config[n].voters :
                InTouch(n, v, term[n]) => commitIndex[v] >= commitIndex[n])

\* Once a leader is there to stay, every request a client keeps submitting is
\* applied (README.md: "submitted commands must commit within a step budget").
RequestsCommit ==
    \A n \in Nodes :
      <>[](role[n] = "leader") => <>(\A c \in Clients : nextReq[c] > MaxRequests)
=============================================================================

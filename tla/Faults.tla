------------------------------- MODULE Faults -------------------------------
(***************************************************************************)
(* The faults of a run: the simulator's event heap and the network of      *)
(* deterministic_raft/sim.py, the schedules of nemesis.py, and the code of *)
(* cluster.py that injects a fault and ends it again: the random driver,   *)
(* the schedule, and the events each leaves for later.                     *)
(*                                                                         *)
(* Servers appear as what faults act on: who is up, who is believed to     *)
(* lead, and who sends to whom.  Either may be anything at any time.       *)
(***************************************************************************)
EXTENDS Integers, Sequences, FiniteSets

CONSTANTS
    N,                  \* servers are 0 .. N - 1
    Profiles,           \* fault profiles tried: "none", "light", "chaos"
    Schedules,          \* nemesis schedules tried: sequences of patterns
    Masks,              \* masks tried: sets of ordinals to suppress
    Interval,           \* FAULT_INTERVAL
    ResumeDelays,       \* delays after which the random driver resumes a victim
    Delays,             \* delays of messages
    MaxCycles,          \* BOUND: cycles of a flapping link
    MaxTime,            \* BOUND: a run with the random driver ends then
    MaxSends            \* BOUND: messages sent

Nodes == 0 .. N - 1
Links == {l \in SUBSET Nodes : Cardinality(l) = 2}
Kinds == {"partition_halves", "isolate_leader", "flapping_link", "lossy_link",
          "crash_node"}

\* Patterns of nemesis.py; fields that a kind does not have are 0, {} and 1.
Patterns ==
    {op \in [kind : Kinds, node : Nodes, link : Links \cup {{}}, at : Nat,
             duration : Nat \ {0}, cycles : 1 .. MaxCycles] :
       op.kind \in {"flapping_link", "lossy_link"} => op.link \in Links}

ASSUME FaultsAssumption ==
    /\ N \in Nat \ {0}
    /\ Profiles \subseteq {"none", "light", "chaos"}
    /\ Schedules \subseteq Seq(Patterns)
    /\ Masks \subseteq SUBSET Nat
    /\ {Interval} \cup ResumeDelays \subseteq Nat \ {0}
    /\ Delays \subseteq Nat
    /\ {MaxTime, MaxSends} \subseteq Nat
    /\ MaxCycles \in Nat \ {0}

VARIABLES
    profile,
    schedule,
    suppressed,     \* ordinals the shrinker suppresses
    now,
    seq,            \* of the next event
    heap,           \* events [at, seq, kind, node, link, duration]
    side,           \* servers of the second group; {} when not partitioned
    downLinks,
    lossyLinks,
    crashed,
    ordinal,        \* of the next fault
    stats           \* [sent, delivered, dropped, duplicated]

settings == <<profile, schedule, suppressed>>
network == <<side, downLinks, lossyLinks, crashed>>
vars == <<settings, now, seq, heap, network, ordinal, stats>>

-----------------------------------------------------------------------------
\* schedule at time t, after delay: the k-th event that a step schedules.
Event(t, delay, k, kind, node, link, duration) ==
    [at |-> t + delay, seq |-> seq + k, kind |-> kind, node |-> node,
     link |-> link, duration |-> duration]

\* DEFECT: events run in the order in which they were scheduled.
IsNextFifo(e) == \A f \in heap : e.seq <= f.seq

\* step pops the earliest event; of those due at one time, the first scheduled.
IsNext(e) ==
    \A f \in heap : e.at < f.at \/ (e.at = f.at /\ e.seq <= f.seq)

\* The event e is popped and its handler schedules the events in new.
Pop(e, new) ==
    /\ now' = e.at
    /\ heap' = (heap \ {e}) \cup new
    /\ seq' = seq + Cardinality(new)

\* injections: a flapping link goes down once in every cycle.  Those due at one
\* time keep the order of declaration, so that is how they are numbered.
Cycles(op) == 1 .. (IF op.kind = "flapping_link" THEN op.cycles ELSE 1)

Injected(op, i, c) ==
    [at |-> op.at + 2 * op.duration * (c - 1), seq |-> MaxCycles * (i - 1) + c,
     kind |-> op.kind, node |-> op.node, link |-> op.link, duration |-> op.duration]

Injections(list) ==
    UNION {{Injected(list[i], i, c) : c \in Cycles(list[i])} : i \in DOMAIN list}

Partitioned == side # {}
Reachable(a, b) == (a \in side <=> b \in side) /\ {a, b} \notin downLinks

\* _fire_fault.
Fires == ordinal \notin suppressed

-----------------------------------------------------------------------------
(***************************************************************************)
(* The nemesis: _nemesis_fire, one action per pattern, and the recoveries. *)
(***************************************************************************)
\* DEFECT: a server that is down is crashed again.
MayActAgain(e) ==
    \/ e.kind = "partition_halves" /\ N > 1
    \/ e.kind = "isolate_leader" /\ N > 1 /\ Nodes \ crashed # {}
    \/ e.kind \in {"flapping_link", "lossy_link", "crash_node"}

\* There is something to do: two sides to part, a leader that is up, a server to
\* crash.  Whether a server that is up believes it leads is left open.
MayAct(e) ==
    \/ e.kind = "partition_halves" /\ N > 1
    \/ e.kind = "isolate_leader" /\ N > 1 /\ Nodes \ crashed # {}
    \/ e.kind \in {"flapping_link", "lossy_link"}
    \/ e.kind = "crash_node" /\ e.node \notin crashed

\* An injection with nothing to do takes no ordinal.
Skip(e) ==
    /\ e.kind \in Kinds
    /\ ~MayAct(e) \/ e.kind = "isolate_leader"
    /\ Pop(e, {})
    /\ UNCHANGED <<settings, network, ordinal, stats>>

\* One that is suppressed takes its ordinal and does nothing else.
Suppress(e) ==
    /\ MayAct(e)
    /\ ~Fires
    /\ ordinal' = ordinal + 1
    /\ Pop(e, {})
    /\ UNCHANGED <<settings, network, stats>>

\* DEFECT: the recovery of a lossy link is not scheduled.
InflictForGood(e, recovery) ==
    /\ MayAct(e)
    /\ Fires
    /\ ordinal' = ordinal + 1
    /\ Pop(e, IF recovery = "lossyheal" THEN {}
              ELSE {Event(e.at, e.duration, 0, recovery, e.node, e.link, 1)})
    /\ UNCHANGED <<settings, stats>>

\* Any other acts, and only then leaves its recovery in the heap.
Inflict(e, recovery) ==
    /\ MayAct(e)
    /\ Fires
    /\ ordinal' = ordinal + 1
    /\ Pop(e, {Event(e.at, e.duration, 0, recovery, e.node, e.link, 1)})
    /\ UNCHANGED <<settings, stats>>

\* DEFECT: the upper half reaches one past the last server.
PartitionHalvesPast(e) ==
    /\ e.kind = "partition_halves"
    /\ Inflict(e, "heal")
    /\ side' = (N + 1) \div 2 .. N
    /\ UNCHANGED <<downLinks, lossyLinks, crashed>>

\* The lower half, rounded up, against the rest.
PartitionHalves(e) ==
    /\ e.kind = "partition_halves"
    /\ Inflict(e, "heal")
    /\ side' = (N + 1) \div 2 .. N - 1
    /\ UNCHANGED <<downLinks, lossyLinks, crashed>>

\* The leader against the rest.
IsolateLeader(e) ==
    /\ e.kind = "isolate_leader"
    /\ Inflict(e, "heal")
    /\ \E leader \in Nodes \ crashed : side' = Nodes \ {leader}
    /\ UNCHANGED <<downLinks, lossyLinks, crashed>>

FlappingLink(e) ==
    /\ e.kind = "flapping_link"
    /\ Inflict(e, "linkup")
    /\ downLinks' = downLinks \cup {e.link}
    /\ UNCHANGED <<side, lossyLinks, crashed>>

LossyLink(e) ==
    /\ e.kind = "lossy_link"
    /\ Inflict(e, "lossyheal")
    /\ lossyLinks' = lossyLinks \cup {e.link}
    /\ UNCHANGED <<side, downLinks, crashed>>

CrashNode(e) ==
    /\ e.kind = "crash_node"
    /\ Inflict(e, "resume")
    /\ crashed' = crashed \cup {e.node}
    /\ UNCHANGED <<side, downLinks, lossyLinks>>

\* heal_partition, link_up, clear_lossy_link and _maybe_resume undo what there is
\* to undo.
Recover(e) ==
    /\ e.kind \in {"heal", "linkup", "lossyheal", "resume"}
    /\ Pop(e, {})
    /\ side' = IF e.kind = "heal" THEN {} ELSE side
    /\ downLinks' = IF e.kind = "linkup" THEN downLinks \ {e.link} ELSE downLinks
    /\ lossyLinks' = IF e.kind = "lossyheal" THEN lossyLinks \ {e.link} ELSE lossyLinks
    /\ crashed' = IF e.kind = "resume" THEN crashed \ {e.node} ELSE crashed
    /\ UNCHANGED <<settings, ordinal, stats>>

-----------------------------------------------------------------------------
(***************************************************************************)
(* The random driver: _fault_tick.  Every draw may come out either way.    *)
(***************************************************************************)
\* What becomes of the partition: nothing, a heal, or a split that may be
\* suppressed.  The two groups are alike, so server 0 is in the first.
PartitionDraws ==
    {[side |-> side, ordinal |-> ordinal]}
    \cup (IF Partitioned THEN {[side |-> {}, ordinal |-> ordinal]}
          ELSE {[side |-> IF Fires THEN part ELSE {}, ordinal |-> ordinal + 1] :
                  part \in SUBSET (Nodes \ {0}) \ {{}}})

CrashLimit == (N - 1) \div 2

\* DEFECT: the limit on crashed servers may be passed by one.
CandidatesOverLimit == IF Cardinality(crashed) <= CrashLimit THEN Nodes \ crashed ELSE {}

Candidates == IF Cardinality(crashed) < CrashLimit THEN Nodes \ crashed ELSE {}

\* Whom the tick at time t crashes after o ordinals are taken, and when it is
\* to resume: no one, or one candidate.
CrashDraws(t, o) ==
    {[victims |-> {}, ordinal |-> o, resume |-> {}]}
    \cup {IF o \in suppressed THEN [victims |-> {}, ordinal |-> o + 1, resume |-> {}]
          ELSE [victims |-> {n}, ordinal |-> o + 1,
                resume |-> {Event(t, d, 0, "resume", n, {}, 1)}] :
            n \in Candidates, d \in ResumeDelays}

\* The tick comes again and again, until the run ends.
Tick(e) ==
    /\ e.kind = "tick"
    /\ e.at <= MaxTime
    /\ \E p \in PartitionDraws : \E c \in CrashDraws(e.at, p.ordinal) :
         /\ side' = p.side
         /\ crashed' = crashed \cup c.victims
         /\ ordinal' = c.ordinal
         /\ Pop(e, c.resume \cup {Event(e.at, Interval, Cardinality(c.resume),
                                       "tick", 0, {}, 1)})
    /\ UNCHANGED <<settings, downLinks, lossyLinks, stats>>

-----------------------------------------------------------------------------
(***************************************************************************)
(* Messages: send and _delivery.                                           *)
(***************************************************************************)
Count(names) == stats' = [name \in DOMAIN stats |->
                            stats[name] + (IF name \in names THEN 1 ELSE 0)]

\* A server sends: the message is dropped, or on its way once or twice.
Send(a, b) ==
    /\ stats.sent < MaxSends
    /\ \/ /\ \/ a \in crashed
             \/ {a, b} \in lossyLinks
             \/ profile # "none"
          /\ Count({"sent", "dropped"})
          /\ UNCHANGED <<seq, heap>>
       \/ /\ a \notin crashed
          /\ \E d \in Delays : heap' = heap \cup {Event(now, d, 0, "delivery", b, {a, b}, 1)}
          /\ seq' = seq + 1
          /\ Count({"sent"})
       \/ /\ a \notin crashed
          /\ profile # "none"
          /\ \E d1, d2 \in Delays :
               heap' = heap \cup {Event(now, d1, 0, "delivery", b, {a, b}, 1),
                                  Event(now, d2, 1, "delivery", b, {a, b}, 1)}
          /\ seq' = seq + 2
          /\ Count({"sent", "duplicated"})
    /\ UNCHANGED <<settings, now, network, ordinal>>

\* DEFECT: a message for a server that is down vanishes.
DeliverUncounted(e) ==
    /\ e.kind = "delivery"
    /\ \E a, b \in e.link :
         /\ a # b /\ b = e.node
         /\ IF b \in crashed THEN UNCHANGED stats
            ELSE IF Reachable(a, b) THEN Count({"delivered"}) ELSE Count({"dropped"})
    /\ Pop(e, {})
    /\ UNCHANGED <<settings, network, ordinal>>

\* Links, partitions and the receiver are looked at when the message arrives.
Deliver(e) ==
    /\ e.kind = "delivery"
    /\ \E a, b \in e.link :
         /\ a # b /\ b = e.node
         /\ IF b \notin crashed /\ Reachable(a, b)
            THEN Count({"delivered"}) ELSE Count({"dropped"})
    /\ Pop(e, {})
    /\ UNCHANGED <<settings, network, ordinal>>

-----------------------------------------------------------------------------
Init ==
    /\ profile \in Profiles
    /\ schedule \in Schedules
    /\ suppressed \in Masks
    /\ now = 0
    /\ seq = 1 + MaxCycles * Len(schedule)
    /\ heap = (IF profile = "chaos" THEN {[at |-> Interval, seq |-> 0, kind |-> "tick",
                                          node |-> 0, link |-> {}, duration |-> 1]}
               ELSE {})
              \cup Injections(schedule)
    /\ side = {}
    /\ downLinks = {}
    /\ lossyLinks = {}
    /\ crashed = {}
    /\ ordinal = 0
    /\ stats = [sent |-> 0, delivered |-> 0, dropped |-> 0, duplicated |-> 0]

\* One simulator step.
Step ==
    \E e \in heap :
      /\ IsNext(e)
      /\ \/ Skip(e)
         \/ Suppress(e)
         \/ PartitionHalves(e)
         \/ IsolateLeader(e)
         \/ FlappingLink(e)
         \/ LossyLink(e)
         \/ CrashNode(e)
         \/ Recover(e)
         \/ Tick(e)
         \/ Deliver(e)

Next ==
    \/ Step
    \/ \E a, b \in Nodes : a # b /\ Send(a, b)

Spec == Init /\ [][Next]_vars /\ WF_vars(Step)

-----------------------------------------------------------------------------
Events == [at : Nat, seq : Nat,
           kind : Kinds \cup {"heal", "linkup", "lossyheal", "resume", "tick", "delivery"},
           node : Nodes, link : Links \cup {{}}, duration : Nat]

\* Every variable has its type.
TypeOK ==
    /\ profile \in Profiles /\ schedule \in Schedules /\ suppressed \in Masks
    /\ {now, seq, ordinal} \subseteq Nat
    /\ heap \subseteq Events
    /\ side \in SUBSET Nodes /\ crashed \in SUBSET Nodes
    /\ downLinks \in SUBSET Links /\ lossyLinks \in SUBSET Links
    /\ stats \in [{"sent", "delivered", "dropped", "duplicated"} -> Nat]

\* No event is due in the past, and no two are confused: an earlier one is never
\* left behind (Simulator.step).
HeapInOrder ==
    /\ \A e \in heap : e.at >= now /\ e.seq < seq
    /\ \A e, f \in heap : e.seq = f.seq => e = f

Pending(kind) == {e \in heap : e.kind = kind}

\* No fault stands without an event that will end it: a link that is down or lossy
\* has its recovery waiting, a partition a heal or the driver's next tick, and a
\* server that is down exactly one resume, whoever crashed it (_nemesis_fire's
\* docstring: "Every recovery ... is scheduled only when its injection actually
\* fired").
RecoveryPending ==
    /\ \A l \in downLinks : \E e \in Pending("linkup") : e.link = l
    /\ \A l \in lossyLinks : \E e \in Pending("lossyheal") : e.link = l
    /\ Partitioned => Pending("heal") # {} \/ Pending("tick") # {}
    /\ \A n \in crashed : \E e \in Pending("resume") : e.node = n
    /\ \A e, f \in Pending("resume") : e.node = f.node => e = f
    /\ \A e \in Pending("resume") : e.node \in crashed

\* The random driver alone never takes down a majority (cluster.py: "keep a
\* majority alive under chaos"); a schedule may.
MajorityAlive ==
    (\A i \in DOMAIN schedule : schedule[i].kind # "crash_node")
      => 2 * Cardinality(crashed) < N

\* Every message is accounted for: delivered, dropped or on its way (stats).
MessagesCounted ==
    stats.sent + stats.duplicated =
      stats.delivered + stats.dropped + Cardinality(Pending("delivery"))

\* The faults of a schedule end, without the random driver (each pattern's
\* docstring: "heal duration ms later", "restart it duration ms later").
CalmInTheEnd ==
    profile # "chaos" => <>[](network = <<{}, {}, {}, {}>>)

\* An injection that fired is in force for its whole duration, also when several
\* overlay (nemesis.py:22).
WindowsHeld ==
    /\ Pending("heal") # {} => Partitioned
    /\ \A e \in Pending("linkup") : e.link \in downLinks
    /\ \A e \in Pending("lossyheal") : e.link \in lossyLinks
    /\ \A e \in Pending("resume") : e.node \in crashed
=============================================================================

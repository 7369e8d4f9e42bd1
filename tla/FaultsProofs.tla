---------------------------- MODULE FaultsProofs ----------------------------
(***************************************************************************)
(* For every number of servers, every schedule and every mask: events are  *)
(* never late, no fault stands without its recovery, the random driver     *)
(* never takes down a majority, and every message is accounted for.        *)
(***************************************************************************)
EXTENDS Faults, FiniteSetTheorems, TLAPS

EventOK(e) == e.at \in Nat /\ e.seq \in Nat /\ e.duration \in Nat

HeapOK ==
    /\ now \in Nat /\ seq \in Nat
    /\ \A e \in heap : EventOK(e)
    /\ HeapInOrder

CrashesLimited ==
    (\A i \in DOMAIN schedule : schedule[i].kind # "crash_node")
      => /\ \A e \in heap : e.kind # "crash_node"
         /\ IsFiniteSet(crashed)
         /\ Cardinality(crashed) <= CrashLimit

\* The new events may be scheduled once e is popped: they are typed, not late, and
\* numbered from seq on.
Schedulable(e, new) ==
    /\ Cardinality(new) \in Nat
    /\ \A f \in new : /\ EventOK(f) /\ f.at >= e.at
                      /\ seq <= f.seq /\ f.seq < seq + Cardinality(new)
    /\ \A f, g \in new : f.seq = g.seq => f = g

-----------------------------------------------------------------------------
LEMMA EventFields ==
    ASSUME NEW t, NEW d, NEW k, NEW kind, NEW n, NEW l, NEW r
    PROVE  LET e == Event(t, d, k, kind, n, l, r)
           IN /\ e.at = t + d /\ e.seq = seq + k /\ e.kind = kind /\ e.node = n
              /\ e.link = l /\ e.duration = r
  BY DEF Event

LEMMA NoneSchedulable == ASSUME NEW e PROVE Schedulable(e, {})
  BY FS_EmptySet DEF Schedulable

LEMMA OneSchedulable ==
    ASSUME HeapOK, NEW e \in heap, NEW d \in Nat, NEW kind, NEW n, NEW l
    PROVE  Schedulable(e, {Event(e.at, d, 0, kind, n, l, 1)})
<1> DEFINE f == Event(e.at, d, 0, kind, n, l, 1)
<1>1. f.at = e.at + d /\ f.seq = seq + 0 /\ f.duration = 1
  BY EventFields
<1> HIDE DEF f
<1>2. Cardinality({f}) = 1
  BY FS_Singleton
<1>3. e.at \in Nat /\ seq \in Nat
  BY DEF HeapOK, EventOK
<1>4. EventOK(f) /\ f.at >= e.at /\ seq <= f.seq /\ f.seq < seq + 1
  BY <1>1, <1>3 DEF EventOK
<1>5. Schedulable(e, {f})
  BY <1>2, <1>4 DEF Schedulable
<1> QED
  BY <1>5 DEF f

\* A step that pops the earliest event and schedules schedulable ones keeps the
\* heap in order.
LEMMA PopKeepsOrder ==
    ASSUME HeapOK, NEW e \in heap, IsNext(e), NEW new, Pop(e, new), Schedulable(e, new)
    PROVE  HeapOK'
<1>1. now' = e.at /\ heap' = (heap \ {e}) \cup new /\ seq' = seq + Cardinality(new)
  BY DEF Pop
<1>2. now' \in Nat /\ seq' \in Nat /\ seq \in Nat /\ seq <= seq'
  BY <1>1 DEF HeapOK, EventOK, Schedulable
<1>3. ASSUME NEW f \in heap' PROVE EventOK(f) /\ f.at >= now' /\ f.seq < seq'
  <2>1. CASE f \in new
    BY <1>1, <2>1 DEF Schedulable
  <2>2. CASE f \in heap
    <3>1. EventOK(f) /\ f.seq < seq /\ EventOK(e)
      BY <2>2 DEF HeapOK, HeapInOrder
    <3>2. f.at >= e.at
      BY <2>2, <3>1 DEF IsNext, EventOK
    <3> QED
      BY <1>1, <1>2, <3>1, <3>2 DEF EventOK
  <2> QED
    BY <1>1, <2>1, <2>2
<1>4. ASSUME NEW f \in heap', NEW g \in heap', f.seq = g.seq PROVE f = g
  <2>1. \A h \in new : EventOK(h) /\ seq <= h.seq
    BY DEF Schedulable
  <2>2. \A h \in heap : EventOK(h) /\ h.seq < seq
    BY DEF HeapOK, HeapInOrder
  <2>3. CASE f \in new /\ g \in new
    BY <1>4, <2>3 DEF Schedulable
  <2>4. CASE f \in heap /\ g \in heap
    BY <1>4, <2>4 DEF HeapOK, HeapInOrder
  <2>5. ~(f \in new /\ g \in heap) /\ ~(f \in heap /\ g \in new)
    BY <1>2, <1>4, <2>1, <2>2 DEF EventOK
  <2> QED
    BY <1>1, <2>3, <2>4, <2>5
<1>5. \A f \in heap' : EventOK(f)'
  BY <1>3 DEF EventOK
<1> QED
  BY <1>2, <1>3, <1>4, <1>5 DEF HeapOK, HeapInOrder

-----------------------------------------------------------------------------
\* Numbers of injections are told apart and stay below the next one.
LEMMA Numbering ==
    ASSUME NEW M \in Nat \ {0}, NEW L \in Nat, NEW i \in 1 .. L, NEW c \in 1 .. M
    PROVE  /\ M * (i - 1) + c \in Nat
           /\ M * (i - 1) + c < 1 + M * L
           /\ 0 < M * (i - 1) + c
           /\ \A j \in 1 .. L, d \in 1 .. M :
                M * (i - 1) + c = M * (j - 1) + d => i = j /\ c = d
<1>1. \A a, b \in Nat : a < b => M * a + M <= M * b
  <2>1. SUFFICES ASSUME NEW a \in Nat, NEW b \in Nat, a < b PROVE M * a + M <= M * b
    OBVIOUS
  <2>2. PICK k \in Nat : b = a + 1 + k
    <3>1. b - a - 1 \in Nat /\ b = a + 1 + (b - a - 1)
      BY <2>1
    <3> QED
      BY <3>1
  <2>3. M * b = M * a + M + M * k /\ M * k \in Nat
    BY <2>2
  <2> QED
    BY <2>3
<1>2. i - 1 \in Nat /\ i - 1 < L /\ M * (i - 1) \in Nat /\ M * L \in Nat
  OBVIOUS
<1>3. M * (i - 1) + M <= M * L
  BY <1>1, <1>2
<1>4. ASSUME NEW j \in 1 .. L, NEW d \in 1 .. M, M * (i - 1) + c = M * (j - 1) + d
      PROVE  i = j /\ c = d
  <2>1. j - 1 \in Nat /\ M * (j - 1) \in Nat
    OBVIOUS
  <2>2. CASE i < j
    <3>1. M * (i - 1) + M <= M * (j - 1)
      BY <1>1, <1>2, <2>1, <2>2
    <3> QED
      BY <1>2, <1>4, <2>1, <3>1
  <2>3. CASE j < i
    <3>1. M * (j - 1) + M <= M * (i - 1)
      BY <1>1, <1>2, <2>1, <2>3
    <3> QED
      BY <1>2, <1>4, <2>1, <3>1
  <2>4. CASE i = j
    BY <1>2, <1>4, <2>4
  <2> QED
    BY <2>2, <2>3, <2>4
<1> QED
  BY <1>2, <1>3, <1>4

LEMMA InjectionFields ==
    ASSUME NEW op, NEW i, NEW c
    PROVE  /\ Injected(op, i, c).at = op.at + 2 * op.duration * (c - 1)
           /\ Injected(op, i, c).seq = MaxCycles * (i - 1) + c
           /\ Injected(op, i, c).kind = op.kind
           /\ Injected(op, i, c).duration = op.duration
  BY DEF Injected

\* The heap a run starts with.
LEMMA InitHeap ==
    Init => /\ HeapOK
            /\ \A e \in heap :
                 \/ e.kind = "tick"
                 \/ e.kind \in Kinds /\ \E i \in DOMAIN schedule : schedule[i].kind = e.kind
<1> SUFFICES ASSUME Init
             PROVE  /\ HeapOK
                    /\ \A e \in heap :
                         \/ e.kind = "tick"
                         \/ /\ e.kind \in Kinds
                            /\ \E i \in DOMAIN schedule : schedule[i].kind = e.kind
  OBVIOUS
<1> DEFINE L == Len(schedule)
           tick == [at |-> Interval, seq |-> 0, kind |-> "tick", node |-> 0,
                    link |-> {}, duration |-> 1]
<1>1. /\ schedule \in Seq(Patterns) /\ L \in Nat /\ MaxCycles \in Nat \ {0}
      /\ DOMAIN schedule = 1 .. L /\ Interval \in Nat
  BY FaultsAssumption DEF Init
<1>2. /\ now = 0 /\ seq = 1 + MaxCycles * L
      /\ heap \subseteq {tick} \cup Injections(schedule)
  BY DEF Init
<1>3. tick.at = Interval /\ tick.seq = 0 /\ tick.kind = "tick" /\ tick.duration = 1
  OBVIOUS
<1> HIDE DEF L, tick
<1>4. ASSUME NEW e \in Injections(schedule)
      PROVE  \E i \in 1 .. L, c \in 1 .. MaxCycles : e = Injected(schedule[i], i, c)
  <2>1. PICK i \in 1 .. L : e \in {Injected(schedule[i], i, c) : c \in Cycles(schedule[i])}
    BY <1>1 DEF Injections
  <2>2. PICK c \in Cycles(schedule[i]) : e = Injected(schedule[i], i, c)
    BY <2>1
  <2>3. schedule[i] \in Patterns
    BY <1>1
  <2>4. schedule[i].cycles \in 1 .. MaxCycles
    BY <2>3 DEF Patterns
  <2>5. c \in 1 .. MaxCycles
    BY <1>1, <2>4 DEF Cycles
  <2> QED
    BY <2>2, <2>5
<1>5. ASSUME NEW i \in 1 .. L, NEW c \in 1 .. MaxCycles
      PROVE  LET e == Injected(schedule[i], i, c)
             IN /\ EventOK(e) /\ e.at >= 0 /\ e.seq < seq /\ 0 < e.seq
                /\ e.kind \in Kinds /\ e.kind = schedule[i].kind
  <2> DEFINE e == Injected(schedule[i], i, c)
  <2>1. schedule[i] \in Patterns
    BY <1>1
  <2>2. /\ schedule[i].at \in Nat /\ schedule[i].duration \in Nat \ {0}
        /\ schedule[i].kind \in Kinds
    BY <2>1 DEF Patterns
  <2>3. /\ e.at = schedule[i].at + 2 * schedule[i].duration * (c - 1)
        /\ e.seq = MaxCycles * (i - 1) + c /\ e.kind = schedule[i].kind
        /\ e.duration = schedule[i].duration
    BY InjectionFields
  <2> HIDE DEF e
  <2>4. c - 1 \in Nat /\ 2 * schedule[i].duration \in Nat
    BY <1>1, <2>2
  <2>5. 2 * schedule[i].duration * (c - 1) \in Nat
    BY <2>4
  <2>6. e.at \in Nat
    BY <2>2, <2>3, <2>5
  <2>7. e.seq \in Nat /\ e.seq < 1 + MaxCycles * L /\ 0 < e.seq
    BY <1>1, <2>3, Numbering
  <2> QED
    BY <1>2, <2>2, <2>3, <2>6, <2>7 DEF EventOK, e
<1>6. ASSUME NEW e \in heap PROVE EventOK(e) /\ e.at >= 0 /\ e.seq < seq
  <2>1. CASE e = tick
    <3>1. MaxCycles * L \in Nat
      BY <1>1
    <3>2. 0 < seq
      BY <1>2, <3>1
    <3> QED
      BY <1>1, <1>3, <2>1, <3>2 DEF EventOK
  <2>2. CASE e \in Injections(schedule)
    <3>1. PICK i \in 1 .. L, c \in 1 .. MaxCycles : e = Injected(schedule[i], i, c)
      BY <1>4, <2>2
    <3> QED
      BY <1>5, <3>1
  <2> QED
    BY <1>2, <2>1, <2>2
<1>7. ASSUME NEW e \in heap, NEW f \in heap, e.seq = f.seq PROVE e = f
  <2>1. CASE e = tick \/ f = tick
    BY <1>2, <1>3, <1>4, <1>5, <1>7, <2>1 DEF EventOK
  <2>2. CASE e # tick /\ f # tick
    <3>1. PICK i \in 1 .. L, c \in 1 .. MaxCycles : e = Injected(schedule[i], i, c)
      BY <1>2, <1>4, <2>2
    <3>2. PICK j \in 1 .. L, d \in 1 .. MaxCycles : f = Injected(schedule[j], j, d)
      BY <1>2, <1>4, <2>2
    <3>3. MaxCycles * (i - 1) + c = MaxCycles * (j - 1) + d
      BY <1>7, <3>1, <3>2, InjectionFields
    <3>4. i = j /\ c = d
      BY <1>1, <3>3, Numbering
    <3> QED
      BY <3>1, <3>2, <3>4
  <2> QED
    BY <2>1, <2>2
<1>8. seq \in Nat
  BY <1>1, <1>2
<1>9. ASSUME NEW e \in heap
      PROVE  \/ e.kind = "tick"
             \/ e.kind \in Kinds /\ \E i \in DOMAIN schedule : schedule[i].kind = e.kind
  BY <1>1, <1>2, <1>3, <1>4, <1>5
<1> QED
  BY <1>2, <1>6, <1>7, <1>8, <1>9 DEF HeapOK, HeapInOrder

-----------------------------------------------------------------------------
\* What a step has to do for every fault to keep its recovery: a fault that stands
\* stood before and e does not end it, or a new event will; and only servers that
\* go down now get a new resume.
Mends(e, new) ==
    /\ \A l \in downLinks' :
         \/ l \in downLinks /\ ~(e.kind = "linkup" /\ e.link = l)
         \/ \E f \in new : f.kind = "linkup" /\ f.link = l
    /\ \A l \in lossyLinks' :
         \/ l \in lossyLinks /\ ~(e.kind = "lossyheal" /\ e.link = l)
         \/ \E f \in new : f.kind = "lossyheal" /\ f.link = l
    /\ side' # {} =>
         \/ side # {} /\ e.kind \notin {"heal", "tick"}
         \/ \E f \in new : f.kind \in {"heal", "tick"}
    /\ \A n \in crashed' :
         \/ n \in crashed /\ ~(e.kind = "resume" /\ e.node = n)
         \/ \E f \in new : f.kind = "resume" /\ f.node = n
    /\ \A f \in new : f.kind = "resume" => f.node \in crashed' \ crashed
    /\ \A f, g \in new : f.kind = "resume" /\ g.kind = "resume" => f = g
    /\ crashed \ crashed' \subseteq (IF e.kind = "resume" THEN {e.node} ELSE {})

LEMMA MendedIsPending ==
    ASSUME RecoveryPending, NEW e \in heap, NEW new, Pop(e, new), Mends(e, new)
    PROVE  RecoveryPending'
<1>1. heap' = (heap \ {e}) \cup new
  BY DEF Pop
<1>2. \A f \in heap' : f \in new \/ (f \in heap /\ f # e)
  BY <1>1
<1>3. \A f \in heap : f # e => f \in heap'
  BY <1>1
<1>4. \A f \in new : f \in heap'
  BY <1>1
<1>5. ASSUME NEW l \in downLinks' PROVE \E f \in heap' : f.kind = "linkup" /\ f.link = l
  <2>1. CASE \E f \in new : f.kind = "linkup" /\ f.link = l
    BY <1>4, <2>1
  <2>2. CASE l \in downLinks /\ ~(e.kind = "linkup" /\ e.link = l)
    <3>1. PICK f \in heap : f.kind = "linkup" /\ f.link = l
      BY <2>2 DEF RecoveryPending, Pending
    <3> QED
      BY <1>3, <2>2, <3>1
  <2> QED
    BY <2>1, <2>2 DEF Mends
<1>6. ASSUME NEW l \in lossyLinks' PROVE \E f \in heap' : f.kind = "lossyheal" /\ f.link = l
  <2>1. CASE \E f \in new : f.kind = "lossyheal" /\ f.link = l
    BY <1>4, <2>1
  <2>2. CASE l \in lossyLinks /\ ~(e.kind = "lossyheal" /\ e.link = l)
    <3>1. PICK f \in heap : f.kind = "lossyheal" /\ f.link = l
      BY <2>2 DEF RecoveryPending, Pending
    <3> QED
      BY <1>3, <2>2, <3>1
  <2> QED
    BY <2>1, <2>2 DEF Mends
<1>7. ASSUME side' # {} PROVE \E f \in heap' : f.kind \in {"heal", "tick"}
  <2>1. CASE \E f \in new : f.kind \in {"heal", "tick"}
    BY <1>4, <2>1
  <2>2. CASE side # {} /\ e.kind \notin {"heal", "tick"}
    <3>1. PICK f \in heap : f.kind \in {"heal", "tick"}
      BY <2>2 DEF RecoveryPending, Pending, Partitioned
    <3> QED
      BY <1>3, <2>2, <3>1
  <2> QED
    BY <1>7, <2>1, <2>2 DEF Mends
<1>8. ASSUME NEW n \in crashed' PROVE \E f \in heap' : f.kind = "resume" /\ f.node = n
  <2>1. CASE \E f \in new : f.kind = "resume" /\ f.node = n
    BY <1>4, <2>1
  <2>2. CASE n \in crashed /\ ~(e.kind = "resume" /\ e.node = n)
    <3>1. PICK f \in heap : f.kind = "resume" /\ f.node = n
      BY <2>2 DEF RecoveryPending, Pending
    <3> QED
      BY <1>3, <2>2, <3>1
  <2> QED
    BY <2>1, <2>2 DEF Mends
<1>9. ASSUME NEW f \in heap', f.kind = "resume" PROVE f.node \in crashed'
  <2>1. CASE f \in new
    BY <1>9, <2>1 DEF Mends
  <2>2. CASE f \in heap /\ f # e
    <3>1. f.node \in crashed
      BY <1>9, <2>2 DEF RecoveryPending, Pending
    <3>2. e.kind = "resume" => e.node # f.node
      BY <1>9, <2>2 DEF RecoveryPending, Pending
    <3> QED
      BY <3>1, <3>2 DEF Mends
  <2> QED
    BY <1>2, <2>1, <2>2
<1>10. ASSUME NEW f \in heap', NEW g \in heap', f.kind = "resume", g.kind = "resume",
              f.node = g.node
       PROVE  f = g
  <2>1. CASE f \in new /\ g \in new
    BY <1>10, <2>1 DEF Mends
  <2>2. CASE f \in heap /\ g \in heap
    BY <1>10, <2>2 DEF RecoveryPending, Pending
  <2>3. \A h \in heap : h.kind = "resume" => h.node \in crashed
    BY DEF RecoveryPending, Pending
  <2>4. \A h \in new : h.kind = "resume" => h.node \notin crashed
    BY DEF Mends
  <2> QED
    BY <1>2, <1>10, <2>1, <2>2, <2>3, <2>4
<1> QED
  BY <1>5, <1>6, <1>7, <1>8, <1>9, <1>10 DEF RecoveryPending, Pending, Partitioned

-----------------------------------------------------------------------------
\* What a step schedules, when it pops e.
Later == {"heal", "linkup", "lossyheal", "resume", "tick"}

Scheduled(e, new) ==
    /\ Pop(e, new)
    /\ Schedulable(e, new)
    /\ \A f \in new : f.kind \in Later
    /\ Mends(e, new)

\* A step that changes no fault schedules nothing.
LEMMA IdleSchedules ==
    ASSUME NEW e \in heap, e.kind \in Kinds \cup {"delivery"}, Pop(e, {}),
           UNCHANGED network
    PROVE  Scheduled(e, {})
<1>1. e.kind \notin {"heal", "linkup", "lossyheal", "resume", "tick"}
  BY DEF Kinds
<1>2. Mends(e, {})
  BY <1>1 DEF Mends, network
<1> QED
  BY <1>2, NoneSchedulable DEF Scheduled

LEMMA RecoverSchedules ==
    ASSUME NEW e \in heap, Recover(e)
    PROVE  Scheduled(e, {})
<1>1. Mends(e, {})
  BY DEF Recover, Mends
<1> QED
  BY <1>1, NoneSchedulable DEF Scheduled, Recover

\* An injection that acts schedules one recovery.
LEMMA InflictSchedules ==
    ASSUME HeapOK, NEW e \in heap, NEW r \in Later \ {"tick"}, Inflict(e, r),
           e.kind \in Kinds,
           Mends(e, {Event(e.at, e.duration, 0, r, e.node, e.link, 1)})
    PROVE  Scheduled(e, {Event(e.at, e.duration, 0, r, e.node, e.link, 1)})
<1> DEFINE f == Event(e.at, e.duration, 0, r, e.node, e.link, 1)
<1>1. e.duration \in Nat
  BY DEF HeapOK, EventOK
<1>2. Schedulable(e, {f})
  BY <1>1, OneSchedulable
<1>3. f.kind = r
  BY EventFields
<1>4. Pop(e, {f})
  BY DEF Inflict
<1> HIDE DEF f
<1>5. Mends(e, {f})
  BY DEF f
<1>6. Scheduled(e, {f})
  BY <1>2, <1>3, <1>4, <1>5 DEF Scheduled
<1> QED
  BY <1>6 DEF f

-----------------------------------------------------------------------------
\* One step per pattern: the recovery it leaves is the one that ends it.
LEMMA InjectionSchedules ==
    ASSUME HeapOK, RecoveryPending, NEW e \in heap,
           \/ PartitionHalves(e) \/ IsolateLeader(e) \/ FlappingLink(e)
           \/ LossyLink(e) \/ CrashNode(e)
    PROVE  \E new : Scheduled(e, new)
<1> DEFINE F(r) == Event(e.at, e.duration, 0, r, e.node, e.link, 1)
<1>1. \A r : F(r).kind = r /\ F(r).node = e.node /\ F(r).link = e.link
  BY EventFields
<1> HIDE DEF F
<1>2. CASE PartitionHalves(e) \/ IsolateLeader(e)
  <2>1. /\ Inflict(e, "heal") /\ e.kind \in {"partition_halves", "isolate_leader"}
        /\ UNCHANGED <<downLinks, lossyLinks, crashed>>
    BY <1>2 DEF PartitionHalves, IsolateLeader
  <2>2. F("heal").kind = "heal"
    BY <1>1
  <2>3. Mends(e, {F("heal")})
    BY <2>1, <2>2 DEF Mends
  <2> QED
    BY <2>1, <2>3, InflictSchedules DEF F, Later, Kinds
<1>3. CASE FlappingLink(e)
  <2>1. /\ Inflict(e, "linkup") /\ e.kind = "flapping_link"
        /\ downLinks' = downLinks \cup {e.link}
        /\ UNCHANGED <<side, lossyLinks, crashed>>
    BY <1>3 DEF FlappingLink
  <2>2. F("linkup").kind = "linkup" /\ F("linkup").link = e.link
    BY <1>1
  <2>3. Mends(e, {F("linkup")})
    BY <2>1, <2>2 DEF Mends
  <2> QED
    BY <2>1, <2>3, InflictSchedules DEF F, Later, Kinds
<1>4. CASE LossyLink(e)
  <2>1. /\ Inflict(e, "lossyheal") /\ e.kind = "lossy_link"
        /\ lossyLinks' = lossyLinks \cup {e.link}
        /\ UNCHANGED <<side, downLinks, crashed>>
    BY <1>4 DEF LossyLink
  <2>2. F("lossyheal").kind = "lossyheal" /\ F("lossyheal").link = e.link
    BY <1>1
  <2>3. Mends(e, {F("lossyheal")})
    BY <2>1, <2>2 DEF Mends
  <2> QED
    BY <2>1, <2>3, InflictSchedules DEF F, Later, Kinds
<1>5. CASE CrashNode(e)
  <2>1. /\ Inflict(e, "resume") /\ e.kind = "crash_node" /\ e.node \notin crashed
        /\ crashed' = crashed \cup {e.node}
        /\ UNCHANGED <<side, downLinks, lossyLinks>>
    BY <1>5 DEF CrashNode, Inflict, MayAct
  <2>2. F("resume").kind = "resume" /\ F("resume").node = e.node
    BY <1>1
  <2>3. Mends(e, {F("resume")})
    BY <2>1, <2>2 DEF Mends
  <2> QED
    BY <2>1, <2>3, InflictSchedules DEF F, Later, Kinds
<1> QED
  BY <1>2, <1>3, <1>4, <1>5

\* The random driver's tick leaves the next tick, and a resume for its victim.
LEMMA TickSchedules ==
    ASSUME HeapOK, NEW e \in heap, Tick(e)
    PROVE  \E new : Scheduled(e, new)
<1>0. PICK p \in PartitionDraws : \E c \in CrashDraws(e.at, p.ordinal) :
        /\ side' = p.side
        /\ crashed' = crashed \cup c.victims
        /\ Pop(e, c.resume \cup {Event(e.at, Interval, Cardinality(c.resume), "tick",
                                       0, {}, 1)})
  BY DEF Tick
<1>1. PICK c \in CrashDraws(e.at, p.ordinal) :
        /\ side' = p.side
        /\ crashed' = crashed \cup c.victims
        /\ Pop(e, c.resume \cup {Event(e.at, Interval, Cardinality(c.resume), "tick",
                                       0, {}, 1)})
  BY <1>0
<1> DEFINE t == Event(e.at, Interval, Cardinality(c.resume), "tick", 0, {}, 1)
           new == c.resume \cup {t}
<1>2. /\ t.at = e.at + Interval /\ t.seq = seq + Cardinality(c.resume)
      /\ t.kind = "tick" /\ t.duration = 1
  BY EventFields
<1> HIDE DEF t
<1>3. e.kind = "tick" /\ UNCHANGED <<downLinks, lossyLinks>>
  BY DEF Tick
<1>4. e.at \in Nat /\ seq \in Nat /\ Interval \in Nat
  BY FaultsAssumption DEF HeapOK, EventOK
<1>5. CASE c.victims = {} /\ c.resume = {}
  <2>1. Cardinality(c.resume) = 0 /\ new = {t} /\ Cardinality({t}) = 1
    BY <1>5, FS_EmptySet, FS_Singleton
  <2>2. EventOK(t) /\ t.at >= e.at /\ t.seq = seq
    BY <1>2, <1>4, <2>1 DEF EventOK
  <2>3. Schedulable(e, new)
    <3>1. Cardinality(new) = 1 /\ \A f \in new : f = t
      BY <2>1
    <3> HIDE DEF new
    <3> QED
      BY <1>4, <2>2, <3>1 DEF Schedulable, EventOK
  <2>4. Mends(e, new)
    BY <1>1, <1>2, <1>3, <1>5, <2>1 DEF Mends
  <2>5. \A f \in new : f.kind \in Later
    BY <1>2, <2>1 DEF Later
  <2> QED
    BY <1>1, <2>3, <2>4, <2>5 DEF Scheduled, t
<1>6. CASE \E n \in Candidates, d \in ResumeDelays :
             /\ c.victims = {n}
             /\ c.resume = {Event(e.at, d, 0, "resume", n, {}, 1)}
  <2>1. PICK n \in Candidates, d \in ResumeDelays :
             /\ c.victims = {n}
             /\ c.resume = {Event(e.at, d, 0, "resume", n, {}, 1)}
    BY <1>6
  <2> DEFINE r == Event(e.at, d, 0, "resume", n, {}, 1)
  <2>2. r.at = e.at + d /\ r.seq = seq + 0 /\ r.kind = "resume" /\ r.node = n /\ r.duration = 1
    BY EventFields
  <2>3. c.resume = {r}
    BY <2>1
  <2> HIDE DEF r
  <2>4. d \in Nat /\ n \notin crashed
    BY FaultsAssumption DEF Candidates
  <2>5. Cardinality(c.resume) = 1
    BY <2>3, FS_Singleton
  <2>6. r # t
    BY <1>2, <2>2
  <2>7. new = {r, t} /\ Cardinality({r, t}) = 2
    <3>1. IsFiniteSet({r}) /\ Cardinality({r}) = 1 /\ t \notin {r} /\ {r, t} = {r} \cup {t}
      BY <2>6, FS_Singleton
    <3> QED
      <4>1. Cardinality({r} \cup {t}) = Cardinality({r}) + 1
        BY <3>1, FS_AddElement
      <4>2. new = {r} \cup {t}
        BY <2>3
      <4> QED
        BY <3>1, <4>1, <4>2
  <2>8. /\ EventOK(t) /\ t.at >= e.at /\ t.seq = seq + 1
        /\ EventOK(r) /\ r.at >= e.at /\ r.seq = seq
    BY <1>2, <1>4, <2>2, <2>4, <2>5 DEF EventOK
  <2>9. Schedulable(e, new)
    <3>1. Cardinality(new) = 2 /\ \A f \in new : f = r \/ f = t
      BY <2>7
    <3> HIDE DEF new
    <3>2. \A f \in new : EventOK(f) /\ f.at >= e.at /\ (f.seq = seq \/ f.seq = seq + 1)
      BY <2>8, <3>1
    <3>3. \A f \in new : seq <= f.seq /\ f.seq < seq + 2
      BY <1>4, <3>2
    <3>4. \A f, g \in new : f.seq = g.seq => f = g
      <4>1. seq # seq + 1
        BY <1>4
      <4> QED
        BY <2>8, <3>1, <4>1
    <3> QED
      BY <3>1, <3>2, <3>3, <3>4 DEF Schedulable
  <2>10. Mends(e, new)
    BY <1>1, <1>2, <1>3, <2>1, <2>2, <2>4, <2>7 DEF Mends
  <2>11. \A f \in new : f.kind \in Later
    BY <1>2, <2>2, <2>7 DEF Later
  <2> QED
    BY <1>1, <2>9, <2>10, <2>11 DEF Scheduled, t
<1> QED
  BY <1>1, <1>5, <1>6 DEF CrashDraws

\* So does every simulator step, one way or another.
LEMMA StepSchedules ==
    ASSUME HeapOK, RecoveryPending, Step
    PROVE  \E e \in heap : \E new : IsNext(e) /\ Scheduled(e, new)
<1>1. PICK e \in heap :
        /\ IsNext(e)
        /\ \/ Skip(e) \/ Suppress(e) \/ PartitionHalves(e) \/ IsolateLeader(e)
           \/ FlappingLink(e) \/ LossyLink(e) \/ CrashNode(e) \/ Recover(e)
           \/ Tick(e) \/ Deliver(e)
  BY DEF Step
<1>2. CASE Skip(e)
  BY <1>1, <1>2, IdleSchedules DEF Skip
<1>3. CASE Suppress(e)
  BY <1>1, <1>3, IdleSchedules DEF Suppress, MayAct, Kinds
<1>4. CASE Deliver(e)
  BY <1>1, <1>4, IdleSchedules DEF Deliver
<1>5. CASE Recover(e)
  BY <1>1, <1>5, RecoverSchedules
<1>6. CASE Tick(e)
  BY <1>1, <1>6, TickSchedules
<1> QED
  BY <1>1, <1>2, <1>3, <1>4, <1>5, <1>6, InjectionSchedules

-----------------------------------------------------------------------------
\* Sending adds at most two deliveries to the heap and changes no fault.
LEMMA SendSchedules ==
    ASSUME HeapOK, NEW a, NEW b, Send(a, b)
    PROVE  /\ \E new : /\ heap' = heap \cup new
                       /\ \A f \in new : f.kind = "delivery"
           /\ UNCHANGED network
           /\ HeapOK'
<1> DEFINE F(d, k) == Event(now, d, k, "delivery", b, {a, b}, 1)
<1>1. \A d, k : /\ F(d, k).at = now + d /\ F(d, k).seq = seq + k
                /\ F(d, k).kind = "delivery" /\ F(d, k).duration = 1
  BY EventFields
<1> HIDE DEF F
<1>2. now' = now /\ network' = network /\ now \in Nat /\ seq \in Nat
  BY DEF Send, HeapOK
<1>3. ASSUME NEW new, NEW k \in Nat, heap' = heap \cup new, seq' = seq + k,
             \A f \in new : /\ EventOK(f) /\ f.at >= now
                            /\ seq <= f.seq /\ f.seq < seq + k,
             \A f, g \in new : f.seq = g.seq => f = g
      PROVE  HeapOK'
  <2>1. seq' \in Nat /\ seq <= seq'
    BY <1>2, <1>3
  <2>2. \A h \in heap : EventOK(h) /\ h.at >= now /\ h.seq < seq
    BY DEF HeapOK, HeapInOrder
  <2>3. ASSUME NEW f \in heap' PROVE EventOK(f) /\ f.at >= now' /\ f.seq < seq'
    BY <1>2, <1>3, <2>1, <2>2 DEF EventOK
  <2>4. ASSUME NEW f \in heap', NEW g \in heap', f.seq = g.seq PROVE f = g
    <3>1. CASE f \in heap /\ g \in heap
      BY <2>4, <3>1 DEF HeapOK, HeapInOrder
    <3>2. CASE f \in new /\ g \in new
      BY <1>3, <2>4, <3>2
    <3>3. ~(f \in new /\ g \in heap) /\ ~(f \in heap /\ g \in new)
      BY <1>2, <1>3, <2>2, <2>4 DEF EventOK
    <3> QED
      BY <1>3, <3>1, <3>2, <3>3
  <2>5. \A f \in heap' : EventOK(f)'
    BY <2>3 DEF EventOK
  <2> QED
    BY <1>2, <2>1, <2>3, <2>4, <2>5 DEF HeapOK, HeapInOrder
<1>4. CASE UNCHANGED <<seq, heap>>
  <2>1. heap' = heap \cup {} /\ \A f \in {} : f.kind = "delivery"
    BY <1>4
  <2>2. HeapOK'
    BY <1>2, <1>4 DEF HeapOK, HeapInOrder, EventOK
  <2> DEFINE sent == {}
  <2>5. heap' = heap \cup sent /\ \A f \in sent : f.kind = "delivery"
    BY <2>1
  <2> HIDE DEF sent
  <2> QED
    BY <1>2, <2>2, <2>5
<1>5. CASE \E d \in Delays : heap' = heap \cup {F(d, 0)} /\ seq' = seq + 1
  <2>1. PICK d \in Delays : heap' = heap \cup {F(d, 0)} /\ seq' = seq + 1
    BY <1>5
  <2>2. d \in Nat
    BY FaultsAssumption
  <2>3. /\ EventOK(F(d, 0)) /\ F(d, 0).at >= now /\ F(d, 0).seq = seq
        /\ F(d, 0).kind = "delivery"
    BY <1>1, <1>2, <2>2 DEF EventOK
  <2>4. HeapOK'
    <3>1. \A f \in {F(d, 0)} : /\ EventOK(f) /\ f.at >= now
                               /\ seq <= f.seq /\ f.seq < seq + 1
      BY <1>2, <2>3
    <3> DEFINE new == {F(d, 0)}
    <3>2. /\ heap' = heap \cup new /\ 1 \in Nat
          /\ \A f, g \in new : f.seq = g.seq => f = g
      BY <2>1
    <3>3. \A f \in new : EventOK(f) /\ f.at >= now /\ seq <= f.seq /\ f.seq < seq + 1
      BY <3>1
    <3> HIDE DEF new
    <3> QED
      BY <1>3, <2>1, <3>2, <3>3
  <2> DEFINE sent == {F(d, 0)}
  <2>5. heap' = heap \cup sent /\ \A f \in sent : f.kind = "delivery"
    BY <2>1, <2>3
  <2> HIDE DEF sent
  <2> QED
    BY <1>2, <2>4, <2>5
<1>6. CASE \E d1, d2 \in Delays : heap' = heap \cup {F(d1, 0), F(d2, 1)} /\ seq' = seq + 2
  <2>1. PICK d1 \in Delays, d2 \in Delays :
          heap' = heap \cup {F(d1, 0), F(d2, 1)} /\ seq' = seq + 2
    BY <1>6
  <2>2. d1 \in Nat /\ d2 \in Nat
    BY FaultsAssumption
  <2>3. /\ EventOK(F(d1, 0)) /\ F(d1, 0).at >= now /\ F(d1, 0).seq = seq
        /\ EventOK(F(d2, 1)) /\ F(d2, 1).at >= now /\ F(d2, 1).seq = seq + 1
        /\ F(d1, 0).kind = "delivery" /\ F(d2, 1).kind = "delivery"
    BY <1>1, <1>2, <2>2 DEF EventOK
  <2>4. HeapOK'
    <3>1. \A f \in {F(d1, 0), F(d2, 1)} : /\ EventOK(f) /\ f.at >= now
                                          /\ seq <= f.seq /\ f.seq < seq + 2
      BY <1>2, <2>3
    <3>2. \A f, g \in {F(d1, 0), F(d2, 1)} : f.seq = g.seq => f = g
      BY <1>2, <2>3
    <3> DEFINE new == {F(d1, 0), F(d2, 1)}
    <3>3. heap' = heap \cup new /\ 2 \in Nat
      BY <2>1
    <3>4. /\ \A f \in new : EventOK(f) /\ f.at >= now /\ seq <= f.seq /\ f.seq < seq + 2
          /\ \A f, g \in new : f.seq = g.seq => f = g
      BY <3>1, <3>2
    <3> HIDE DEF new
    <3> QED
      BY <1>3, <2>1, <3>3, <3>4
  <2> DEFINE sent == {F(d1, 0), F(d2, 1)}
  <2>5. heap' = heap \cup sent /\ \A f \in sent : f.kind = "delivery"
    BY <2>1, <2>3
  <2> HIDE DEF sent
  <2> QED
    BY <1>2, <2>4, <2>5
<1> QED
  BY <1>4, <1>5, <1>6 DEF Send, F

\* Deliveries that are added leave the recoveries where they are.
LEMMA SentIsPending ==
    ASSUME RecoveryPending, UNCHANGED network,
           NEW new, heap' = heap \cup new, \A f \in new : f.kind = "delivery"
    PROVE  RecoveryPending'
<1>1. \A f \in heap' : f.kind # "delivery" <=> f \in heap /\ f.kind # "delivery"
  OBVIOUS
<1>2. /\ Pending("linkup")' = Pending("linkup")
      /\ Pending("lossyheal")' = Pending("lossyheal")
      /\ Pending("heal")' = Pending("heal")
      /\ Pending("tick")' = Pending("tick")
      /\ Pending("resume")' = Pending("resume")
  BY DEF Pending
<1> QED
  BY <1>2 DEF RecoveryPending, network, Partitioned

LEMMA NextKeepsRecovery ==
    HeapOK /\ RecoveryPending /\ [Next]_vars => HeapOK' /\ RecoveryPending'
<1> SUFFICES ASSUME HeapOK, RecoveryPending, [Next]_vars
             PROVE  HeapOK' /\ RecoveryPending'
  OBVIOUS
<1>1. CASE Step
  <2>1. PICK e \in heap : \E new : IsNext(e) /\ Scheduled(e, new)
    BY <1>1, StepSchedules
  <2>2. PICK new : IsNext(e) /\ Scheduled(e, new)
    BY <2>1
  <2>3. Pop(e, new) /\ Schedulable(e, new) /\ Mends(e, new)
    BY <2>2 DEF Scheduled
  <2> QED
    BY <2>2, <2>3, PopKeepsOrder, MendedIsPending
<1>2. CASE \E a, b \in Nodes : a # b /\ Send(a, b)
  BY <1>2, SendSchedules, SentIsPending
<1>3. CASE UNCHANGED vars
  BY <1>3 DEF vars, network, HeapOK, HeapInOrder, EventOK, RecoveryPending, Pending,
              Partitioned
<1> QED
  BY <1>1, <1>2, <1>3 DEF Next

LEMMA InitOK == Init => HeapOK /\ RecoveryPending
<1> SUFFICES ASSUME Init PROVE HeapOK /\ RecoveryPending
  OBVIOUS
<1>1. \A e \in heap : e.kind # "resume"
  BY InitHeap DEF Kinds
<1>2. RecoveryPending
  BY <1>1 DEF Init, RecoveryPending, Pending, Partitioned
<1> QED
  BY <1>2, InitHeap

\* No fault outlives the events that end it, whatever the schedule, the mask and
\* the random draws: a link, a partition or a server that is down has its
\* recovery waiting, and no server has two (cluster.py, _nemesis_fire and
\* _fault_tick).
THEOREM RecoveryAlwaysPending == Spec => []RecoveryPending
  BY InitOK, NextKeepsRecovery, PTL DEF Spec

\* Time never runs backwards, and no event is lost among others due at one time
\* (Simulator.schedule and step).
THEOREM HeapAlwaysInOrder == Spec => []HeapInOrder
<1>1. HeapOK => HeapInOrder
  BY DEF HeapOK
<1> QED
  BY <1>1, InitOK, NextKeepsRecovery, PTL DEF Spec

-----------------------------------------------------------------------------
\* Without crash_node in the schedule only the tick takes a server down.
LEMMA CrashedBy ==
    ASSUME Step, \A e \in heap : e.kind # "crash_node"
    PROVE  \/ crashed' \subseteq crashed
           \/ \E n \in Candidates : crashed' = crashed \cup {n}
<1>1. PICK e \in heap :
        \/ Skip(e) \/ Suppress(e) \/ PartitionHalves(e) \/ IsolateLeader(e)
        \/ FlappingLink(e) \/ LossyLink(e) \/ CrashNode(e) \/ Recover(e)
        \/ Tick(e) \/ Deliver(e)
  BY DEF Step
<1>2. CASE Tick(e)
  <2>1. PICK p \in PartitionDraws : \E c \in CrashDraws(e.at, p.ordinal) :
               crashed' = crashed \cup c.victims
    BY <1>2 DEF Tick
  <2>2. PICK c \in CrashDraws(e.at, p.ordinal) : crashed' = crashed \cup c.victims
    BY <2>1
  <2>3. c.victims = {} \/ \E n \in Candidates : c.victims = {n}
    BY DEF CrashDraws
  <2> QED
    BY <2>2, <2>3
<1>3. CASE Recover(e)
  BY <1>3 DEF Recover
<1> QED
  BY <1>1, <1>2, <1>3
     DEF Skip, Suppress, PartitionHalves, IsolateLeader, FlappingLink, LossyLink, CrashNode,
         Deliver, network

LEMMA NextKeepsLimit ==
    HeapOK /\ RecoveryPending /\ CrashesLimited /\ [Next]_vars => CrashesLimited'
<1> SUFFICES ASSUME HeapOK, RecoveryPending, CrashesLimited, [Next]_vars,
                    \A i \in DOMAIN schedule' : schedule'[i].kind # "crash_node"
             PROVE  /\ \A e \in heap' : e.kind # "crash_node"
                    /\ IsFiniteSet(crashed')
                    /\ Cardinality(crashed') <= CrashLimit
  BY DEF CrashesLimited, CrashLimit
<1>1. schedule' = schedule
  BY DEF Next, Step, Skip, Suppress, PartitionHalves, IsolateLeader, FlappingLink, LossyLink,
         CrashNode, Inflict, Recover, Tick, Deliver, Send, settings, vars
<1>2. /\ \A e \in heap : e.kind # "crash_node"
      /\ IsFiniteSet(crashed) /\ Cardinality(crashed) <= CrashLimit
  BY <1>1 DEF CrashesLimited
<1>3. CASE Step
  <2>1. PICK e \in heap : \E new : IsNext(e) /\ Scheduled(e, new)
    BY <1>3, StepSchedules
  <2>2. PICK new : Scheduled(e, new)
    BY <2>1
  <2>3. \A f \in heap' : f.kind # "crash_node"
    BY <1>2, <2>2 DEF Scheduled, Pop, Later
  <2>4. Cardinality(crashed) \in Nat /\ CrashLimit \in Int
    BY <1>2, FS_CardinalityType, FaultsAssumption DEF CrashLimit
  <2>5. CASE crashed' \subseteq crashed
    <3>1. /\ IsFiniteSet(crashed') /\ Cardinality(crashed') <= Cardinality(crashed)
          /\ Cardinality(crashed') \in Nat
      BY <1>2, <2>5, FS_Subset, FS_CardinalityType
    <3> QED
      BY <1>2, <2>3, <2>4, <3>1
  <2>6. CASE \E n \in Candidates : crashed' = crashed \cup {n}
    <3>1. PICK n \in Candidates : crashed' = crashed \cup {n}
      BY <2>6
    <3>2. n \notin crashed /\ Cardinality(crashed) < CrashLimit
      BY DEF Candidates
    <3>3. IsFiniteSet(crashed') /\ Cardinality(crashed') = Cardinality(crashed) + 1
      BY <1>2, <3>1, <3>2, FS_AddElement
    <3> QED
      BY <2>3, <2>4, <3>2, <3>3
  <2> QED
    BY <1>2, <1>3, <2>5, <2>6, CrashedBy
<1>4. CASE \E a, b \in Nodes : a # b /\ Send(a, b)
  <2>1. PICK a \in Nodes, b \in Nodes : Send(a, b)
    BY <1>4
  <2>2. /\ \E new : heap' = heap \cup new /\ \A f \in new : f.kind = "delivery"
        /\ UNCHANGED network
    BY <2>1, SendSchedules
  <2>3. crashed' = crashed
    BY <2>2 DEF network
  <2>4. \A f \in heap' : f.kind # "crash_node"
    BY <1>2, <2>2
  <2> QED
    BY <1>2, <2>3, <2>4
<1>5. CASE UNCHANGED vars
  BY <1>2, <1>5 DEF vars, network
<1> QED
  BY <1>3, <1>4, <1>5 DEF Next

\* However the random driver draws, a majority of the servers stays up, for every
\* number of servers, in every run whose schedule crashes none (cluster.py,
\* _fault_tick: "keep a majority alive under chaos").
THEOREM MajorityStaysAlive == Spec => []MajorityAlive
<1>1. Init => CrashesLimited
  <2> SUFFICES ASSUME Init, \A i \in DOMAIN schedule : schedule[i].kind # "crash_node"
               PROVE  /\ \A e \in heap : e.kind # "crash_node"
                      /\ IsFiniteSet(crashed) /\ Cardinality(crashed) <= CrashLimit
    BY DEF CrashesLimited
  <2>1. ASSUME NEW e \in heap PROVE e.kind # "crash_node"
    BY InitHeap
  <2>2. crashed = {} /\ 0 <= CrashLimit
    BY FaultsAssumption DEF Init, CrashLimit
  <2> QED
    BY <2>1, <2>2, FS_EmptySet
<1>2. CrashesLimited => MajorityAlive
  <2> SUFFICES ASSUME IsFiniteSet(crashed), Cardinality(crashed) <= CrashLimit
               PROVE  2 * Cardinality(crashed) < N
    BY DEF CrashesLimited, MajorityAlive
  <2>1. Cardinality(crashed) \in Nat
    BY FS_CardinalityType
  <2>2. N \in Nat \ {0} /\ 2 * CrashLimit < N
    BY FaultsAssumption DEF CrashLimit
  <2>3. CrashLimit \in Int
    BY <2>2 DEF CrashLimit
  <2> QED
    BY <2>1, <2>2, <2>3
<1> QED
  BY <1>1, <1>2, InitOK, NextKeepsRecovery, NextKeepsLimit, PTL DEF Spec

-----------------------------------------------------------------------------
\* Links that go down or become lossy are links.
Linked ==
    \A e \in heap : e.kind \in {"flapping_link", "lossy_link"} => e.link \in Links

Typed == TypeOK /\ Linked

Names == {"sent", "delivered", "dropped", "duplicated"}

\* A step of the simulator delivers or drops the message it pops, and counts no other.
Tallied(e) ==
    IF e.kind = "delivery" THEN Count({"delivered"}) \/ Count({"dropped"})
    ELSE UNCHANGED stats

\* What pops e and schedules new events of the right type.
PopsTyped(e, new) ==
    /\ Pop(e, new)
    /\ new \subseteq Events
    /\ \A f \in new : f.kind \in Later
    /\ Cardinality(new) \in Nat

LEMMA EventTyped ==
    ASSUME seq \in Nat, NEW t \in Nat, NEW d \in Nat, NEW k \in Nat,
           NEW kind \in Kinds \cup Later \cup {"delivery"}, NEW n \in Nodes,
           NEW l \in Links \cup {{}}, NEW r \in Nat
    PROVE  Event(t, d, k, kind, n, l, r) \in Events
<1>1. t + d \in Nat /\ seq + k \in Nat
  OBVIOUS
<1> QED
  BY <1>1 DEF Event, Events, Later

LEMMA EventOfType ==
    ASSUME Typed, NEW e \in heap
    PROVE  /\ e.at \in Nat /\ e.seq \in Nat /\ e.node \in Nodes
           /\ e.link \in Links \cup {{}} /\ e.duration \in Nat
           /\ e.kind \in {"flapping_link", "lossy_link"} => e.link \in Links
<1>1. e \in Events
  BY DEF Typed, TypeOK
<1> QED
  BY <1>1 DEF Events, Typed, Linked

LEMMA NothingTyped ==
    ASSUME NEW e, Pop(e, {})
    PROVE  PopsTyped(e, {})
  BY FS_EmptySet DEF PopsTyped

LEMMA RecoveryTyped ==
    ASSUME Typed, NEW e \in heap, NEW r \in Later, Inflict(e, r)
    PROVE  PopsTyped(e, {Event(e.at, e.duration, 0, r, e.node, e.link, 1)})
<1> DEFINE f == Event(e.at, e.duration, 0, r, e.node, e.link, 1)
<1>1. f.kind = r
  BY EventFields
<1>2. seq \in Nat
  BY DEF Typed, TypeOK
<1>3. f \in Events
  BY <1>2, EventOfType, EventTyped
<1>4. Pop(e, {f})
  BY DEF Inflict
<1> HIDE DEF f
<1>5. Cardinality({f}) = 1
  BY FS_Singleton
<1>6. PopsTyped(e, {f})
  BY <1>1, <1>3, <1>4, <1>5 DEF PopsTyped
<1> QED
  BY <1>6 DEF f

\* What the heap is after such a step.
LEMMA HeapStaysTyped ==
    ASSUME Typed, NEW e \in heap, NEW new, PopsTyped(e, new)
    PROVE  /\ now' \in Nat /\ seq' \in Nat /\ heap' \subseteq Events
           /\ \A f \in heap' : f.kind \in {"flapping_link", "lossy_link"} => f.link \in Links
<1>1. now' = e.at /\ heap' = (heap \ {e}) \cup new /\ seq' = seq + Cardinality(new)
  BY DEF PopsTyped, Pop
<1>2. now' \in Nat
  BY <1>1, EventOfType
<1>3. seq' \in Nat
  BY <1>1 DEF PopsTyped, Typed, TypeOK
<1>4. heap' \subseteq Events
  BY <1>1 DEF PopsTyped, Typed, TypeOK
<1>5. \A f \in heap' : f.kind \in {"flapping_link", "lossy_link"} => f.link \in Links
  BY <1>1 DEF PopsTyped, Typed, Linked, Later
<1> QED
  BY <1>2, <1>3, <1>4, <1>5

LEMMA CountTyped ==
    ASSUME stats \in [Names -> Nat], NEW names, Count(names)
    PROVE  /\ stats' \in [Names -> Nat]
           /\ \A name \in Names : stats'[name] = stats[name] + (IF name \in names THEN 1 ELSE 0)
  BY DEF Count

\* What the servers suffer.
NetworkTyped ==
    /\ side \in SUBSET Nodes /\ crashed \in SUBSET Nodes
    /\ downLinks \in SUBSET Links /\ lossyLinks \in SUBSET Links

LEMMA InjectionTyped ==
    ASSUME Typed, NEW e \in heap,
           \/ PartitionHalves(e) \/ IsolateLeader(e) \/ FlappingLink(e)
           \/ LossyLink(e) \/ CrashNode(e)
    PROVE  /\ \E new : PopsTyped(e, new)
           /\ NetworkTyped'
           /\ ordinal' \in Nat
           /\ UNCHANGED <<settings, stats>>
           /\ e.kind # "delivery"
<1>1. NetworkTyped /\ ordinal \in Nat
  BY DEF Typed, TypeOK, NetworkTyped
<1>2. e.node \in Nodes /\ (e.kind \in {"flapping_link", "lossy_link"} => e.link \in Links)
  BY EventOfType
<1>3. \E r \in Later : Inflict(e, r)
  BY DEF PartitionHalves, IsolateLeader, FlappingLink, LossyLink, CrashNode, Later
<1>4. \E new : PopsTyped(e, new)
  BY <1>3, RecoveryTyped
<1>5. ordinal' \in Nat /\ UNCHANGED <<settings, stats>>
  BY <1>1, <1>3 DEF Inflict
<1>6. NetworkTyped'
  <2>1. CASE PartitionHalves(e)
    <3>1. (N + 1) \div 2 .. N - 1 \subseteq Nodes
      BY FaultsAssumption DEF Nodes
    <3> QED
      BY <1>1, <2>1, <3>1 DEF PartitionHalves, NetworkTyped
  <2>2. CASE IsolateLeader(e)
    BY <1>1, <2>2 DEF IsolateLeader, NetworkTyped
  <2>3. CASE FlappingLink(e)
    BY <1>1, <1>2, <2>3 DEF FlappingLink, NetworkTyped
  <2>4. CASE LossyLink(e)
    BY <1>1, <1>2, <2>4 DEF LossyLink, NetworkTyped
  <2>5. CASE CrashNode(e)
    BY <1>1, <1>2, <2>5 DEF CrashNode, NetworkTyped
  <2> QED
    BY <2>1, <2>2, <2>3, <2>4, <2>5
<1>7. e.kind # "delivery"
  BY DEF PartitionHalves, IsolateLeader, FlappingLink, LossyLink, CrashNode
<1> QED
  BY <1>4, <1>5, <1>6, <1>7

LEMMA TickTyped ==
    ASSUME Typed, NEW e \in heap, Tick(e)
    PROVE  /\ \E new : PopsTyped(e, new)
           /\ NetworkTyped'
           /\ ordinal' \in Nat
           /\ UNCHANGED <<settings, stats>>
           /\ e.kind # "delivery"
<1>0. PICK p \in PartitionDraws : \E c \in CrashDraws(e.at, p.ordinal) :
        /\ side' = p.side
        /\ crashed' = crashed \cup c.victims
        /\ ordinal' = c.ordinal
        /\ Pop(e, c.resume \cup {Event(e.at, Interval, Cardinality(c.resume), "tick",
                                       0, {}, 1)})
  BY DEF Tick
<1>1. PICK c \in CrashDraws(e.at, p.ordinal) :
        /\ side' = p.side
        /\ crashed' = crashed \cup c.victims
        /\ ordinal' = c.ordinal
        /\ Pop(e, c.resume \cup {Event(e.at, Interval, Cardinality(c.resume), "tick",
                                       0, {}, 1)})
  BY <1>0
<1> DEFINE t == Event(e.at, Interval, Cardinality(c.resume), "tick", 0, {}, 1)
<1>2. NetworkTyped /\ ordinal \in Nat /\ seq \in Nat /\ e.at \in Nat
  BY EventOfType DEF Typed, TypeOK, NetworkTyped
<1>3. p.ordinal \in Nat /\ p.side \subseteq Nodes
  <2>1. /\ p.ordinal \in {ordinal, ordinal + 1}
        /\ p.side \in {side, {}} \cup SUBSET (Nodes \ {0})
    BY DEF PartitionDraws
  <2> QED
    BY <1>2, <2>1 DEF NetworkTyped
<1>4. \/ c.victims = {} /\ c.resume = {}
      \/ \E n \in Candidates, d \in ResumeDelays :
           c.victims = {n} /\ c.resume = {Event(e.at, d, 0, "resume", n, {}, 1)}
  BY DEF CrashDraws
<1>5. c.ordinal \in Nat
  BY <1>3 DEF CrashDraws
<1>6. /\ c.victims \subseteq Nodes /\ Cardinality(c.resume) \in {0, 1} /\ c.resume \subseteq Events
      /\ \A f \in c.resume : f.kind = "resume"
      /\ IsFiniteSet(c.resume)
  <2>1. CASE c.victims = {} /\ c.resume = {}
    BY <2>1, FS_EmptySet
  <2>2. CASE \E n \in Candidates, d \in ResumeDelays :
               c.victims = {n} /\ c.resume = {Event(e.at, d, 0, "resume", n, {}, 1)}
    <3>1. PICK n \in Candidates, d \in ResumeDelays :
            c.victims = {n} /\ c.resume = {Event(e.at, d, 0, "resume", n, {}, 1)}
      BY <2>2
    <3> DEFINE r == Event(e.at, d, 0, "resume", n, {}, 1)
    <3>2. r.kind = "resume"
      BY EventFields
    <3>3. n \in Nodes /\ d \in Nat
      BY FaultsAssumption DEF Candidates
    <3>4. r \in Events
      BY <1>2, <3>3, EventTyped DEF Later
    <3>5. c.resume = {r}
      BY <3>1
    <3> HIDE DEF r
    <3>6. Cardinality(c.resume) = 1 /\ IsFiniteSet(c.resume)
      BY <3>5, FS_Singleton
    <3> QED
      BY <3>1, <3>2, <3>3, <3>4, <3>5, <3>6
  <2> QED
    BY <1>4, <2>1, <2>2
<1>7. t \in Events /\ t.kind = "tick"
  <2>1. Interval \in Nat /\ 0 \in Nodes
    BY FaultsAssumption DEF Nodes
  <2>2. Cardinality(c.resume) \in Nat
    BY <1>6
  <2>3. t.kind = "tick"
    BY EventFields
  <2> QED
    BY <1>2, <2>1, <2>2, <2>3, EventTyped DEF Later
<1>8. Pop(e, c.resume \cup {t})
  BY <1>1
<1> HIDE DEF t
<1>9. Cardinality(c.resume \cup {t}) \in Nat
  BY <1>6, FS_AddElement, FS_CardinalityType
<1>10. PopsTyped(e, c.resume \cup {t})
  BY <1>6, <1>7, <1>8, <1>9 DEF PopsTyped, Later
<1>11. NetworkTyped'
  BY <1>1, <1>2, <1>3, <1>6 DEF NetworkTyped, Tick
<1> QED
  BY <1>1, <1>5, <1>10, <1>11 DEF Tick

LEMMA StepTyped ==
    ASSUME Typed, Step
    PROVE  \E e \in heap : /\ \E new : PopsTyped(e, new)
                           /\ NetworkTyped'
                           /\ ordinal' \in Nat
                           /\ UNCHANGED settings
                           /\ Tallied(e)
<1>1. PICK e \in heap :
        \/ Skip(e) \/ Suppress(e) \/ PartitionHalves(e) \/ IsolateLeader(e)
        \/ FlappingLink(e) \/ LossyLink(e) \/ CrashNode(e) \/ Recover(e)
        \/ Tick(e) \/ Deliver(e)
  BY DEF Step
<1>2. NetworkTyped /\ ordinal \in Nat
  BY DEF Typed, TypeOK, NetworkTyped
<1>3. CASE Skip(e)
  <2>1. e.kind # "delivery" /\ Pop(e, {}) /\ UNCHANGED <<settings, network, ordinal, stats>>
    BY <1>3 DEF Skip, Kinds
  <2>2. NetworkTyped'
    BY <1>2, <2>1 DEF NetworkTyped, network
  <2> QED
    BY <1>2, <2>1, <2>2, NothingTyped DEF Tallied
<1>4. CASE Suppress(e)
  <2>1. /\ e.kind # "delivery" /\ Pop(e, {}) /\ UNCHANGED <<settings, network, stats>>
        /\ ordinal' = ordinal + 1
    BY <1>4 DEF Suppress, MayAct
  <2>2. NetworkTyped'
    BY <1>2, <2>1 DEF NetworkTyped, network
  <2> QED
    BY <1>2, <2>1, <2>2, NothingTyped DEF Tallied
<1>5. CASE Recover(e)
  <2>1. e.kind # "delivery" /\ Pop(e, {}) /\ UNCHANGED <<settings, ordinal, stats>>
    BY <1>5 DEF Recover
  <2>2. NetworkTyped'
    BY <1>2, <1>5 DEF NetworkTyped, Recover
  <2> QED
    BY <1>2, <2>1, <2>2, NothingTyped DEF Tallied
<1>6. CASE Deliver(e)
  <2>1. /\ e.kind = "delivery" /\ Pop(e, {}) /\ UNCHANGED <<settings, network, ordinal>>
        /\ Count({"delivered"}) \/ Count({"dropped"})
    BY <1>6, Zenon DEF Deliver
  <2>2. NetworkTyped'
    BY <1>2, <2>1 DEF NetworkTyped, network
  <2> QED
    BY <1>2, <2>1, <2>2, NothingTyped DEF Tallied
<1>7. CASE Tick(e)
  BY <1>7, TickTyped DEF Tallied
<1> QED
  BY <1>1, <1>3, <1>4, <1>5, <1>6, <1>7, InjectionTyped DEF Tallied

-----------------------------------------------------------------------------
\* The messages that are on their way, counted.
Balanced ==
    /\ IsFiniteSet(Pending("delivery"))
    /\ MessagesCounted

LEMMA StepBalances ==
    ASSUME Typed, Balanced, NEW e \in heap, NEW new, PopsTyped(e, new), Tallied(e)
    PROVE  Balanced' /\ stats' \in [Names -> Nat]
<1>1. heap' = (heap \ {e}) \cup new /\ \A f \in new : f.kind # "delivery"
  BY DEF PopsTyped, Pop, Later
<1>2. stats \in [Names -> Nat]
  BY DEF Typed, TypeOK, Names
<1>3. CASE e.kind # "delivery"
  <2>1. Pending("delivery")' = Pending("delivery")
    BY <1>1, <1>3 DEF Pending
  <2>2. stats' = stats
    BY <1>3 DEF Tallied
  <2> QED
    BY <1>2, <2>1, <2>2 DEF Balanced, MessagesCounted
<1>4. CASE e.kind = "delivery"
  <2> DEFINE P == Pending("delivery")
             Q == Pending("delivery")'
  <2>1. Q = P \ {e} /\ e \in P
    BY <1>1, <1>4 DEF Pending
  <2>2. IsFiniteSet(P)
    BY DEF Balanced
  <2> HIDE DEF P, Q
  <2>3. /\ IsFiniteSet(Q) /\ Cardinality(Q) = Cardinality(P) - 1
        /\ Cardinality(P) \in Nat
    BY <2>1, <2>2, FS_RemoveElement, FS_CardinalityType
  <2>4. PICK name \in {"delivered", "dropped"} : Count({name})
    BY <1>4 DEF Tallied
  <2>5. /\ stats' \in [Names -> Nat]
        /\ \A x \in Names : stats'[x] = stats[x] + (IF x \in {name} THEN 1 ELSE 0)
    BY <1>2, <2>4, CountTyped
  <2>6. /\ stats'.sent = stats.sent /\ stats'.duplicated = stats.duplicated
        /\ stats'.delivered + stats'.dropped = stats.delivered + stats.dropped + 1
    BY <1>2, <2>5 DEF Names
  <2>7. stats.sent + stats.duplicated = stats.delivered + stats.dropped + Cardinality(P)
    BY DEF Balanced, MessagesCounted, P
  <2>8. \A x \in Names : stats[x] \in Nat /\ stats'[x] \in Nat
    BY <1>2, <2>5
  <2>9. stats'.sent + stats'.duplicated
          = stats'.delivered + stats'.dropped + Cardinality(Q)
    BY <2>3, <2>6, <2>7, <2>8 DEF Names
  <2>10. Balanced'
    BY <2>3, <2>9 DEF Balanced, MessagesCounted, Q
  <2> QED
    BY <2>5, <2>10
<1> QED
  BY <1>3, <1>4

\* What is sent now is not on its way yet.
LEMMA SentIsNew ==
    ASSUME Typed, HeapOK, NEW d \in Delays, NEW k \in Nat, NEW b, NEW l
    PROVE  /\ Event(now, d, k, "delivery", b, l, 1) \notin heap
           /\ Event(now, d, k, "delivery", b, l, 1).seq = seq + k
           /\ Event(now, d, k, "delivery", b, l, 1).kind = "delivery"
<1> DEFINE f == Event(now, d, k, "delivery", b, l, 1)
<1>1. f.seq = seq + k /\ f.kind = "delivery"
  BY EventFields
<1> HIDE DEF f
<1>2. seq \in Nat /\ \A g \in heap : g.seq \in Nat /\ g.seq < seq
  BY DEF HeapOK, HeapInOrder, EventOK
<1>3. f \notin heap
  BY <1>1, <1>2
<1> QED
  BY <1>1, <1>3 DEF f

\* A server sends: k messages more are on their way, or one is dropped.
Adds(new, k) ==
    /\ heap' = heap \cup new
    /\ new \cap heap = {}
    /\ new \subseteq Events
    /\ \A f \in new : f.kind = "delivery"
    /\ IsFiniteSet(new)
    /\ Cardinality(new) = k

Sends ==
    \E new : \E k \in {0, 1, 2} :
      /\ Adds(new, k)
      /\ \/ k = 0 /\ Count({"sent", "dropped"})
         \/ k = 1 /\ Count({"sent"})
         \/ k = 2 /\ Count({"sent", "duplicated"})

LEMMA SendSends ==
    ASSUME Typed, HeapOK, NEW a \in Nodes, NEW b \in Nodes, a # b, Send(a, b)
    PROVE  Sends /\ seq' \in Nat
<1> DEFINE F(d, k) == Event(now, d, k, "delivery", b, {a, b}, 1)
<1>1. seq \in Nat /\ now \in Nat /\ {a, b} \in Links
  <2>1. Cardinality({a, b}) = 2
    <3>1. IsFiniteSet({a}) /\ Cardinality({a}) = 1 /\ b \notin {a} /\ {a, b} = {a} \cup {b}
      BY FS_Singleton
    <3> QED
      BY <3>1, FS_AddElement
  <2> QED
    BY <2>1 DEF Links, HeapOK
<1>2. \A d \in Delays, k \in Nat :
        /\ F(d, k) \in Events /\ F(d, k) \notin heap
        /\ F(d, k).kind = "delivery" /\ F(d, k).seq = seq + k
  <2>1. SUFFICES ASSUME NEW d \in Delays, NEW k \in Nat
                 PROVE  /\ F(d, k) \in Events /\ F(d, k) \notin heap
                        /\ F(d, k).kind = "delivery" /\ F(d, k).seq = seq + k
    OBVIOUS
  <2>2. d \in Nat
    BY FaultsAssumption
  <2>3. F(d, k) \in Events
    BY <1>1, <2>2, EventTyped
  <2> QED
    BY <2>3, SentIsNew
<1> HIDE DEF F
<1>3. CASE Count({"sent", "dropped"}) /\ UNCHANGED <<seq, heap>>
  <2>1. Adds({}, 0)
    BY <1>3, FS_EmptySet DEF Adds
  <2> QED
    BY <1>1, <1>3, <2>1 DEF Sends
<1>4. CASE (\E d \in Delays : heap' = heap \cup {F(d, 0)}) /\ seq' = seq + 1 /\ Count({"sent"})
  <2>1. PICK d \in Delays : heap' = heap \cup {F(d, 0)}
    BY <1>4
  <2>2. IsFiniteSet({F(d, 0)}) /\ Cardinality({F(d, 0)}) = 1
    BY FS_Singleton
  <2>3. Adds({F(d, 0)}, 1)
    BY <1>2, <2>1, <2>2 DEF Adds
  <2> QED
    BY <1>1, <1>4, <2>3 DEF Sends
<1>5. CASE /\ \E d1, d2 \in Delays : heap' = heap \cup {F(d1, 0), F(d2, 1)}
           /\ seq' = seq + 2 /\ Count({"sent", "duplicated"})
  <2>1. PICK d1 \in Delays, d2 \in Delays : heap' = heap \cup {F(d1, 0), F(d2, 1)}
    BY <1>5
  <2>2. F(d1, 0) # F(d2, 1)
    BY <1>1, <1>2
  <2>3. IsFiniteSet({F(d1, 0), F(d2, 1)}) /\ Cardinality({F(d1, 0), F(d2, 1)}) = 2
    <3>1. /\ IsFiniteSet({F(d1, 0)}) /\ Cardinality({F(d1, 0)}) = 1
          /\ F(d2, 1) \notin {F(d1, 0)}
          /\ {F(d1, 0), F(d2, 1)} = {F(d1, 0)} \cup {F(d2, 1)}
      BY <2>2, FS_Singleton
    <3> QED
      BY <3>1, FS_AddElement
  <2>4. Adds({F(d1, 0), F(d2, 1)}, 2)
    BY <1>2, <2>1, <2>3 DEF Adds
  <2> QED
    BY <1>1, <1>5, <2>4 DEF Sends
<1> QED
  BY <1>3, <1>4, <1>5, Zenon DEF Send, F

LEMMA SendBalances ==
    ASSUME Typed, Balanced, Sends
    PROVE  /\ Balanced'
           /\ stats' \in [Names -> Nat]
           /\ heap' \subseteq Events
           /\ \A f \in heap' : f \in heap \/ f.kind = "delivery"
<1> DEFINE P == Pending("delivery")
           Q == Pending("delivery")'
<1>0. PICK new : \E k \in {0, 1, 2} :
        /\ Adds(new, k)
        /\ \/ k = 0 /\ Count({"sent", "dropped"})
           \/ k = 1 /\ Count({"sent"})
           \/ k = 2 /\ Count({"sent", "duplicated"})
  BY DEF Sends
<1>1. PICK k \in {0, 1, 2} :
        /\ Adds(new, k)
        /\ \/ k = 0 /\ Count({"sent", "dropped"})
           \/ k = 1 /\ Count({"sent"})
           \/ k = 2 /\ Count({"sent", "duplicated"})
  BY <1>0
<1>2. /\ heap' = heap \cup new /\ new \cap heap = {} /\ new \subseteq Events
      /\ \A f \in new : f.kind = "delivery"
      /\ IsFiniteSet(new) /\ Cardinality(new) = k
  BY <1>1 DEF Adds
<1>3. Q = P \cup new /\ P \cap new = {} /\ IsFiniteSet(P)
  BY <1>2 DEF Pending, Balanced
<1>4. stats.sent + stats.duplicated = stats.delivered + stats.dropped + Cardinality(P)
  BY DEF Balanced, MessagesCounted
<1> HIDE DEF P, Q
<1>5. IsFiniteSet(Q) /\ Cardinality(P) \in Nat /\ Cardinality(Q) = Cardinality(P) + k
  <2>1. IsFiniteSet(Q)
    BY <1>2, <1>3, FS_Union
  <2>2. Cardinality(P \cup new) = Cardinality(P) + Cardinality(new) - Cardinality(P \cap new)
    BY <1>2, <1>3, FS_Union
  <2>3. Cardinality(P) \in Nat /\ Cardinality(P \cap new) = 0
    BY <1>3, FS_CardinalityType, FS_EmptySet
  <2> QED
    BY <1>2, <1>3, <2>1, <2>2, <2>3
<1>6. stats \in [Names -> Nat]
  BY DEF Typed, TypeOK, Names
<1>7. PICK names :
        /\ Count(names)
        /\ names = IF k = 0 THEN {"sent", "dropped"} ELSE IF k = 1 THEN {"sent"}
                   ELSE {"sent", "duplicated"}
  BY <1>1
<1>8. /\ stats' \in [Names -> Nat]
      /\ \A x \in Names : stats'[x] = stats[x] + (IF x \in names THEN 1 ELSE 0)
  BY <1>6, <1>7, CountTyped
<1>9. /\ stats.sent \in Nat /\ stats.delivered \in Nat /\ stats.dropped \in Nat
      /\ stats.duplicated \in Nat
  BY <1>6 DEF Names
<1>10. /\ stats'.sent = stats.sent + 1 /\ stats'.delivered = stats.delivered
       /\ stats'.dropped = stats.dropped + (IF k = 0 THEN 1 ELSE 0)
       /\ stats'.duplicated = stats.duplicated + (IF k = 2 THEN 1 ELSE 0)
  BY <1>7, <1>8, <1>9 DEF Names
<1>11. stats'.sent + stats'.duplicated
         = stats'.delivered + stats'.dropped + Cardinality(Q)
  <2>1. CASE k = 0
    BY <1>4, <1>5, <1>9, <1>10, <2>1
  <2>2. CASE k = 1
    BY <1>4, <1>5, <1>9, <1>10, <2>2
  <2>3. CASE k = 2
    BY <1>4, <1>5, <1>9, <1>10, <2>3
  <2>4. k \in {0, 1, 2}
    OBVIOUS
  <2> QED
    BY <2>1, <2>2, <2>3, <2>4
<1>12. Balanced'
  BY <1>5, <1>11 DEF Balanced, MessagesCounted, Q
<1> QED
  BY <1>2, <1>8, <1>12 DEF Typed, TypeOK

LEMMA NextKeepsBalance ==
    Typed /\ Balanced /\ HeapOK /\ [Next]_vars => Typed' /\ Balanced'
<1> SUFFICES ASSUME Typed, Balanced, HeapOK, [Next]_vars PROVE Typed' /\ Balanced'
  OBVIOUS
<1>1. CASE Step
  <2>1. PICK e \in heap : /\ \E new : PopsTyped(e, new)
                          /\ NetworkTyped'
                          /\ ordinal' \in Nat
                          /\ UNCHANGED settings
                          /\ Tallied(e)
    BY <1>1, StepTyped
  <2>2. PICK new : PopsTyped(e, new)
    BY <2>1
  <2>3. Balanced' /\ stats' \in [Names -> Nat]
    BY <2>1, <2>2, StepBalances
  <2>4. /\ now' \in Nat /\ seq' \in Nat /\ heap' \subseteq Events
        /\ \A f \in heap' : f.kind \in {"flapping_link", "lossy_link"} => f.link \in Links
    BY <2>2, HeapStaysTyped
  <2>5. profile' \in Profiles /\ schedule' \in Schedules /\ suppressed' \in Masks
    BY <2>1 DEF Typed, TypeOK, settings
  <2> QED
    BY <2>1, <2>3, <2>4, <2>5 DEF Typed, TypeOK, Linked, NetworkTyped, Names
<1>2. CASE \E a, b \in Nodes : a # b /\ Send(a, b)
  <2>1. PICK a \in Nodes, b \in Nodes : a # b /\ Send(a, b)
    BY <1>2
  <2>2. Sends /\ seq' \in Nat
    BY <2>1, SendSends
  <2>3. /\ Balanced' /\ stats' \in [Names -> Nat] /\ heap' \subseteq Events
        /\ \A f \in heap' : f \in heap \/ f.kind = "delivery"
    BY <2>2, SendBalances
  <2>4. UNCHANGED <<settings, now, network, ordinal>>
    BY <2>1 DEF Send
  <2> QED
    BY <2>2, <2>3, <2>4 DEF Typed, TypeOK, Linked, Names, settings, network
<1>3. CASE UNCHANGED vars
  <2>1. Typed'
    BY <1>3 DEF vars, settings, network, Typed, TypeOK, Linked
  <2>2. Balanced'
    BY <1>3 DEF vars, Balanced, MessagesCounted, Pending
  <2> QED
    BY <2>1, <2>2
<1> QED
  BY <1>1, <1>2, <1>3 DEF Next

LEMMA InitTyped == Init => Typed /\ Balanced
<1> SUFFICES ASSUME Init PROVE Typed /\ Balanced
  OBVIOUS
<1> DEFINE tick == [at |-> Interval, seq |-> 0, kind |-> "tick", node |-> 0,
                    link |-> {}, duration |-> 1]
<1>1. /\ schedule \in Seq(Patterns) /\ DOMAIN schedule = 1 .. Len(schedule)
      /\ \A i \in DOMAIN schedule : schedule[i] \in Patterns
  BY FaultsAssumption DEF Init
<1>2. heap \subseteq {tick} \cup Injections(schedule)
  BY DEF Init
<1>3. tick \in Events /\ tick.kind = "tick"
  BY FaultsAssumption DEF Events, Nodes
<1> HIDE DEF tick
<1>4. HeapOK /\ \A e \in heap : e.kind = "tick" \/ e.kind \in Kinds
  BY InitHeap
<1>5. ASSUME NEW e \in heap
      PROVE  e \in Events /\ (e.kind \in {"flapping_link", "lossy_link"} => e.link \in Links)
  <2>1. CASE e = tick
    BY <1>3, <2>1
  <2>2. CASE e \in Injections(schedule)
    <3>1. PICK i \in DOMAIN schedule :
            e \in {Injected(schedule[i], i, c) : c \in Cycles(schedule[i])}
      BY <2>2 DEF Injections
    <3>2. PICK c \in Cycles(schedule[i]) : e = Injected(schedule[i], i, c)
      BY <3>1
    <3>3. EventOK(e)
      BY <1>4 DEF HeapOK
    <3>4. /\ schedule[i].kind \in Kinds /\ schedule[i].node \in Nodes
          /\ schedule[i].link \in Links \cup {{}}
          /\ schedule[i].kind \in {"flapping_link", "lossy_link"} => schedule[i].link \in Links
      BY <1>1 DEF Patterns
    <3>5. e = [at |-> e.at, seq |-> e.seq, kind |-> schedule[i].kind,
               node |-> schedule[i].node, link |-> schedule[i].link, duration |-> e.duration]
      BY <3>2 DEF Injected
    <3>6. e \in Events
      BY <3>3, <3>4, <3>5 DEF Events, EventOK
    <3> QED
      BY <3>4, <3>5, <3>6
  <2> QED
    BY <1>2, <2>1, <2>2
<1>6. Typed
  <2>1. now = 0 /\ seq \in Nat /\ ordinal = 0
    BY <1>4 DEF HeapOK, Init
  <2>2. side = {} /\ crashed = {} /\ downLinks = {} /\ lossyLinks = {}
    BY DEF Init
  <2>3. stats \in [Names -> Nat]
    BY DEF Init, Names
  <2>4. profile \in Profiles /\ schedule \in Schedules /\ suppressed \in Masks
    BY DEF Init
  <2> QED
    BY <1>5, <2>1, <2>2, <2>3, <2>4 DEF Typed, TypeOK, Linked, Names
<1>7. Balanced
  <2>1. Pending("delivery") = {}
    BY <1>4 DEF Pending, Kinds
  <2>2. stats = [sent |-> 0, delivered |-> 0, dropped |-> 0, duplicated |-> 0]
    BY DEF Init
  <2> QED
    BY <2>1, <2>2, FS_EmptySet DEF Balanced, MessagesCounted
<1> QED
  BY <1>6, <1>7

\* Every event that is ever in the heap is one the handlers know, and the faults
\* in force are of servers and links that exist.
THEOREM FaultsStayTyped == Spec => []TypeOK
<1>1. Typed => TypeOK
  BY DEF Typed
<1> QED
  BY <1>1, InitOK, InitTyped, NextKeepsRecovery, NextKeepsBalance, PTL DEF Spec

\* Every message sent, and every copy the network made of one, has been delivered,
\* has been dropped, or is on its way, however it is delayed and whatever befalls
\* its link and its receiver (Simulator.send and _delivery).
THEOREM MessagesStayCounted == Spec => []MessagesCounted
<1>1. Balanced => MessagesCounted
  BY DEF Balanced
<1> QED
  BY <1>1, InitOK, InitTyped, NextKeepsRecovery, NextKeepsBalance, PTL DEF Spec
=============================================================================

------------------------------- MODULE Oracle -------------------------------
(***************************************************************************)
(* The linearizability oracle of deterministic_raft/linearizability.py:    *)
(* check, a depth-first search with an explicit stack, a table of dead     *)
(* ends and a budget.  One step is one turn of its loop.                   *)
(***************************************************************************)
EXTENDS KVStateMachine, FiniteSets

CONSTANT Budget         \* check's budget; max_ops is left at None

ASSUME OracleAssumption == Budget \in Nat

VARIABLES
    ops,                \* the completed operations being ordered
    stack,              \* frames [store, pending, left, path]
    memo,               \* <<store, pending>> pairs explored
    explored,
    verdict             \* "none" before the check, "searching", then the result

oracleVars == <<ops, stack, memo, explored, verdict>>

Verdicts == {"none", "searching", "linearizable", "illegal", "undetermined"}

-----------------------------------------------------------------------------
\* a returned before b was invoked.
Precedes(a, b) == a.returned < b.invoked

\* _apply: the sequential store the answers are compared with, a definition of
\* its own beside the state machine's.
RefTakes(store, o) ==
    o.op = "put" \/ (o.op = "cas" /\ store[o.key] = o.expected)

RefStore(store, o) ==
    IF RefTakes(store, o) THEN [store EXCEPT ![o.key] = o.value] ELSE store

RefResult(store, o) ==
    CASE o.op = "get" -> store[o.key]
      [] o.op # "get" /\ RefTakes(store, o) -> "ok"
      [] o.op # "get" /\ ~RefTakes(store, o) -> "fail"

\* DEFECT: any pending operation may come next.
MinimalAll(rows, pending) == pending

\* minimal: pending operations that no other pending one must precede.
Minimal(rows, pending) ==
    {i \in pending : \A j \in pending \ {i} : rows[i].invoked <= rows[j].returned}

Frame(rows, store, pending, path) ==
    [store |-> store, pending |-> pending, left |-> Minimal(rows, pending),
     path |-> path]

\* i is the next candidate of a frame: candidates keep the order of ops.
IsNextOf(i, left) == i \in left /\ \A j \in left : i <= j

-----------------------------------------------------------------------------
\* DEFECT: dead ends are told apart by what is left to place alone.
MemoKeyPending(store, pending) == pending

MemoKey(store, pending) == <<store, pending>>

\* The rows that have returned, in their order.
Completions(rows) ==
    FoldLeft(LAMBDA acc, row : IF row.returned # 0 THEN Append(acc, row) ELSE acc, <<>>, rows)

\* check(rows): rows come in the order of invocation, so sorting keeps them.
Start(rows) ==
    LET completed == Completions(rows)
    IN /\ verdict = "none"
       /\ ops' = completed
       /\ IF completed = <<>>
          THEN /\ verdict' = "linearizable"
               /\ UNCHANGED stack
          ELSE /\ verdict' = "searching"
               /\ stack' = <<Frame(completed, EmptyStore, DOMAIN completed, <<>>)>>
       /\ UNCHANGED <<memo, explored>>

Top == stack[Len(stack)]

\* The top frame is done with its candidate i.
Advanced(i) == [stack EXCEPT ![Len(stack)].left = @ \ {i}]

\* Everything is placed.
Accept ==
    /\ Top.pending = {}
    /\ verdict' = "linearizable"
    /\ UNCHANGED <<ops, stack, memo, explored>>

\* DEFECT: the loop does not end with an empty stack.
BacktrackOn ==
    /\ Top.pending # {}
    /\ Top.left = {}
    /\ stack' = SubSeq(stack, 1, Len(stack) - 1)
    /\ UNCHANGED <<ops, memo, explored, verdict>>

\* No candidate is left: back to the frame below, if there is one.
Backtrack ==
    /\ Top.pending # {}
    /\ Top.left = {}
    /\ stack' = SubSeq(stack, 1, Len(stack) - 1)
    /\ verdict' = IF Len(stack) = 1 THEN "illegal" ELSE verdict
    /\ UNCHANGED <<ops, memo, explored>>

\* The candidate's answer is not what the store gives.
Mismatch(i) ==
    /\ RefResult(Top.store, ops[i].o) # ops[i].observed
    /\ stack' = Advanced(i)
    /\ UNCHANGED <<ops, memo, explored, verdict>>

\* The candidate's answer fits, but the place it leads to is explored.
DeadEnd(i) ==
    /\ RefResult(Top.store, ops[i].o) = ops[i].observed
    /\ MemoKey(RefStore(Top.store, ops[i].o), Top.pending \ {i}) \in memo
    /\ stack' = Advanced(i)
    /\ UNCHANGED <<ops, memo, explored, verdict>>

\* The candidate is placed, unless that is one too many for the budget.
Place(i) ==
    LET store == RefStore(Top.store, ops[i].o)
        pending == Top.pending \ {i}
    IN /\ RefResult(Top.store, ops[i].o) = ops[i].observed
       /\ MemoKey(store, pending) \notin memo
       /\ memo' = memo \cup {MemoKey(store, pending)}
       /\ explored' = explored + 1
       /\ \/ /\ explored + 1 > Budget
             /\ verdict' = "undetermined"
             /\ stack' = Advanced(i)
          \/ /\ explored + 1 <= Budget
             /\ stack' = Append(Advanced(i), Frame(ops, store, pending, Append(Top.path, i)))
             /\ UNCHANGED verdict
       /\ UNCHANGED ops

Search ==
    /\ verdict = "searching"
    /\ \/ Accept
       \/ Backtrack
       \/ \E i \in Top.left : IsNextOf(i, Top.left) /\ (Mismatch(i) \/ DeadEnd(i) \/ Place(i))

OracleInit ==
    /\ ops = <<>>
    /\ stack = <<>>
    /\ memo = {}
    /\ explored = 0
    /\ verdict = "none"

-----------------------------------------------------------------------------
\* Every variable has its type; a search always has a frame to go on with
\* (check's local variables).
OracleTypeOK ==
    /\ ops \in Seq([client : Clients, req : Nat \ {0}, o : Operations,
                    invoked : Nat \ {0}, returned : Nat, observed : Results])
    /\ stack \in Seq([store : Stores, pending : SUBSET DOMAIN ops,
                      left : SUBSET DOMAIN ops, path : Seq(DOMAIN ops)])
    /\ explored \in Nat
    /\ verdict \in Verdicts
    /\ verdict = "searching" => stack # <<>>

\* A linearization of rows: a total order of them that keeps every row behind
\* those that returned before it was invoked, and in which every answer is what
\* the state machine of KVStateMachine gives.
Linearizable(rows) ==
    \E order \in SetToSeqs(DOMAIN rows) :
      /\ \A a, b \in DOMAIN order :
           a < b => ~Precedes(rows[order[b]], rows[order[a]])
      /\ FoldLeft(LAMBDA acc, i :
                    LET done == Execute(acc.store, rows[i].o)
                    IN [store |-> done.store,
                        legal |-> acc.legal /\ done.result = rows[i].observed],
                  [store |-> EmptyStore, legal |-> TRUE], order).legal

\* order is a linearization of ops: it has each of them once, and nothing comes
\* before what returned before it was invoked; run, the stores on the way from the
\* empty one, gives every answer that was observed.
Witness(order, run) ==
    /\ DOMAIN ops = {order[a] : a \in DOMAIN order}
    /\ \A a, b \in DOMAIN order :
         a < b => /\ order[a] # order[b]
                  /\ ops[order[a]].invoked <= ops[order[b]].returned
    /\ run[1] = EmptyStore
    /\ \A a \in DOMAIN order :
         /\ RefResult(run[a], ops[order[a]].o) = ops[order[a]].observed
         /\ run[a + 1] = RefStore(run[a], ops[order[a]].o)

\* The ordering check returns with "linearizable" is a linearization, and the
\* stack holds its run (LinearizabilityResult.linearization).
WitnessLegal ==
    verdict = "linearizable" /\ ops # <<>> =>
      Witness(Top.path, [j \in DOMAIN stack |-> stack[j].store])

\* The verdict is right: "linearizable" and "illegal" are said of exactly the
\* histories that are, whatever dead ends were remembered on the way; a search
\* out of budget says neither (check).
VerdictExact ==
    /\ verdict = "linearizable" => Linearizable(ops)
    /\ verdict = "illegal" => ~Linearizable(ops)
=============================================================================

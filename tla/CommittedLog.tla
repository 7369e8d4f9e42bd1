---------------------------- MODULE CommittedLog ----------------------------
(***************************************************************************)
(* What the servers of RaftNode promise together: one log of commands that *)
(* only grows, of which every server's state machine has been fed a        *)
(* prefix.  Who leads, what is uncommitted, truncated, compacted or on its *)
(* way are not part of it.                                                 *)
(***************************************************************************)
EXTENDS Naturals, Sequences, SequencesExt

CONSTANT Nodes

VARIABLES
    history,    \* the commands committed so far, in order
    fed         \* per server, the commands its state machine was fed

vars == <<history, fed>>

FirstOnes(k) == SubSeq(history, 1, k)

\* A server decides commands nobody had seen decided and is fed them at once.
Commit(n) ==
    /\ IsStrictPrefix(history, history')
    /\ fed' = [fed EXCEPT ![n] = history']

\* A server learns what others have decided, command by command or wholesale
\* from a snapshot.
CatchUp(n) ==
    \E k \in Len(fed[n]) + 1 .. Len(history) :
      /\ fed' = [fed EXCEPT ![n] = FirstOnes(k)]
      /\ UNCHANGED history

\* A crashed server starts again from what it had compacted.
Restart(n) ==
    \E k \in 0 .. Len(fed[n]) :
      /\ fed' = [fed EXCEPT ![n] = FirstOnes(k)]
      /\ UNCHANGED history

Init ==
    /\ history = <<>>
    /\ fed = [n \in Nodes |-> <<>>]

Next == \E n \in Nodes : Commit(n) \/ CatchUp(n) \/ Restart(n)

Spec == Init /\ [][Next]_vars
=============================================================================

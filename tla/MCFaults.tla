------------------------------ MODULE MCFaults ------------------------------
(***************************************************************************)
(* Small instances of Faults for TLC.                                      *)
(***************************************************************************)
EXTENDS Faults

Pattern(kind, node, link, at, duration, cycles) ==
    [kind |-> kind, node |-> node, link |-> link, at |-> at, duration |-> duration,
     cycles |-> cycles]

\* Two partitions that overlap; a link that flaps while it is lossy; a server that
\* is crashed again while it is down, and another; and nothing.
Overlapping ==
    {<<Pattern("partition_halves", 0, {}, 1, 3, 1), Pattern("isolate_leader", 0, {}, 2, 4, 1)>>,
     <<Pattern("flapping_link", 0, {0, 1}, 1, 1, 2), Pattern("lossy_link", 0, {0, 1}, 2, 3, 1)>>,
     <<Pattern("crash_node", 0, {}, 1, 3, 1), Pattern("crash_node", 0, {}, 2, 4, 1),
       Pattern("crash_node", 1, {}, 2, 1, 1)>>,
     <<>>}
=============================================================================

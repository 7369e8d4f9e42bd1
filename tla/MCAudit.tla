------------------------------ MODULE MCAudit ------------------------------
(***************************************************************************)
(* A small instance of Audit for TLC.                                       *)
(***************************************************************************)
EXTENDS Audit

CONSTANTS k, v, w, c1, c2, n1, n2

\* Two ways to write one key, to read it and to swap its value.
OneKey ==
    {[op |-> "put", key |-> k, value |-> v, expected |-> Absent],
     [op |-> "put", key |-> k, value |-> w, expected |-> Absent],
     [op |-> "get", key |-> k, value |-> Absent, expected |-> Absent],
     [op |-> "cas", key |-> k, value |-> w, expected |-> v]}

\* Servers are alike, and so are clients.
Symmetry == Permutations(Nodes) \cup Permutations(Clients)
=============================================================================

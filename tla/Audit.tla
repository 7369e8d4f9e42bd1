------------------------------- MODULE Audit -------------------------------
(***************************************************************************)
(* A run of the service and then the oracle's check of its history, as     *)
(* tests and the command line put them together.                           *)
(***************************************************************************)
EXTENDS Service, Oracle

vars == <<serviceVars, oracleVars>>

\* The run ends, at whatever step, and only its history is kept.
StopAndCheck ==
    /\ decided' = <<>>
    /\ position' = [n \in Nodes |-> 0]
    /\ image' = [n \in Nodes |-> EmptyImage]
    /\ snapshot' = [n \in Nodes |-> [index |-> 0, image |-> EmptyImage]]
    /\ reads' = {}
    /\ crashes' = 0
    /\ UNCHANGED <<mode, history>>
    /\ Start(history)

Init == ServiceInit /\ OracleInit

Next ==
    \/ verdict = "none" /\ ServiceNext /\ UNCHANGED oracleVars
    \/ StopAndCheck
    \/ Search /\ UNCHANGED serviceVars

Spec == Init /\ [][Next]_vars

-----------------------------------------------------------------------------
TypeOK ==
    /\ ServiceTypeOK
    /\ OracleTypeOK

\* What clients see of a run without seeded bugs is linearizable, whether reads
\* travel through the log or are confirmed by ReadIndex, however retries,
\* crashes, snapshots and lagging servers interleave: the oracle finds nothing
\* (README: "the history clients observe is linearizable").
CorrectRunsPass == mode # "stale" => verdict # "illegal"
=============================================================================

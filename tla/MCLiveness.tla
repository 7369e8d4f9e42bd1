----------------------------- MODULE MCLiveness -----------------------------
(***************************************************************************)
(* Small instances of RaftLiveness for TLC.                                *)
(***************************************************************************)
EXTENDS RaftLiveness

CONSTANTS n1, n2, n3, c1

\* n1 leads term 1 and n2 may take over in term 2.
Handover == {<<n1, 1>>, <<n2, 2>>}

\* Nothing is cut off, or n3 is until term 2.
Connected == Nodes \X Nodes \X (1 .. 2)
Healed == ({n1, n2} \X {n1, n2} \X {1}) \cup (Nodes \X Nodes \X {2})
=============================================================================

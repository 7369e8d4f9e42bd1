------------------------------- MODULE MCRaft -------------------------------
(***************************************************************************)
(* Small instances of RaftSafety for TLC.                                  *)
(***************************************************************************)
EXTENDS RaftSafety

CONSTANTS n1, n2, n3, n4, c1, c2

\* The servers of S talk to one another in term t.
Side(S, t) == S \X S \X {t}

-----------------------------------------------------------------------------
\* n1 leads term 1, then n2 may take over in term 2.
Handover == {<<n1, 1>>, <<n2, 2>>}

\* n1 leads term 1 with n2, then n2 leads term 2 with n3; in Deposed n1 still
\* hears from the new leader.
Lagging == Side({n1, n2}, 1) \cup Side({n2, n3}, 2)
Deposed == Lagging \cup {<<n2, n1, 2>>}

\* n1 may campaign again, alone if the others are voted out, while n2 does;
\* only n3 hears both.
Contested == Handover \cup {<<n1, 2>>}
ContestedLinks == Deposed \cup {<<n1, n3, 2>>, <<n3, n1, 2>>}

\* Figure 8 of the Raft paper: n1 and n3 lead in turn, seen only by n2.
Figure8 == {<<n1, 1>>, <<n3, 1>>, <<n3, 2>>, <<n1, 3>>, <<n3, 4>>}
Figure8Links ==
    Side({n1, n2}, 1) \cup Side({n2, n3}, 2) \cup Side({n1, n2}, 3)
    \cup Side({n2, n3}, 4) \cup {<<n2, n1, 2>>, <<n2, n3, 3>>}

\* The raft-dev scenario of May 2015: n1 and n2 each remove the other from the
\* four servers that elected them, then n1 comes back.
May2015 == {<<n1, 1>>, <<n2, 2>>, <<n1, 3>>}
May2015Links ==
    Side({n1, n2}, 1) \cup Side({n1, n3}, 1)
    \cup Side({n2, n3}, 2) \cup Side({n2, n4}, 2) \cup {<<n2, n1, 2>>}
    \cup Side({n1, n4}, 3)

-----------------------------------------------------------------------------
\* Which requests are reads.
SecondClientReads == {c2} \X (1 .. 2)

\* Configurations asked for.
Shrinking == {{n1}, {n1, n2}}
Removals == {{n1, n3, n4}, {n2, n3, n4}}
=============================================================================

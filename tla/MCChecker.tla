----------------------------- MODULE MCChecker -----------------------------
(***************************************************************************)
(* A small instance of Checker for TLC.                                    *)
(***************************************************************************)
EXTENDS Checker

CONSTANTS a, b

\* Two commands in the first term, one in the second.
TwoTerms == {[term |-> 1, command |-> a], [term |-> 1, command |-> b],
             [term |-> 2, command |-> b]}
=============================================================================

-------------------------- MODULE MCSharedVariables --------------------------
(* Small instances of SharedVariables for TLC.                              *)
EXTENDS SharedVariables, TLC

CONSTANTS p1, p2, a, b, short, long

MCLength == [v \in Val |-> IF v = short THEN 1 ELSE 2]

\* For safety: no process and no key is told from another.
MCSymmetry == Permutations({p1, p2}) \cup Permutations({a, b})
=============================================================================

---------------------------- MODULE MCThreadPool ----------------------------
(* Small pools for TLC: who calls and what is submitted are model values. *)
EXTENDS ThreadPoolProperties, TLC

\* Callers are interchangeable, and so are tasks; workers are ordered by slot.
Symmetry == Permutations(Producers) \cup Permutations(Tasks)
=============================================================================

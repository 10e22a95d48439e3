----------------------------- MODULE MCSimpleDb -----------------------------
(* SimpleDb for TLC: the threads that save are interchangeable.            *)
EXTENDS SimpleDb, TLC

Symmetry == Permutations(Threads)
=============================================================================

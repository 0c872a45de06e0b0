------------------------------ MODULE MCRwLock ------------------------------
(* RwLock instantiated for TLC: three threads as model values.             *)
EXTENDS RwLock, TLC

CONSTANTS t1, t2, t3

MCThreads == {t1, t2, t3}

\* Threads are interchangeable: permuting them maps behaviours to behaviours.
MCSymmetry == Permutations(MCThreads)

=============================================================================

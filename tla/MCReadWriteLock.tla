-------------------------- MODULE MCReadWriteLock --------------------------
(* ReadWriteLock for TLC: threads are interchangeable where no liveness    *)
(* property is checked.                                                    *)
EXTENDS ReadWriteLock, TLC

Symmetry == Permutations(Threads)
=============================================================================

---------------------------- MODULE MCReaderPool ----------------------------
(* The pool of readers, for TLC.                                           *)
EXTENDS ReaderPool, TLC

Symmetry == Permutations(Threads)
=============================================================================

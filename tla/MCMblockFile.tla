---------------------------- MODULE MCMblockFile ----------------------------
(***************************************************************************)
(* Model-checking instance of MblockFile.  Two threads race on three       *)
(* blocks; UniqDelta is 2 instead of 1024 so that the header is rewritten *)
(* within a few allocations, and two crashes let one reload follow        *)
(* another.                                                               *)
(***************************************************************************)
EXTENDS MblockFile, TLC

CONSTANTS t1, t2

MCThreads == {t1, t2}

\* Threads are interchangeable: no property names one.
Symm == Permutations(MCThreads)
=============================================================================

----------------------------- MODULE MCPerfcSet -----------------------------
EXTENDS PerfcSet, TLC

CONSTANTS h1, h2, h3

MCHandles2 == {h1, h2}
MCHandles3 == {h1, h2, h3}
Symm       == Permutations(MCHandles3)

\* Counter names as perfc_ctr_name2type parses them: a basic and a rate
\* counter of family F1 at levels 1 and 2, a basic counter of family F2,
\* and a name that does not parse.
F1L1 == [type |-> "BA", family |-> "F1", level |-> 1]
F1L2 == [type |-> "RA", family |-> "F1", level |-> 2]
F2L1 == [type |-> "BA", family |-> "F2", level |-> 1]
Bad  == [type |-> "INVAL", family |-> "F1", level |-> 1]

\* No counters (ctrc < 1), sets of one counter, two counters of one family
\* in either order, and two counters of different families.
MCCtrVecs ==
    {<<>>, <<F1L1>>, <<F1L2>>, <<F2L1>>, <<Bad>>,
     <<F1L1, F1L2>>, <<F1L2, F1L1>>, <<F1L1, F2L1>>}
=============================================================================

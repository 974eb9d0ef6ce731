----------------------------- MODULE MCPerfcDis -----------------------------
EXTENDS PerfcDis, TLC

CONSTANTS r1, r2

MCOneRecorder  == {r1}
MCTwoRecorders == {r1, r2}
Symm           == Permutations(MCTwoRecorders)
=============================================================================

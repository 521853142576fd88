---------------------------- MODULE MCMcpRuntime ----------------------------
EXTENDS McpRuntime, TLC

Symmetry == Permutations(Procs)
=============================================================================

--------------------------- MODULE MCRunLifecycle ---------------------------
EXTENDS RunLifecycle, TLC
CONSTANTS r1, r2

\* Runs differ in nothing but their names.
Symmetry == Permutations(Runs)

\* Once every Run is gone nothing of interest happens to the Environment.
SharedSpec == Init /\ [][Next /\ \E r \in Runs : run[r].exists]_vars
=============================================================================

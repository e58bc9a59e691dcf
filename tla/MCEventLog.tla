----------------------------- MODULE MCEventLog -----------------------------
EXTENDS EventLog, TLC
CONSTANTS e1, e2, e3, environment, thread
Symmetric == Permutations({e1, e2, e3}) \cup Permutations({environment, thread})
=============================================================================

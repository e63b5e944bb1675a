---------------------------- MODULE MCLocalModel -----------------------------
EXTENDS LocalModel
CONSTANTS loop, v1, v2, m1, m2
MCWorkers == {v1, v2}
MCModels == {m1, m2}
=============================================================================

--------------------------- MODULE MCPoolRequests ---------------------------
EXTENDS PoolRequests, TLC
CONSTANTS t1, t2
MCAsks == {[kind |-> k] : k \in {"pause", "resume", "stop"}}
            \cup {[kind |-> "speed", speed |-> v] : v \in {4, Normal, 16, NoDouble}}
MCGarbage == {0, 16}
MCBuilders == Pool \cup {Main}
MCPool == {t1, t2}
PoolSymmetry == Permutations(MCPool)
=============================================================================

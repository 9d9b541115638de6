---------------------------- MODULE MCThreadPool ----------------------------
EXTENDS ThreadPool
MCWorkers == {"w1", "w2"}
MCCallers == {"handler", "other"}
MCTasks == {"k1", "k2", "k3", "k4"}
=============================================================================

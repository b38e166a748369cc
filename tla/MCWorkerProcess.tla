--------------------------- MODULE MCWorkerProcess --------------------------
EXTENDS WorkerProcess, TLC

CONSTANTS j1, j2, j3
=============================================================================

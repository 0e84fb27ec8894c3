---------------------------- MODULE MCTaskStore -----------------------------
EXTENDS TaskStore
=============================================================================

------------------------- MODULE MCCondVarSemaphore -------------------------
EXTENDS CondVarSemaphore
=============================================================================

----------------------------- MODULE MCWatchdog -----------------------------
EXTENDS WatchdogClients

MCAmounts == {1, 2}
=============================================================================

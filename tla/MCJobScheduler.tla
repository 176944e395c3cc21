--------------------------- MODULE MCJobScheduler ---------------------------
EXTENDS JobSchedulerInvariant

\* The OpenCL devices take two chunks at a time and the CPU one.
MCMaxChunks == [c \in Coordinators |-> IF c = Cpu THEN 1 ELSE 2]
=============================================================================

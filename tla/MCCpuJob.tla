------------------------------- MODULE MCCpuJob -------------------------------
EXTENDS CpuJob

MCChunkSizes == {1, 4}

MCBufferSizes == {9, 27}
=============================================================================

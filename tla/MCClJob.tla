------------------------------- MODULE MCClJob -------------------------------
EXTENDS ClJob

\* One chunk to six, or the bytes of a small file in one pass or two.
MCHostBytes == {4, 8, 12, 16, 24}

MCFirstChunks == {0, 3}
=============================================================================

-------------------------- MODULE FileChunkHandler --------------------------
(***************************************************************************)
(* FileChunkHandler.h: the cursor that cuts the input file into chunks and  *)
(* hands out the next few of them.  Chunks are numbered from 0; a range     *)
(* has an inclusive first and an exclusive last index.                      *)
(* Only the thread in JobScheduler::run reads or moves the cursor.          *)
(***************************************************************************)
EXTENDS Naturals

CONSTANT ChunkCount   \* whole chunks in the file; 0 when the file is empty

ASSUME ChunkCountAssumption == ChunkCount \in Nat

VARIABLE nextChunkIdx

ChunkHandlerTypeOK == nextChunkIdx \in 0..ChunkCount

ChunkHandlerInit == nextChunkIdx = 0

AllChunksProcessed == nextChunkIdx = ChunkCount

\* Mutant: the number of chunks is not clamped at the end of the file.
RequestedChunks(n) == n

\* The range GetNextNChunks(n) returns, and the cursor after the call.
ActualChunksAdded(n) ==
    IF nextChunkIdx + n > ChunkCount THEN ChunkCount - nextChunkIdx ELSE n

NextChunkRange(n) ==
    [first |-> nextChunkIdx, last |-> nextChunkIdx + ActualChunksAdded(n)]

GetNextNChunks(n) == nextChunkIdx' = nextChunkIdx + ActualChunksAdded(n)

\* The chunk indices of a range (or of a job, which carries a range).
Chunks(range) == range.first .. (range.last - 1)
=============================================================================

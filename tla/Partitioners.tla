---------------------------- MODULE Partitioners -----------------------------
(***************************************************************************)
(* The two ways of cutting a file for the threads, one after the other on  *)
(* the same file: piece after piece in memory (loadBoundedInputStream and  *)
(* partitionInputStream), and while it is read (partitionFile).            *)
(***************************************************************************)
EXTENDS StreamPartition

VARIABLES position, ch, fileChunk, fileSize, fileChunks, filePhase

fileVars == <<position, ch, fileChunk, fileSize, fileChunks, filePhase>>

FromFile == INSTANCE FilePartition WITH
  chunk <- fileChunk, sum_size <- fileSize, stream <- fileChunks, phase <- filePhase

Through == phase \in {"end", "overrun"}

InMemory == Next /\ UNCHANGED fileVars

FromDisk ==
  /\ Through
  /\ file # <<>>
  /\ FromFile!Next
  /\ UNCHANGED <<start_pos, stream, sum_size, chunk, chunks, given, phase>>

BothInit == Init /\ FromFile!Begin

BothNext == InMemory \/ FromDisk

BothVars == <<vars, fileVars>>

BothSpec == BothInit /\ [][BothNext]_BothVars /\ WF_BothVars(BothNext)
-----------------------------------------------------------------------------
(* Both come to an end: every piece moves start_pos forward, whatever extension
   it needs, and every search that finds no boundary finds the end. *)
BothEnd == <>(Through /\ (filePhase = "end" \/ file = <<>>))

ChunksAreFile == FromFile!ChunksAreFile

(* partitionFile cuts a file where partitionInputStream cuts the same text in
   memory, although one keeps the quote it has read too far and the other looks
   ahead: a file that fits into one piece has the same chunks on both ways. *)
BothCutAlike ==
  filePhase = "end" /\ phase = "end" /\ StartsWithText /\ Len(stream) = Len(file)
    => FromFile!Stored = chunks
=============================================================================

---------------------------- MODULE FilePartition ----------------------------
(***************************************************************************)
(* partitionFile (file_partition.c): a file is cut into at most num_core   *)
(* chunks while it is read.                                                *)
(*                                                                         *)
(*   position   how many characters of the file were read                  *)
(*   ch         the character read last: the quote in front of which a     *)
(*              chunk ends belongs to the next one                         *)
(*   chunk, sum_size    stream[i] as far as it is filled, and the size of  *)
(*              the chunks before                                          *)
(*   stream     the chunks so far; the slot of a chunk nothing was stored  *)
(*              in holds NULL                                              *)
(*   phase      where the loops are                                        *)
(***************************************************************************)
EXTENDS TokenBoundary, SequencesExt

CONSTANTS Texts,   \* the files
          Cores    \* the values of num_core

VARIABLES file, num_core, position, ch, chunk, sum_size, stream, phase

vars == <<file, num_core, position, ch, chunk, sum_size, stream, phase>>

EOF  == "EOF"
NULL == <<"NULL">>

RoundedDown == Max({1, Len(file) \div num_core})                      \* fault

chunk_size == (Len(file) \div num_core) + 1

Read(n) == SubSeq(file, position + 1, position + n)

(* ch is -1 before the first search and at the end of the file. *)
Carried == IF ch = EOF THEN <<>> ELSE <<ch>>

ReadChunk ==
  /\ phase = "read"
  /\ LET n == chunk_size - Len(Carried) IN
       /\ chunk' = Carried \o Read(n)
       /\ position' = position + n
  /\ phase' = "scan"
  /\ UNCHANGED <<file, num_core, ch, sum_size, stream>>

Upcoming == IF position < Len(file) THEN file[position + 1] ELSE EOF

ExtendChunk ==
  /\ phase = "scan"
  /\ Upcoming # EOF
  /\ ~Boundary(chunk, Upcoming)
  /\ chunk' = Append(chunk, Upcoming)
  /\ position' = position + 1
  /\ UNCHANGED <<file, num_core, ch, sum_size, stream, phase>>

Enough(size, n) == size + chunk_size >= Len(file) \/ n = num_core - 1

QuoteReadAgain == position                                           \* fault
AfterSearch == IF Upcoming = EOF THEN position ELSE position + 1

(* The search ends at a boundary or at the end of the file. *)
EndChunk ==
  /\ phase = "scan"
  /\ Upcoming = EOF \/ Boundary(chunk, Upcoming)
  /\ ch' = Upcoming
  /\ position' = AfterSearch
  /\ stream' = Append(stream, chunk)
  /\ sum_size' = sum_size + Len(chunk)
  /\ phase' = IF Enough(sum_size', Len(stream')) THEN "rest" ELSE "read"
  /\ UNCHANGED <<file, num_core, chunk>>

(* num_chunk is one more whether or not anything remains. *)
LastChunk ==
  /\ phase = "rest"
  /\ LET remain_size == Len(file) - sum_size IN
     IF remain_size > 0
       THEN /\ stream' = Append(stream, Carried \o Read(remain_size - Len(Carried)))
            /\ position' = position + remain_size - Len(Carried)
       ELSE stream' = Append(stream, NULL) /\ UNCHANGED position
  /\ phase' = "end"
  /\ UNCHANGED <<file, num_core, ch, chunk, sum_size>>

Begin ==
  /\ position = 0
  /\ ch = EOF
  /\ chunk = <<>>
  /\ sum_size = 0
  /\ stream = <<>>
  /\ phase = IF num_core = 1 THEN "rest" ELSE "read"

Init == file \in Texts /\ num_core \in Cores /\ Begin

Next == ReadChunk \/ ExtendChunk \/ EndChunk \/ LastChunk

Spec == Init /\ [][Next]_vars
-----------------------------------------------------------------------------
(***************************************************************************)
(* Properties.                                                             *)
(***************************************************************************)
(* Only the last slot may hold NULL. *)
Stored == IF Last(stream) = NULL THEN Front(stream) ELSE stream

(* The chunks are the file: the quote that ended a search is the first
   character of the next chunk, also where the search found the end of the file
   (ch, sum_size), and nothing is stored behind the num_core slots there are. *)
ChunksAreFile ==
  phase = "end" =>
    /\ FlattenSeq(Stored) = file
    /\ Len(stream) <= num_core
=============================================================================

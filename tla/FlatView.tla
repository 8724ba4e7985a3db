------------------------------ MODULE FlatView ------------------------------
(***************************************************************************)
(* The refinement mapping from the continuation list of ChunkFile to the   *)
(* flat file of FlatFile: the blocks that the linked parts hold, in the    *)
(* order of their offsets.                                                 *)
(***************************************************************************)
EXTENDS ChunkFile

\* The blocks from the start of the part in chunk k on, up to the first offset
\* that no linked part stores; a part stores no more than its len
From[k \in 1 .. NChunks + 1] ==
    IF k \notin Chunks \/ ~Linked(k) THEN <<>>
    ELSE IF Len(data[k]) < CLen THEN data[k]
    ELSE SubSeq(data[k], 1, CLen) \o From[k + 1]

Content == From[HeadPart]

\* The client has done the read or write of the task's call
Done == {t \in Tasks : pc[t] \in {"up", "sum"} /\ call[t].op \in Reads \cup Writes}

Flat == INSTANCE FlatFile WITH content <- Content, done <- Done, got <- res, None <- NoCall,
                               PartLen <- CLen, MaxLen <- NChunks * CLen

\* With one writer that writes continuously and block by block, and any number
\* of readers, the list of continuations behaves as one flat file: a write that
\* returns without an error has changed the sequence of blocks once, at one
\* instant, one that fails has not, a read returns a piece of the sequence at
\* one instant, and f_pos moves only as FlatFile says.
FlatSpec == Flat!FSpec
=============================================================================

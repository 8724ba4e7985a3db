---------------------------- MODULE MCChunkFile ----------------------------
(* Small instances of ChunkFile for TLC. *)
EXTENDS FlatView, TLC

MCIno3 == <<3, 5, 2>>
MCIno2 == <<3, 5>>

Symmetry == Permutations(Tasks)
BlockSymmetry == Permutations(Blocks)
=============================================================================

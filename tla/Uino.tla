-------------------------------- MODULE Uino --------------------------------
(***************************************************************************)
(* The unique inode numbers of chunkfs (chunkfs_i.h).  A uino packs the    *)
(* number of a chunk and the number an inode has on that chunk's client    *)
(* file system into one integer: the low 28 bits are the inode, the next   *)
(* 4 bits the chunk.  The two field sizes are constants here.              *)
(***************************************************************************)
EXTENDS Integers

CONSTANTS InoSpace,     \* how many inode numbers fit a uino  (2^28 in the code)
          ChunkSpace    \* how many chunk ids fit a uino      (2^4 in the code)

ASSUME SpaceAssumption == /\ InoSpace \in Nat \ {0}
                          /\ ChunkSpace \in Nat \ {0}

\* The shift and the masks of the macros, as arithmetic.  MAKE_UINO ORs the
\* inode into the low bits; for an inode that fits its field that is a sum.
MAKE_UINO(chunk_id, ino) == chunk_id * InoSpace + ino

UINO_TO_CHUNK_ID(uino) == (uino \div InoSpace) % ChunkSpace

UINO_TO_INO(uino) == uino % InoSpace
=============================================================================

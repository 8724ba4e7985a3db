----------------------------- MODULE UinoProofs -----------------------------
(* What packing and unpacking unique inode numbers preserves. *)
EXTENDS Uino, TLAPS

\* Quotient and remainder of c * S + i
LEMMA DivMod ==
    ASSUME NEW S \in Nat \ {0}, NEW c \in Nat, NEW i \in 0 .. S - 1
    PROVE  /\ (c * S + i) \div S = c
           /\ (c * S + i) % S = i
<1>1. c * S \in Nat /\ c * S + i \in Nat
  OBVIOUS
<1>2. (c * S + i) % S = i
  BY <1>1
<1>3. (c * S + i) \div S = c
  BY <1>1
<1>. QED
  BY <1>2, <1>3

\* The macros invert one another for a chunk id and an inode number that fit
\* their fields: no two inodes of a pool share a unique inode number, and the
\* next pointer of a continuation leads back to the chunk it was made for.
THEOREM UinoRoundTrip ==
    ASSUME NEW c \in 0 .. ChunkSpace - 1, NEW i \in 0 .. InoSpace - 1
    PROVE  /\ UINO_TO_CHUNK_ID(MAKE_UINO(c, i)) = c
           /\ UINO_TO_INO(MAKE_UINO(c, i)) = i
<1>1. InoSpace \in Nat \ {0} /\ ChunkSpace \in Nat \ {0}
  BY SpaceAssumption
<1>2. c \in Nat
  BY <1>1
<1>3. /\ MAKE_UINO(c, i) \div InoSpace = c
      /\ MAKE_UINO(c, i) % InoSpace = i
  BY <1>1, <1>2, DivMod DEF MAKE_UINO
<1>4. c % ChunkSpace = c
  BY <1>1
<1>. QED
  BY <1>3, <1>4 DEF UINO_TO_CHUNK_ID, UINO_TO_INO

\* A unique inode number is never 0, which stands for no continuation.
THEOREM UinoNotZero ==
    ASSUME NEW c \in 1 .. ChunkSpace - 1, NEW i \in 0 .. InoSpace - 1
    PROVE  MAKE_UINO(c, i) \in Nat \ {0}
<1>1. InoSpace \in Nat \ {0} /\ ChunkSpace \in Nat \ {0}
  BY SpaceAssumption
<1>2. c \in Nat \ {0} /\ i \in Nat
  BY <1>1
<1>3. c * InoSpace \in Nat \ {0}
  BY <1>1, <1>2
<1>. QED
  BY <1>2, <1>3 DEF MAKE_UINO
=============================================================================

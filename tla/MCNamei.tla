------------------------------- MODULE MCNamei -------------------------------
(* Namei for TLC: names, inode numbers and places in memory are alike.       *)
EXTENDS Namei, TLC

Symmetry == Permutations(Names) \cup Permutations(Inos) \cup
            Permutations(Dents) \cup Permutations(Objs)
=============================================================================

------------------------------ MODULE MCMount ------------------------------
(* Small instances of Mount for TLC: blocks of 2 bytes, chunks of 4. *)
EXTENDS Mount

MCSizes == 0 .. 16
=============================================================================

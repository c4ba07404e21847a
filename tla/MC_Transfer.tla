----------------------------- MODULE MC_Transfer ----------------------------
(* TLC instances of Transfer alone; MC_HandOver has those of the program. *)
EXTENDS Transfer

\* Sizes for three connections whose chunks are never empty
SizesFull == <<3, 5, 7>>
\* gbytes, which the program always leaves empty, and the material after it
SizesGbytes == <<0, 2>>
=============================================================================

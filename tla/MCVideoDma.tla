----------------------------- MODULE MCVideoDma -----------------------------
(***************************************************************************)
(* The video DMA engine for TLC: by itself, and as the queue of frames     *)
(* that it implements (VideoDmaOrder).                                     *)
(***************************************************************************)
EXTENDS VideoDmaOrder, TLC

CONSTANTS b1, b2, b3

\* The buffers are alike.
Symm == Permutations(Buffers)

\* Bound: a stream runs, and stops, with every buffer prepared, as after a
\* REQBUFS; the prepare and cleanup calls move no buffer that is in line.
AllPrepared == streaming \/ stopping => \A b \in Buffers : described[b]
=============================================================================

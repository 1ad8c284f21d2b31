---------------------------- MODULE MCSpscQueue -----------------------------
(* A ring of eight slots and a watermark of four, the ratio of the smallest *)
(* ring init() makes (512 slots and a watermark of 256).                     *)
EXTENDS SpscQueue

CONSTANTS a, b

=============================================================================

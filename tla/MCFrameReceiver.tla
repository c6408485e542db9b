-------------------------- MODULE MCFrameReceiver --------------------------
(* Three frames of different sizes; a size prefix of two bytes; recv      *)
(* returns at most three bytes, so a call can end inside a prefix, inside *)
(* a body, or take the end of one frame and the start of the next.       *)
EXTENDS FrameReceiver

MCFrameSize == <<2, 1, 3>>
=============================================================================

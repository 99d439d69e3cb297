---------------------------- MODULE MCBubbleFifo ----------------------------
(***************************************************************************)
(* BubbleFifo for TLC.  Three slots are the smallest ring in which the     *)
(* producer can be one slot and two slots ahead and both indices wrap; the *)
(* fill count is a 3-bit signed number instead of an 8-bit one, so that it *)
(* can drift to its limits.  Either a Read goes on, or the guest has       *)
(* issued a Reset FIFO and bubble_thread empties what it has pushed.       *)
(***************************************************************************)
EXTENDS BubbleFifo

MCBytes == {0, 1}
PopOnly == {"pop"}
PushAndClear == {"push", "clear"}
SizeAndRing == {"fifo_size", "ring"}
ReadOrReset == {<<"EXEC", cmdReadBubbleData>>, <<"CMD", cmdResetFifo>>}

\* No property promises anything of a torn ring: its states are not followed.
NotTorn == ~IsTorn
==============================================================================

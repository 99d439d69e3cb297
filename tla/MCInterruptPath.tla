--------------------------- MODULE MCInterruptPath ---------------------------
(***************************************************************************)
(* InterruptPath for TLC: the bubble line and one line of the main         *)
(* thread's devices, 5 (GPIB), an EOI for each, and that value & 0x03      *)
(* turns the EOI for line 5 into one for line 1.  The keyboard's line, 4,  *)
(* behaves like 5 but for the line its EOI hits.                           *)
(***************************************************************************)
EXTENDS InterruptPath

Gpib == {5}
Base32 == {32}
NoneOrGpib == {{}, {5}}
CascadedOrSingle == {[single |-> FALSE, needs4 |-> FALSE],
                     [single |-> TRUE, needs4 |-> TRUE],
                     [single |-> TRUE, needs4 |-> FALSE]}
RequestRegister == {"irr"}
BubbleAndGpib == {1, 5}
==============================================================================

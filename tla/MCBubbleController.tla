------------------------- MODULE MCBubbleController -------------------------
(***************************************************************************)
(* BubbleController for TLC: a ring of three slots (of two where the       *)
(* commands and registers are many), pages of two bytes, so that the       *)
(* shortest Read (one block of two pages) is at least twice as long as the *)
(* ring can hold, and one byte value (BubbleFifo checks the order).        *)
(***************************************************************************)
EXTENDS BubbleController

MCBytes == {0}
Reads == {<<"EXEC", cmdReadBubbleData>>}
PopOnly == {"pop"}
PushAndClear == {"push", "clear"}
Both == {"fifo_size", "regStatus"}

TransferCommands == {cmdReadBubbleData, cmdResetFifo}
TransferSelect == {0, regBlockLenLSB, regAddressLSB}
TransferWrites == [r \in 1 .. 15 |-> CASE r = regBlockLenLSB -> {1}
                                          [] r = regBlockLenMSB -> {16}
                                          [] r = regAddressLSB -> {1}
                                          [] OTHER -> {}]

PopAndPush == {"pop", "push"}
cmdReadSeek == 4  \* one that commandStart does not implement
AllKinds == {cmdInitialize, cmdReadBubbleData, cmdReadSeek, cmdSoftReset}
CommandSelect == {8, regBlockLenLSB, regAddressMSB}  \* 8: not one of the chip's
CommandWrites == [r \in 1 .. 15 |-> CASE r = regBlockLenLSB -> {1}
                                         [] r = regBlockLenMSB -> {16}
                                         [] r = regAddressMSB -> {0, 24}
                                         [] r = 8 -> {0}
                                         [] r = OnAddress -> {7, 255}
                                         [] OTHER -> {}]
AbortDuringRead == {cmdReadBubbleData, cmdAbort}
==============================================================================

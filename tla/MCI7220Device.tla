----------------------------- MODULE MCI7220Device -----------------------------
(***************************************************************************)
(* One bubble module of five pages of two bytes and a FIFO of three: a page *)
(* fits and two do not, as with 32 and 40, and a block of two pages may     *)
(* leave the image with its second.  The guest selects the block length     *)
(* register, writes the parameters and moves on to the FIFO, or comes back  *)
(* in the middle of a command.                                              *)
(***************************************************************************)
EXTENDS I7220Device

Blank == [p \in 0 .. 4 |-> <<p, p>>]
Setup(blrL, blrM, arL, arM) ==
  [r \in 1 .. 15 |-> CASE r = R_BLR_L -> blrL [] r = R_BLR_M -> blrM
                       [] r = R_AR_L -> arL   [] r = R_AR_M -> arM [] OTHER -> 0]
Parameters == {Setup(1, 16, 0, 0), Setup(1, 16, 2, 0), Setup(0, 16, 0, 0),
               Setup(1, 0, 0, 0), Setup(1, 16, 0, 8)}
Numbered(commands, bytes) == {10 * commands + bytes}
Values == [r \in 1 .. 15 |-> IF r = R_AR_L THEN {0, 1} ELSE {0}]
=============================================================================

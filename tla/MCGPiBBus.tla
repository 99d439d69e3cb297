------------------------------ MODULE MCGPiBBus ------------------------------
(***************************************************************************)
(* GPiBBus for TLC: a table of three slots, which fills up, two status     *)
(* lines and one data line, and receivers that write from inside a notify  *)
(* that is itself inside a notify.                                         *)
(***************************************************************************)
EXTENDS GPiBBus

AtnAndSrq == {"ATN", "SRQ"}
DIO1 == {"DIO1"}
==============================================================================

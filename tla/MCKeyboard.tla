------------------------------ MODULE MCKeyboard ------------------------------
(***************************************************************************)
(* Keyboard for TLC: one letter, both CTRL keys, one SHIFT key and F1; the *)
(* watchdog counts modulo 3 instead of 256, so that it wraps.              *)
(***************************************************************************)
EXTENDS Keyboard

Letter == {"A"}
CtrlAndShift == {"LCTRL", "RCTRL", "LSHIFT"}
F1 == {"F1"}
ZeroOrTwo == {0, 2}
==============================================================================

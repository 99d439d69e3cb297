--------------------------------- MODULE Rtc ---------------------------------
(***************************************************************************)
(* The clock registers of src/src/rtc.c.  The chip keeps no time: every    *)
(* read of a register asks the host for the time and picks one digit.      *)
(* A host time is a record of struct tm's fields.                          *)
(***************************************************************************)
EXTENDS Naturals

rtcBase == \hDFF40
rtcLen  == 32

\* Mutant: one address a register.
RtcRegisterBytes(addr) == addr - rtcBase

\* Two addresses a register.
RtcRegister(addr) == (addr - rtcBase) \div 2

\* (uint8_t)(tm_min - 6): before the sixth minute it wraps to 250 and more.
ShownMinute(t) == (t.min + 250) % 256

\* Seconds and days are constants; weekdays count from 1, months from 0.
RtcDigit(r, t) ==
  CASE r = 2 -> 1
    [] r = 4 -> ShownMinute(t) % 10
    [] r = 5 -> ShownMinute(t) \div 10
    [] r = 6 -> t.hour % 10
    [] r = 7 -> t.hour \div 10
    [] r = 10 -> t.wday + 1
    [] r = 11 -> t.mon % 10
    [] r = 12 -> t.mon \div 10
    [] OTHER -> 0

\* The machine's identification, 1 in each register, is or-ed into the high nibble.
BitOr16(x) == IF (x \div 16) % 2 = 1 THEN x ELSE x + 16
rtc_read(addr, t) == BitOr16(RtcDigit(RtcRegister(addr), t))
=============================================================================

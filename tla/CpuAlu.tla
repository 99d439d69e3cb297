-------------------------------- MODULE CpuAlu --------------------------------
(***************************************************************************)
(* The arithmetic of the 8086 in src/src/cpu.c: what an instruction        *)
(* computes and how it leaves the flags.  The code has each function twice, *)
(* for bytes and for words; here an operator takes the weight h of the     *)
(* sign bit (0x80 or 0x8000) as its width and works modulo 2 * h.  The     *)
(* sizes of a nibble and a byte and the base of decimal digits are         *)
(* constants, so that TLC can run on a byte of four bits and a lemma can   *)
(* speak about any width.  A flag is 0 or 1, as in CPU_t.                   *)
(***************************************************************************)
EXTENDS Integers, FiniteSets, FiniteSetsExt

CONSTANTS
  ByteSign,      \* weight of the sign bit of a byte: 0x80
  Nibble,        \* size of a nibble: 0x10
  Digits,        \* base of packed and unpacked decimals: 10
  BitWeights     \* weights of the bits of a byte: 1, 2, ..., 0x80

ASSUME CpuAluAssumption ==
  /\ ByteSign \in Nat \ {0}
  /\ Nibble \in Nat \ {0}
  /\ 2 * ByteSign = Nibble * Nibble
  /\ Digits \in 2 .. Nibble
  /\ BitWeights \subseteq 1 .. ByteSign

Byte     == 2 * ByteSign
WordSign == ByteSign * Byte
Word     == 2 * WordSign

Bit(x, weight) == (x \div weight) % 2
XorBit(x, y, z, weight) == (Bit(x, weight) + Bit(y, weight) + Bit(z, weight)) % 2
Flag(condition) == IF condition THEN 1 ELSE 0

\* signext, and the value of a word as two's complement
Signed(h, v) == IF v >= h THEN v - 2 * h ELSE v

Flags == [cf : 0 .. 1, pf : 0 .. 1, af : 0 .. 1, zf : 0 .. 1,
          sf : 0 .. 1, ifl : 0 .. 1, df : 0 .. 1, of : 0 .. 1]

-----------------------------------------------------------------------------
(* Flags *)

\* makeflagsword and decodeflagsword: bit 1 is always set, and bit 8 is TF,
\* which is off here.
MakeFlagsWord(f) ==
  2 + f.cf + 4 * f.pf + 16 * f.af + 64 * f.zf + 128 * f.sf
    + 512 * f.ifl + 1024 * f.df + 2048 * f.of
DecodeFlagsWord(w) ==
  [cf |-> w % 2, pf |-> (w \div 4) % 2, af |-> (w \div 16) % 2, zf |-> (w \div 64) % 2,
   sf |-> (w \div 128) % 2, ifl |-> (w \div 512) % 2, df |-> (w \div 1024) % 2,
   of |-> (w \div 2048) % 2]

\* The table parity[], read at the low byte: 1 when the number of ones is even.
Parity(v) == Flag(Cardinality({w \in BitWeights : Bit(v, w) = 1}) % 2 = 0)

FlagSzp(f, h, v) ==
  [f EXCEPT !.zf = Flag(v = 0), !.sf = Bit(v, h), !.pf = Parity(v % Byte)]

FlagLog(f, h, v) == [FlagSzp(f, h, v) EXCEPT !.cf = 0, !.of = 0]

\* flag_adc, and flag_add with v3 = 0: v3 is the carry that comes in.
FlagAdc(f, h, v1, v2, v3) ==
  LET dst == v1 + v2 + v3
  IN  [FlagSzp(f, h, dst % (2 * h)) EXCEPT
         !.cf = Flag(dst >= 2 * h),
         !.of = Flag(Bit(dst, h) # Bit(v1, h) /\ Bit(dst, h) # Bit(v2, h)),
         !.af = XorBit(v1, v2, dst, Nibble)]

\* Mutant: OF from the operands that would matter for an addition.
FlagSubAsAdd(f, h, v1, v2) ==
  LET dst == (v1 - v2) % (2 * h)
  IN  [FlagSzp(f, h, dst) EXCEPT
         !.cf = Flag(v1 < v2),
         !.of = Flag(Bit(dst, h) # Bit(v1, h) /\ Bit(dst, h) # Bit(v2, h)),
         !.af = XorBit(v1, v2, dst, Nibble)]

\* dst is unsigned and wider than the operands: its high part is not zero
\* exactly when v1 < v2.
FlagSub(f, h, v1, v2) ==
  LET dst == (v1 - v2) % (2 * h)
  IN  [FlagSzp(f, h, dst) EXCEPT
         !.cf = Flag(v1 < v2),
         !.of = Flag(Bit(dst, h) # Bit(v1, h) /\ Bit(v1, h) # Bit(v2, h)),
         !.af = XorBit(v1, v2, dst, Nibble)]

\* v2 += v3 is done in the width of v2 and loses the carry of a v2 of all ones.
FlagSbb(f, h, v1, v2, v3) == FlagSub(f, h, v1, (v2 + v3) % (2 * h))

-----------------------------------------------------------------------------
(* op_add .. op_sbb, the logic operations, INC and DEC: value and flags *)

OpAdd(f, h, a, b) == [v |-> (a + b) % (2 * h), f |-> FlagAdc(f, h, a, b, 0)]
OpAdc(f, h, a, b) == [v |-> (a + b + f.cf) % (2 * h), f |-> FlagAdc(f, h, a, b, f.cf)]
OpSub(f, h, a, b) == [v |-> (a - b) % (2 * h), f |-> FlagSub(f, h, a, b)]
OpSbb(f, h, a, b) == [v |-> (a - (b + f.cf)) % (2 * h), f |-> FlagSbb(f, h, a, b, f.cf)]

\* A number as the set of its bits' weights.
BitsOf(h, v) ==
  {w \in BitWeights \cup {Byte * x : x \in BitWeights} : w <= h /\ Bit(v, w) = 1}
OpLogic(f, h, bits) == [v |-> SumSet(bits), f |-> FlagLog(f, h, SumSet(bits))]
OpAnd(f, h, a, b) == OpLogic(f, h, BitsOf(h, a) \cap BitsOf(h, b))
OpOr(f, h, a, b)  == OpLogic(f, h, BitsOf(h, a) \cup BitsOf(h, b))
OpXor(f, h, a, b) == OpLogic(f, h, SymDiff(BitsOf(h, a), BitsOf(h, b)))

\* Mutant: INC sets the carry as ADD does.
OpIncCarry(f, h, a) == OpAdd(f, h, a, 1)

\* INC and DEC keep the carry.
OpInc(f, h, a) == [OpAdd(f, h, a, 1) EXCEPT !.f.cf = f.cf]
OpDec(f, h, a) == [OpSub(f, h, a, 1) EXCEPT !.f.cf = f.cf]

\* NOT leaves the flags alone; NEG sets the carry from its result.
OpNot(f, h, a) == [v |-> 2 * h - 1 - a, f |-> f]
OpNeg(f, h, a) ==
  LET v == (2 * h - a) % (2 * h)
  IN  [v |-> v, f |-> [FlagSub(f, h, 0, a) EXCEPT !.cf = Flag(v # 0)]]

-----------------------------------------------------------------------------
(* op_grp2: shifts and rotations, one bit at a time *)

\* The bit that enters, given the operand s and the carry c.
BitIn(kind, h, s, c) ==
  [rol |-> Bit(s, h), ror |-> s % 2, rcl |-> c, rcr |-> c,
   shl |-> 0, shr |-> 0, sar |-> Bit(s, h)][kind]

ShiftOnce(kind, h, x) ==
  IF kind \in {"rol", "rcl", "shl"}
  THEN [s |-> ((2 * x.s) % (2 * h)) + BitIn(kind, h, x.s, x.c), c |-> Bit(x.s, h)]
  ELSE [s |-> (x.s \div 2) + h * BitIn(kind, h, x.s, x.c), c |-> x.s % 2]

ShiftLoop(kind, h, a, c, cnt) ==
  LET x[n \in 0 .. cnt] ==
        IF n = 0 THEN [s |-> a, c |-> c] ELSE ShiftOnce(kind, h, x[n - 1])
  IN  x[cnt]

\* The overflow flag; a rotation by another count than one leaves it, except
\* the byte form of ROL.
ShiftOverflow(kind, h, a, f, cnt, x) ==
  LET one == cnt = 1
  IN  CASE kind = "rol" /\ h = ByteSign ->
             Flag(one /\ Bit(x.s, h) = 1 /\ x.c = 1)
        [] kind = "rcl" \/ (kind = "rol" /\ h # ByteSign) ->
             IF one THEN Flag(x.c # Bit(x.s, h)) ELSE f.of
        [] kind \in {"ror", "rcr"} ->
             IF one THEN Flag(Bit(x.s, h) # Bit(x.s, h \div 2)) ELSE f.of
        [] kind = "shl" -> Flag(~(one /\ x.c = Bit(x.s, h)))
        [] kind = "shr" -> Flag(one /\ Bit(a, h) = 1)
        [] kind = "sar" -> 0

OpShift(kind, h, f, a, cnt) ==
  LET x == ShiftLoop(kind, h, a, f.cf, cnt)
      g == [f EXCEPT !.cf = x.c, !.of = ShiftOverflow(kind, h, a, f, cnt, x)]
  IN  [v |-> x.s, f |-> IF kind \in {"shl", "shr", "sar"} THEN FlagSzp(g, h, x.s) ELSE g]

-----------------------------------------------------------------------------
(* op_grp3: multiplication and division.  A double operand is hi * 2h + lo: *)
(* AH and AL for a byte, DX and AX for a word.                              *)

Double(h, p) == [lo |-> p % (2 * h), hi |-> (p \div (2 * h)) % (2 * h)]

\* Both products set CF and OF when the high half is not zero, and clear ZF;
\* only MUL sets SF and PF.
FlagMul(f, hi) == [f EXCEPT !.cf = Flag(hi # 0), !.of = Flag(hi # 0), !.zf = 0]
OpMul(f, h, a, b) ==
  LET p == Double(h, a * b)
  IN  [lo |-> p.lo, hi |-> p.hi, f |-> FlagMul(FlagSzp(f, h, p.lo), p.hi)]
OpImul(f, h, a, b) ==
  LET p == Double(h, Signed(h, a) * Signed(h, b))
  IN  [lo |-> p.lo, hi |-> p.hi, f |-> FlagMul(f, p.hi)]

\* cpu_intcall(0) in place of a result
DivError == [error |-> TRUE]
Quotient(h, q, r) == [error |-> FALSE, lo |-> q % (2 * h), hi |-> r % (2 * h)]

\* Mutant: only division by zero is an error.
OpDivUnchecked(h, dividend, divisor) ==
  IF divisor = 0 THEN DivError
  ELSE Quotient(h, dividend \div divisor, dividend % divisor)

OpDiv(h, dividend, divisor) ==
  IF divisor = 0 \/ dividend \div divisor >= 2 * h THEN DivError
  ELSE Quotient(h, dividend \div divisor, dividend % divisor)

Magnitude(v) == IF v < 0 THEN -v ELSE v

\* The quotient may use all bits of the width; with operands of different
\* signs quotient and remainder are both negated.
IdivBy(h, dividend, divisor, d) ==
  LET n  == Signed(2 * h * h, dividend)
      q  == Magnitude(n) \div Magnitude(d)
      r  == Magnitude(n) % Magnitude(d)
      negative == (n < 0) # (d < 0)
  IN  IF divisor = 0 THEN DivError
      ELSE IF q >= 2 * h THEN DivError
      ELSE IF negative THEN Quotient(h, -q, -r) ELSE Quotient(h, q, r)

\* op_idiv8 takes the byte it divides by as it is, op_idiv16 extends its sign.
OpIdiv8(dividend, divisor)  == IdivBy(ByteSign, dividend, divisor, divisor)
OpIdiv16(dividend, divisor) == IdivBy(WordSign, dividend, divisor, Signed(WordSign, divisor))
OpIdiv(h, dividend, divisor) ==
  IF h = ByteSign THEN OpIdiv8(dividend, divisor) ELSE OpIdiv16(dividend, divisor)

-----------------------------------------------------------------------------
(* Decimal adjustment.  Adjust is 6, the distance from a digit's base to a  *)
(* nibble's.                                                                *)

Adjust == Nibble - Digits
LowDigitOver(al, f) == al % Nibble > Digits - 1 \/ f.af = 1

\* AAA and AAS work on AX and keep a digit in AL.
KeepDigit(ax) == (ax \div Byte) * Byte + (ax % Nibble)
OpAaa(f, ax) ==
  IF LowDigitOver(ax % Byte, f)
  THEN [v |-> KeepDigit((ax + Byte + Adjust) % Word), f |-> [f EXCEPT !.af = 1, !.cf = 1]]
  ELSE [v |-> KeepDigit(ax), f |-> [f EXCEPT !.af = 0, !.cf = 0]]
OpAas(f, ax) ==
  IF LowDigitOver(ax % Byte, f)
  THEN LET x == (ax - Adjust) % Word
       IN  [v |-> KeepDigit((x - Byte) % Word), f |-> [f EXCEPT !.af = 1, !.cf = 1]]
  ELSE [v |-> KeepDigit(ax), f |-> [f EXCEPT !.af = 0, !.cf = 0]]

\* DAA and DAS: the low digit first, then the high one.  The second step sets
\* CF from its own addition or subtraction alone.
DaaLow(f, al) ==
  IF LowDigitOver(al, f)
  THEN LET x == al + Adjust
       IN  [v |-> x % Byte,
            f |-> [f EXCEPT !.cf = IF x >= Byte THEN 1 ELSE @,
                            !.af = IF x % Nibble < al % Nibble THEN 1 ELSE @]]
  ELSE [v |-> al, f |-> f]
DasLow(f, al) ==
  IF LowDigitOver(al, f)
  THEN LET x == (al - Adjust) % Word
       IN  [v |-> x % Byte,
            f |-> [f EXCEPT !.cf = IF x >= Byte THEN 1 ELSE @,
                            !.af = IF x % Nibble >= al % Nibble THEN 1 ELSE @]]
  ELSE [v |-> al, f |-> f]
HighDigitOver(x) == x.v - (x.v % Nibble) > (Digits - 1) * Nibble \/ x.f.cf = 1

OpDaa(f, al) ==
  LET x == DaaLow(f, al)
      y == x.v + Adjust * Nibble
      r == IF HighDigitOver(x)
           THEN [v |-> y % Byte, f |-> [x.f EXCEPT !.cf = Flag(y >= Byte)]] ELSE x
  IN  [v |-> r.v, f |-> FlagSzp(r.f, ByteSign, r.v)]
OpDas(f, al) ==
  LET x == DasLow(f, al)
      y == x.v - Adjust * Nibble
      r == IF HighDigitOver(x)
           THEN [v |-> y % Byte, f |-> [x.f EXCEPT !.cf = Flag(y < 0)]] ELSE x
  IN  [v |-> r.v, f |-> FlagSzp(r.f, ByteSign, r.v)]

\* AAM and AAD with their base as an operand; AAM by zero is a divide error.
OpAam(f, ax, base) ==
  LET al == ax % Byte
      x  == (al \div base) * Byte + (al % base)
  IN  [v |-> x, f |-> FlagSzp(f, WordSign, x)]
OpAad(f, ax, base) ==
  LET x == ((ax \div Byte) * base + (ax % Byte)) % Byte
  IN  [v |-> x, f |-> [FlagSzp(f, WordSign, x) EXCEPT !.sf = 0]]

-----------------------------------------------------------------------------
(* The conditions of Jcc *)

Holds(cc, f) ==
  [o  |-> f.of = 1,                   no |-> f.of = 0,
   b  |-> f.cf = 1,                   ae |-> f.cf = 0,
   e  |-> f.zf = 1,                   ne |-> f.zf = 0,
   be |-> f.cf = 1 \/ f.zf = 1,       a  |-> f.cf = 0 /\ f.zf = 0,
   s  |-> f.sf = 1,                   ns |-> f.sf = 0,
   p  |-> f.pf = 1,                   np |-> f.pf = 0,
   l  |-> f.sf # f.of,                ge |-> f.sf = f.of,
   le |-> f.sf # f.of \/ f.zf = 1,    g  |-> f.zf = 0 /\ f.sf = f.of][cc]
=============================================================================

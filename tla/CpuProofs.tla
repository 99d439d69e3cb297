------------------------------- MODULE CpuProofs ------------------------------
(***************************************************************************)
(* First what the arithmetic of CpuAlu computes, for every width: sums and  *)
(* differences with their carry are exact, also over two limbs, the flags   *)
(* of a comparison order the operands as unsigned and as signed numbers,    *)
(* and the one borrow that flag_sbb loses is lost always; products,         *)
(* quotients, shifts by one and the adjustments of unpacked decimals come   *)
(* out right.                                                               *)
(*                                                                         *)
(* Then what the routines of CpuRoutines come to with an interrupt in front *)
(* of any instruction.  The guest is described behind its interrupts: while *)
(* a handler runs, it is what the request has put aside, so that a request, *)
(* every instruction of its handler and its IRET are steps in which the     *)
(* guest does nothing, and only the guest's own steps have to be followed.  *)
(* String routines are followed by how many elements they have behind them; *)
(* divisions by the dividend they have made, and into the handler of the    *)
(* divide error, which runs with interrupts disabled; comparisons by what   *)
(* their flags tell, in FLAGS or as a word on the guest's stack.            *)
(***************************************************************************)
EXTENDS CpuRoutines, SequenceTheorems, TLAPS


Operand(h) == 0 .. 2 * h - 1

\* The weight of the sign splits the operands.
LEMMA SignBit ==
  ASSUME NEW h \in Nat \ {0}, NEW v \in Operand(h)
  PROVE  Bit(v, h) = IF v >= h THEN 1 ELSE 0
<1>1. CASE v < h
  <2>1. v \div h = 0
    BY <1>1 DEF Operand
  <2> QED
    BY <1>1, <2>1 DEF Bit, Operand
<1>2. CASE v >= h
  <2>1. v \div h = 1
    BY <1>2 DEF Operand
  <2> QED
    BY <1>2, <2>1 DEF Bit, Operand
<1> QED
  BY <1>1, <1>2 DEF Operand

\* Residues of what an addition or a subtraction of operands can give.
LEMMA SumResidue ==
  ASSUME NEW h \in Nat \ {0}, NEW x \in 0 .. 4 * h - 1
  PROVE  x % (2 * h) = IF x >= 2 * h THEN x - 2 * h ELSE x
  OBVIOUS

\* A difference of two operands wraps at most once.
LEMMA DifferenceResidue ==
  ASSUME NEW h \in Nat \ {0}, NEW x \in -(2 * h) .. 2 * h - 1
  PROVE  x % (2 * h) = IF x < 0 THEN x + 2 * h ELSE x
  OBVIOUS
-----------------------------------------------------------------------------
(* The carry, the zero and the sign flag of an addition and a subtraction *)

\* FlagSzp sets the zero and the sign flag from the value, and adds no flag.
LEMMA SzpField ==
  ASSUME NEW f \in Flags, NEW h \in Nat \ {0}, NEW v \in Operand(h)
  PROVE  /\ DOMAIN FlagSzp(f, h, v) = DOMAIN f
         /\ FlagSzp(f, h, v).zf = Flag(v = 0)
         /\ FlagSzp(f, h, v).sf = Bit(v, h)
  BY DEF FlagSzp, Flags

\* FlagAdc sets the carry flag iff the sum does not fit the operand.
LEMMA AdcFields ==
  ASSUME NEW f \in Flags, NEW h \in Nat \ {0}, NEW a \in Operand(h), NEW b \in Operand(h),
         NEW c \in 0 .. 1
  PROVE  FlagAdc(f, h, a, b, c).cf = Flag(a + b + c >= 2 * h)
<1> DEFINE v == (a + b + c) % (2 * h)
<1>1. v \in Operand(h)
  BY SumResidue DEF Operand
<1>2. "cf" \in DOMAIN FlagSzp(f, h, v)
  BY <1>1, SzpField DEF Flags
<1> QED
  BY <1>2 DEF FlagAdc

\* FlagSub: the difference, and the carry, zero, sign and overflow flags it gives.
LEMMA SubFields ==
  ASSUME NEW f \in Flags, NEW h \in Nat \ {0}, NEW a \in Operand(h), NEW b \in Operand(h)
  PROVE  LET v == (a - b) % (2 * h)
             g == FlagSub(f, h, a, b)
         IN  /\ v = IF a < b THEN a - b + 2 * h ELSE a - b
             /\ g.cf = Flag(a < b)
             /\ g.zf = Flag(v = 0)
             /\ g.sf = Bit(v, h)
             /\ g.of = Flag(Bit(v, h) # Bit(a, h) /\ Bit(a, h) # Bit(b, h))
<1> DEFINE v == (a - b) % (2 * h)
<1>1. v = IF a < b THEN a - b + 2 * h ELSE a - b
  <2>1. a - b \in -(2 * h) .. 2 * h - 1
    BY DEF Operand
  <2>2. v = IF a - b < 0 THEN (a - b) + 2 * h ELSE a - b
    BY <2>1, DifferenceResidue
  <2> QED
    BY <2>2 DEF Operand
<1>2. v \in Operand(h)
  BY <1>1 DEF Operand
<1>3. /\ DOMAIN FlagSzp(f, h, v) = {"cf", "pf", "af", "zf", "sf", "ifl", "df", "of"}
      /\ FlagSzp(f, h, v).zf = Flag(v = 0)
      /\ FlagSzp(f, h, v).sf = Bit(v, h)
  BY <1>2, SzpField DEF Flags
<1>4. /\ FlagSub(f, h, a, b).cf = Flag(a < b)
      /\ FlagSub(f, h, a, b).zf = Flag(v = 0)
      /\ FlagSub(f, h, a, b).sf = Bit(v, h)
      /\ FlagSub(f, h, a, b).of = Flag(Bit(v, h) # Bit(a, h) /\ Bit(a, h) # Bit(b, h))
  BY <1>3 DEF FlagSub
<1> QED
  BY <1>1, <1>4

-----------------------------------------------------------------------------
(* op_adc8 and op_adc16: value and carry together are the sum with the      *)
(* carry that came in.                                                      *)
THEOREM AdcExact ==
  ASSUME NEW f \in Flags, NEW h \in Nat \ {0}, NEW a \in Operand(h), NEW b \in Operand(h)
  PROVE  LET r == OpAdc(f, h, a, b)
         IN  /\ r.v \in Operand(h)
             /\ r.v + 2 * h * r.f.cf = a + b + f.cf
<1> DEFINE sum == a + b + f.cf
<1>1. f.cf \in 0 .. 1
  BY DEF Flags
<1>2. sum \in 0 .. 4 * h - 1
  BY <1>1 DEF Operand
<1>3. OpAdc(f, h, a, b).v = sum % (2 * h)
  BY DEF OpAdc
<1>4. OpAdc(f, h, a, b).f.cf = IF sum >= 2 * h THEN 1 ELSE 0
  BY <1>1, AdcFields DEF OpAdc, Flag
<1> HIDE DEF sum
<1>5. sum % (2 * h) = IF sum >= 2 * h THEN sum - 2 * h ELSE sum
  BY <1>2, SumResidue
<1>6. /\ OpAdc(f, h, a, b).v \in Operand(h)
      /\ OpAdc(f, h, a, b).v + 2 * h * OpAdc(f, h, a, b).f.cf = sum
  BY <1>2, <1>3, <1>4, <1>5 DEF Operand
<1> QED
  BY <1>6 DEF sum

(* ADD keeps the flags flags. *)
LEMMA AddFlags ==
  ASSUME NEW f \in Flags, NEW h \in Nat \ {0}, NEW a \in Operand(h), NEW b \in Operand(h)
  PROVE  FlagAdc(f, h, a, b, 0) \in Flags
<1> DEFINE v == (a + b + 0) % (2 * h)
<1>1. Bit(v, h) \in 0 .. 1
  <2>1. v \in Operand(h)
    BY SumResidue DEF Operand
  <2> QED
    BY <2>1, SignBit
<1>2. /\ a \div Nibble \in Int
      /\ b \div Nibble \in Int
      /\ (a + b + 0) \div Nibble \in Int
  BY CpuAluAssumption DEF Operand
<1>3. XorBit(a, b, a + b + 0, Nibble) \in 0 .. 1
  <2>1. /\ Bit(a, Nibble) \in Int
        /\ Bit(b, Nibble) \in Int
        /\ Bit(a + b + 0, Nibble) \in Int
    BY <1>2 DEF Bit
  <2>2. \A x \in Int : x % 2 \in 0 .. 1
    OBVIOUS
  <2>3. Bit(a, Nibble) + Bit(b, Nibble) + Bit(a + b + 0, Nibble) \in Int
    BY <2>1
  <2> QED
    BY <2>2, <2>3 DEF XorBit
<1>4. /\ Flag(v = 0) \in 0 .. 1
      /\ Parity(v % Byte) \in 0 .. 1
      /\ Flag(a + b + 0 >= 2 * h) \in 0 .. 1
      /\ Flag(Bit(a + b + 0, h) # Bit(a, h) /\ Bit(a + b + 0, h) # Bit(b, h)) \in 0 .. 1
  BY DEF Flag, Parity
<1>5. FlagSzp(f, h, v) \in Flags
  BY <1>1, <1>4 DEF FlagSzp, Flags
<1> HIDE DEF v
<1>6. FlagAdc(f, h, a, b, 0)
        = [FlagSzp(f, h, v) EXCEPT
             !.cf = Flag(a + b + 0 >= 2 * h),
             !.of = Flag(Bit(a + b + 0, h) # Bit(a, h) /\ Bit(a + b + 0, h) # Bit(b, h)),
             !.af = XorBit(a, b, a + b + 0, Nibble)]
  BY DEF FlagAdc, v
<1> QED
  BY <1>3, <1>4, <1>5, <1>6 DEF Flags

(* A long addition as guests write it, ADD on the low limbs and ADC on the  *)
(* high ones: together the two results and the last carry are the sum.      *)
THEOREM LongSumExact ==
  ASSUME NEW f \in Flags, NEW h \in Nat \ {0},
         NEW a0 \in Operand(h), NEW a1 \in Operand(h),
         NEW b0 \in Operand(h), NEW b1 \in Operand(h)
  PROVE  LET lo == OpAdd(f, h, a0, b0)
             hi == OpAdc(lo.f, h, a1, b1)
         IN  lo.v + (2 * h) * (hi.v + (2 * h) * hi.f.cf)
               = (a0 + (2 * h) * a1) + (b0 + (2 * h) * b1)
<1> DEFINE lo == OpAdd(f, h, a0, b0)
           hi == OpAdc(lo.f, h, a1, b1)
<1>1. lo.f \in Flags
  BY AddFlags DEF OpAdd
<1>2. lo.v = IF a0 + b0 >= 2 * h THEN a0 + b0 - 2 * h ELSE a0 + b0
  <2> DEFINE sum == a0 + b0
  <2>1. sum \in 0 .. 4 * h - 1
    BY DEF Operand
  <2>2. lo.v = sum % (2 * h)
    BY DEF OpAdd
  <2> HIDE DEF lo, sum
  <2>3. sum % (2 * h) = IF sum >= 2 * h THEN sum - 2 * h ELSE sum
    BY <2>1, SumResidue
  <2>4. lo.v = IF sum >= 2 * h THEN sum - 2 * h ELSE sum
    BY <2>2, <2>3, Zenon
  <2> QED
    BY <2>4 DEF sum, Operand
<1>3. lo.f.cf = IF a0 + b0 >= 2 * h THEN 1 ELSE 0
  BY AdcFields DEF OpAdd, Flag, Operand
<1>4. lo.v + (2 * h) * lo.f.cf = a0 + b0
  BY <1>2, <1>3 DEF Operand
<1> HIDE DEF lo
<1>5. hi.v + 2 * h * hi.f.cf = a1 + b1 + lo.f.cf
  BY <1>1, AdcExact
<1> HIDE DEF hi
<1>6. hi.v + (2 * h) * hi.f.cf = a1 + b1 + lo.f.cf
  BY <1>5
<1> DEFINE upper == hi.v + (2 * h) * hi.f.cf
<1>7. lo.v \in Int /\ lo.f.cf \in Int /\ a0 \in Int /\ a1 \in Int /\ b0 \in Int /\ b1 \in Int
  BY <1>2, <1>3 DEF Operand
<1>8. upper = a1 + b1 + lo.f.cf
  BY <1>6
<1> HIDE DEF upper
<1>9. lo.v + (2 * h) * upper = (a0 + (2 * h) * a1) + (b0 + (2 * h) * b1)
  <2>1. (2 * h) * upper = (2 * h) * a1 + (2 * h) * b1 + (2 * h) * lo.f.cf
    BY <1>7, <1>8
  <2>2. lo.v = (a0 + b0) - (2 * h) * lo.f.cf
    BY <1>3, <1>2, <1>7
  <2> QED
    <3> DEFINE u == (2 * h) * upper
               p == (2 * h) * a1
               q == (2 * h) * b1
               c == (2 * h) * lo.f.cf
    <3>1. p \in Int /\ q \in Int /\ c \in Int
      BY <1>7
    <3>2. u = p + q + c /\ lo.v = (a0 + b0) - c
      BY <2>1, <2>2
    <3> HIDE DEF u, p, q, c
    <3>3. lo.v + u = (a0 + p) + (b0 + q)
      BY <1>7, <3>1, <3>2
    <3> QED
      BY <3>3 DEF u, p, q
<1> QED
  BY <1>9 DEF lo, hi, upper

(* op_sub8 and op_sub16: the carry is the borrow. *)
THEOREM SubExact ==
  ASSUME NEW f \in Flags, NEW h \in Nat \ {0}, NEW a \in Operand(h), NEW b \in Operand(h)
  PROVE  LET r == OpSub(f, h, a, b)
         IN  /\ r.v \in Operand(h)
             /\ r.v - 2 * h * r.f.cf = a - b
<1>1. OpSub(f, h, a, b).v = IF a < b THEN a - b + 2 * h ELSE a - b
  BY SubFields DEF OpSub
<1>2. OpSub(f, h, a, b).f.cf = IF a < b THEN 1 ELSE 0
  BY SubFields DEF OpSub, Flag
<1> QED
  BY <1>1, <1>2 DEF Operand

(* op_sbb8 and op_sbb16 are exact unless a borrow comes in while v2 is all  *)
(* ones.                                                                    *)
THEOREM SbbExact ==
  ASSUME NEW f \in Flags, NEW h \in Nat \ {0}, NEW a \in Operand(h), NEW b \in Operand(h),
         ~(f.cf = 1 /\ b = 2 * h - 1)
  PROVE  LET r == OpSbb(f, h, a, b)
         IN  /\ r.v \in Operand(h)
             /\ r.v - 2 * h * r.f.cf = a - b - f.cf
<1> DEFINE d == b + f.cf
<1>1. f.cf \in 0 .. 1
  BY DEF Flags
<1>2. d \in Operand(h)
  BY <1>1 DEF Operand
<1>3. d % (2 * h) = d
  BY <1>2 DEF Operand
<1>4. OpSbb(f, h, a, b) = OpSub(f, h, a, d)
  BY <1>3 DEF OpSbb, FlagSbb, OpSub
<1>5. OpSub(f, h, a, d).v \in Operand(h)
  BY <1>2, SubExact
<1>6. OpSub(f, h, a, d).v - 2 * h * OpSub(f, h, a, d).f.cf = a - d
  BY <1>2, SubExact
<1>7. a - d = a - b - f.cf
  BY <1>1 DEF Operand
<1> QED
  BY <1>4, <1>5, <1>6, <1>7

(* In that one case the value is right, a - 2h, but v2 has wrapped to zero  *)
(* in flag_sbb8 and flag_sbb16 and the borrow out is lost, whatever v1 is:  *)
(* the next limb of a long subtraction is one too high.                     *)
THEOREM SbbLosesBorrow ==
  ASSUME NEW f \in Flags, NEW h \in Nat \ {0}, NEW a \in Operand(h),
         f.cf = 1
  PROVE  LET r == OpSbb(f, h, a, 2 * h - 1)
         IN  r.v = a /\ r.f.cf = 0
<1>1. (2 * h - 1) + f.cf = 2 * h
  OBVIOUS
<1>2. (2 * h) % (2 * h) = 0
  OBVIOUS
<1>3. (a - 2 * h) % (2 * h) = a
  <2>1. a - 2 * h \in -(2 * h) .. 2 * h - 1
    BY DEF Operand
  <2> QED
    BY <2>1, DifferenceResidue DEF Operand
<1>4. 0 \in Operand(h) /\ ~(a < 0)
  BY DEF Operand
<1>5. FlagSub(f, h, a, 0).cf = 0
  BY <1>4, SubFields DEF Flag
<1> QED
  BY <1>1, <1>2, <1>3, <1>5 DEF OpSbb, FlagSbb

-----------------------------------------------------------------------------
(* CMP and the conditions: after flag_sub the carry orders the operands as  *)
(* unsigned numbers, the zero flag says that they are equal, and sign and   *)
(* overflow together order them as two's complement, for every width.       *)
THEOREM ComparisonDecides ==
  ASSUME NEW f \in Flags, NEW h \in Nat \ {0}, NEW a \in Operand(h), NEW b \in Operand(h)
  PROVE  LET g == FlagSub(f, h, a, b)
         IN  /\ Holds("b", g) <=> a < b
             /\ Holds("be", g) <=> a <= b
             /\ Holds("e", g) <=> a = b
             /\ Holds("l", g) <=> Signed(h, a) < Signed(h, b)
             /\ Holds("le", g) <=> Signed(h, a) <= Signed(h, b)
<1> DEFINE g == FlagSub(f, h, a, b)
           v == (a - b) % (2 * h)
<1>1. v = IF a < b THEN a - b + 2 * h ELSE a - b
  BY SubFields
<1>2. v \in Operand(h)
  BY <1>1 DEF Operand
<1>3. /\ g.cf = Flag(a < b)
      /\ g.zf = Flag(v = 0)
      /\ g.sf = Bit(v, h)
      /\ g.of = Flag(Bit(v, h) # Bit(a, h) /\ Bit(a, h) # Bit(b, h))
  BY SubFields
<1>4. /\ Bit(v, h) = IF v >= h THEN 1 ELSE 0
      /\ Bit(a, h) = IF a >= h THEN 1 ELSE 0
      /\ Bit(b, h) = IF b >= h THEN 1 ELSE 0
  BY <1>2, SignBit
<1>5. /\ Holds("b", g) <=> g.cf = 1
      /\ Holds("be", g) <=> g.cf = 1 \/ g.zf = 1
      /\ Holds("e", g) <=> g.zf = 1
      /\ Holds("l", g) <=> g.sf # g.of
      /\ Holds("le", g) <=> g.sf # g.of \/ g.zf = 1
  BY DEF Holds
<1> HIDE DEF g, v
<1>6. g.cf = 1 <=> a < b
  BY <1>3 DEF Flag
<1>7. g.zf = 1 <=> a = b
  BY <1>1, <1>3 DEF Flag, Operand
<1>8. g.sf # g.of <=> Signed(h, a) < Signed(h, b)
  BY <1>1, <1>2, <1>3, <1>4 DEF Flag, Signed, Operand
<1>9. a = b <=> Signed(h, a) = Signed(h, b)
  BY DEF Signed, Operand
<1>10. Signed(h, a) \in Int /\ Signed(h, b) \in Int
  BY DEF Signed, Operand
<1>11. /\ Holds("b", g) <=> a < b
       /\ Holds("be", g) <=> a <= b
       /\ Holds("e", g) <=> a = b
       /\ Holds("l", g) <=> Signed(h, a) < Signed(h, b)
       /\ Holds("le", g) <=> Signed(h, a) <= Signed(h, b)
  BY <1>5, <1>6, <1>7, <1>8, <1>9, <1>10 DEF Operand
<1> QED
  BY <1>11 DEF g

-----------------------------------------------------------------------------
(* op_div8 and op_div16: without a divide error the quotient fits its       *)
(* register, and quotient and remainder reassemble the dividend; an error   *)
(* is raised exactly for a divisor of zero and a quotient that does not fit.*)
THEOREM DivExact ==
  ASSUME NEW h \in Nat \ {0}, NEW dividend \in Nat, NEW divisor \in Operand(h)
  PROVE  LET r == OpDiv(h, dividend, divisor)
         IN  /\ r.error <=> (divisor = 0 \/ dividend >= 2 * h * divisor)
             /\ ~r.error => /\ r.lo \in Operand(h)
                            /\ r.hi \in 0 .. divisor - 1
                            /\ r.lo * divisor + r.hi = dividend
<1> DEFINE q == dividend \div divisor
           m == dividend % divisor
           r == OpDiv(h, dividend, divisor)
<1>1. CASE divisor = 0
  BY <1>1 DEF OpDiv, DivError, Operand
<1>2. CASE divisor # 0
  <2>1. divisor \in Nat \ {0} /\ divisor < 2 * h
    BY <1>2 DEF Operand
  <2>2. /\ q \in Nat
        /\ m \in 0 .. divisor - 1
        /\ q * divisor + m = dividend
    BY <2>1
  <2> HIDE DEF q, m
  <2>3. q >= 2 * h <=> dividend >= 2 * h * divisor
    <3>1. CASE q >= 2 * h
      <4>1. q * divisor >= 2 * h * divisor
        BY <2>1, <2>2, <3>1
      <4> QED
        BY <2>1, <2>2, <3>1, <4>1
    <3>2. CASE q < 2 * h
      <4>1. (q + 1) * divisor <= 2 * h * divisor
        BY <2>1, <2>2, <3>2
      <4>2. dividend < (q + 1) * divisor
        BY <2>1, <2>2
      <4> QED
        BY <2>1, <2>2, <3>2, <4>1, <4>2
    <3> QED
      BY <2>2, <3>1, <3>2
  <2>4. CASE q >= 2 * h
    <3>1. r.error
      BY <2>4 DEF OpDiv, DivError, q
    <3> QED
      BY <2>3, <2>4, <3>1
  <2>5. CASE ~(q >= 2 * h)
    <3>1. r = Quotient(h, q, m)
      BY <1>2, <2>5 DEF OpDiv, q, m
    <3>2. q % (2 * h) = q /\ m % (2 * h) = m
      BY <2>1, <2>2, <2>5
    <3>3. ~r.error /\ r.lo = q /\ r.hi = m
      BY <3>1, <3>2 DEF Quotient
    <3> QED
      BY <1>2, <2>2, <2>3, <2>5, <3>3 DEF Operand
  <2> QED
    BY <2>4, <2>5
<1> QED
  BY <1>1, <1>2

-----------------------------------------------------------------------------
(* The flags word that an interrupt pushes and IRET pops (PUSHF sets OF in it) *)

(* makeflagsword keeps every flag where decodeflagsword looks for it, so an *)
(* interrupt that ends with IRET gives the guest its flags back.            *)
THEOREM FlagsWordKeeps ==
  ASSUME NEW f \in Flags
  PROVE  DecodeFlagsWord(MakeFlagsWord(f)) = f
<1> DEFINE w == MakeFlagsWord(f)
<1>1. w % 2 = f.cf
  BY DEF Flags, MakeFlagsWord
<1>2. (w \div 4) % 2 = f.pf
  BY DEF Flags, MakeFlagsWord
<1>3. (w \div 16) % 2 = f.af
  BY DEF Flags, MakeFlagsWord
<1>4. (w \div 64) % 2 = f.zf
  BY DEF Flags, MakeFlagsWord
<1>5. (w \div 128) % 2 = f.sf
  BY DEF Flags, MakeFlagsWord
<1>6. (w \div 512) % 2 = f.ifl
  BY DEF Flags, MakeFlagsWord
<1>7. (w \div 1024) % 2 = f.df
  BY DEF Flags, MakeFlagsWord
<1>8. (w \div 2048) % 2 = f.of
  BY DEF Flags, MakeFlagsWord
<1> QED
  BY <1>1, <1>2, <1>3, <1>4, <1>5, <1>6, <1>7, <1>8 DEF DecodeFlagsWord, Flags

-----------------------------------------------------------------------------
(* op_inc and op_dec: one up and one down, with the flags of the addition   *)
(* and the subtraction but the carry of the instruction before, which is    *)
(* what lets a guest step its pointers between the limbs of a long sum.     *)
THEOREM IncDecKeepCarry ==
  ASSUME NEW f \in Flags, NEW h \in Nat \ {0}, NEW a \in Operand(h), h > 1
  PROVE  LET up == OpInc(f, h, a)
             down == OpDec(f, h, a)
         IN  /\ up.v = (IF a = 2 * h - 1 THEN 0 ELSE a + 1)
             /\ down.v = (IF a = 0 THEN 2 * h - 1 ELSE a - 1)
             /\ up.f.cf = f.cf /\ down.f.cf = f.cf
             /\ up.f.zf = Flag(a = 2 * h - 1) /\ down.f.zf = Flag(a = 1)
             /\ up.f.of = Flag(a = h - 1) /\ down.f.of = Flag(a = h)
<1> DEFINE s == (a + 1) % (2 * h)
           d == (a - 1) % (2 * h)
           up == OpInc(f, h, a)
           down == OpDec(f, h, a)
<1>1. 1 \in Operand(h)
  BY DEF Operand
<1>2. s = IF a = 2 * h - 1 THEN 0 ELSE a + 1
  <2>1. a + 1 \in 0 .. 4 * h - 1
    BY DEF Operand
  <2>2. s = IF a + 1 >= 2 * h THEN (a + 1) - 2 * h ELSE a + 1
    BY <2>1, SumResidue, Zenon
  <2> QED
    BY <2>2 DEF Operand
<1>3. /\ d = IF a < 1 THEN a - 1 + 2 * h ELSE a - 1
      /\ FlagSub(f, h, a, 1).zf = Flag(d = 0)
      /\ FlagSub(f, h, a, 1).of = Flag(Bit(d, h) # Bit(a, h) /\ Bit(a, h) # Bit(1, h))
  BY <1>1, SubFields
<1>4. s \in Operand(h) /\ d \in Operand(h)
  BY <1>2, <1>3 DEF Operand
<1>5. /\ Bit(s, h) = IF s >= h THEN 1 ELSE 0
      /\ Bit(d, h) = IF d >= h THEN 1 ELSE 0
      /\ Bit(a, h) = IF a >= h THEN 1 ELSE 0
      /\ Bit(1, h) = 0
  BY <1>1, <1>4, SignBit
<1>6. Bit(a + 1, h) = IF a + 1 >= h /\ a + 1 < 2 * h THEN 1 ELSE 0
  <2>1. CASE a + 1 < 2 * h
    <3>1. a + 1 \in Operand(h)
      BY <2>1 DEF Operand
    <3> QED
      BY <2>1, <3>1, SignBit DEF Operand
  <2>2. CASE a + 1 = 2 * h
    BY <2>2 DEF Bit, Operand
  <2> QED
    BY <2>1, <2>2 DEF Operand
<1>7. /\ FlagSzp(f, h, s).zf = Flag(s = 0)
      /\ "zf" \in DOMAIN FlagSzp(f, h, s) /\ "of" \in DOMAIN FlagSzp(f, h, s)
      /\ "cf" \in DOMAIN FlagSzp(f, h, s) /\ "cf" \in DOMAIN FlagSzp(f, h, d)
  BY <1>4, SzpField DEF Flags
<1> HIDE DEF s, d
<1>8. /\ up.v = s /\ up.f.cf = f.cf /\ up.f.zf = Flag(s = 0)
      /\ up.f.of = Flag(Bit(a + 1, h) # Bit(a, h) /\ Bit(a + 1, h) # Bit(1, h))
  <2>1. a + 1 + 0 = a + 1
    BY DEF Operand
  <2>2. FlagAdc(f, h, a, 1, 0) =
          [FlagSzp(f, h, s) EXCEPT
             !.cf = Flag(a + 1 >= 2 * h),
             !.of = Flag(Bit(a + 1, h) # Bit(a, h) /\ Bit(a + 1, h) # Bit(1, h)),
             !.af = XorBit(a, 1, a + 1, Nibble)]
    BY <2>1 DEF FlagAdc, s
  <2> QED
    BY <1>7, <2>2 DEF OpInc, OpAdd, s
<1>9. /\ down.v = d /\ down.f.cf = f.cf
      /\ down.f.zf = FlagSub(f, h, a, 1).zf
      /\ down.f.of = FlagSub(f, h, a, 1).of
  <2> DEFINE g == FlagSub(f, h, a, 1)
  <2>1. "cf" \in DOMAIN g
    BY <1>7 DEF FlagSub, d
  <2>2. OpSub(f, h, a, 1) = [v |-> d, f |-> g]
    BY DEF OpSub, d
  <2> HIDE DEF g
  <2>3. down = [v |-> d, f |-> [g EXCEPT !.cf = f.cf]]
    BY <2>2 DEF OpDec
  <2> HIDE DEF down
  <2>4. [g EXCEPT !.cf = f.cf].cf = f.cf
    BY <2>1
  <2>5. [g EXCEPT !.cf = f.cf].zf = g.zf /\ [g EXCEPT !.cf = f.cf].of = g.of
    OBVIOUS
  <2> QED
    BY <2>3, <2>4, <2>5 DEF g
<1> HIDE DEF up, down
<1>10. /\ up.v = (IF a = 2 * h - 1 THEN 0 ELSE a + 1)
       /\ down.v = (IF a = 0 THEN 2 * h - 1 ELSE a - 1)
  BY <1>2, <1>3, <1>8, <1>9 DEF Operand
<1>11. up.f.zf = Flag(a = 2 * h - 1) /\ down.f.zf = Flag(a = 1)
  BY <1>2, <1>3, <1>8, <1>9 DEF Operand, Flag
<1>12. up.f.of = Flag(a = h - 1) /\ down.f.of = Flag(a = h)
  BY <1>3, <1>5, <1>6, <1>8, <1>9 DEF Operand, Flag
<1> QED
  BY <1>8, <1>9, <1>10, <1>11, <1>12 DEF up, down

\* op_grp3, NEG: the result is minus the operand, and the carry is what a
\* subtraction from zero borrows; OF is set for the one number that has no negative.
THEOREM NegExact ==
  ASSUME NEW f \in Flags, NEW h \in Nat \ {0}, NEW a \in Operand(h)
  PROVE  LET r == OpNeg(f, h, a)
         IN  /\ r.v \in Operand(h)
             /\ r.v + a = 2 * h * r.f.cf
             /\ r.f.of = Flag(a = h)
             /\ a # h => Signed(h, r.v) = -Signed(h, a)
<1> DEFINE r == OpNeg(f, h, a)
           v == (2 * h - a) % (2 * h)
<1>1. v = IF a = 0 THEN 0 ELSE 2 * h - a
  <2>1. 2 * h - a \in 0 .. 4 * h - 1
    BY DEF Operand
  <2>2. v = IF 2 * h - a >= 2 * h THEN 2 * h - a - 2 * h ELSE 2 * h - a
    BY <2>1, SumResidue
  <2> QED
    BY <2>2 DEF Operand
<1>2. 0 \in Operand(h) /\ v \in Operand(h)
  BY <1>1 DEF Operand
<1>3. /\ (0 - a) % (2 * h) = IF 0 < a THEN 0 - a + 2 * h ELSE 0 - a
      /\ FlagSub(f, h, 0, a).of =
           Flag(Bit((0 - a) % (2 * h), h) # Bit(0, h) /\ Bit(0, h) # Bit(a, h))
  BY <1>2, SubFields
<1>4. (0 - a) % (2 * h) = v
  BY <1>1, <1>3 DEF Operand
<1>5. /\ Bit(v, h) = IF v >= h THEN 1 ELSE 0
      /\ Bit(a, h) = IF a >= h THEN 1 ELSE 0
      /\ Bit(0, h) = 0
  BY <1>2, SignBit
<1>6. "cf" \in DOMAIN FlagSub(f, h, 0, a)
  <2>1. "cf" \in DOMAIN FlagSzp(f, h, v)
    BY <1>2, SzpField DEF Flags
  <2> QED
    BY <1>4, <2>1 DEF FlagSub
<1> HIDE DEF v
<1>7. r.v = v /\ r.f.cf = Flag(v # 0) /\ r.f.of = FlagSub(f, h, 0, a).of
  <2> DEFINE g == FlagSub(f, h, 0, a)
  <2>1. r = [v |-> v, f |-> [g EXCEPT !.cf = Flag(v # 0)]]
    BY DEF OpNeg, v
  <2> HIDE DEF g, r
  <2>2. g.of = [g EXCEPT !.cf = Flag(v # 0)].of
    OBVIOUS
  <2>3. [g EXCEPT !.cf = Flag(v # 0)].cf = Flag(v # 0)
    BY <1>6 DEF g
  <2> QED
    BY <2>1, <2>2, <2>3 DEF g
<1> HIDE DEF r
<1>8. r.v \in Operand(h) /\ r.v + a = 2 * h * r.f.cf
  BY <1>1, <1>2, <1>7 DEF Operand, Flag
<1>9. r.f.of = Flag(a = h)
  BY <1>1, <1>3, <1>4, <1>5, <1>7 DEF Operand, Flag
<1>10. a # h => Signed(h, r.v) = -Signed(h, a)
  BY <1>1, <1>7 DEF Operand, Signed
<1> QED
  BY <1>8, <1>9, <1>10 DEF r

-----------------------------------------------------------------------------
(* Shifts by one, from which guests build shifts of several bytes *)

\* The loop of op_grp2 with a count of one is one step.
LEMMA ShiftByOne ==
  ASSUME NEW kind, NEW h, NEW a, NEW c
  PROVE  ShiftLoop(kind, h, a, c, 1) = ShiftOnce(kind, h, [s |-> a, c |-> c])
<1> DEFINE start == [s |-> a, c |-> c]
           Step(y, n) == IF n = 0 THEN start ELSE ShiftOnce(kind, h, y[n - 1])
           Solves(y) == y = [n \in 0 .. 1 |-> Step(y, n)]
           z == [n \in 0 .. 1 |-> IF n = 0 THEN start ELSE ShiftOnce(kind, h, start)]
           x == CHOOSE y : Solves(y)
<1>1. \A n \in 0 .. 1 : Step(z, n) = z[n]
  <2>1. z[0] = start
    OBVIOUS
  <2>2. \A n \in 0 .. 1 : n # 0 => n - 1 = 0
    OBVIOUS
  <2> QED
    BY <2>1, <2>2
<1>2. Solves(z)
  BY <1>1
<1>3. Solves(x)
  BY <1>2
<1>4. x[0] = start /\ x[1] = ShiftOnce(kind, h, start)
  <2> HIDE DEF x
  <2>1. x[0] = Step(x, 0) /\ x[1] = Step(x, 1)
    BY <1>3
  <2>2. 1 - 1 = 0 /\ 1 # 0
    OBVIOUS
  <2> QED
    BY <2>1, <2>2
<1>5. ShiftLoop(kind, h, a, c, 1) = x[1]
  BY DEF ShiftLoop
<1> QED
  BY <1>4, <1>5

(* SHL and RCL by one, and SHR, SAR and RCR by one: result and carry         *)
(* together are the operand and the bit that came in, so that a shift of    *)
(* any number of bytes, one after the other through the carry, is exact.    *)
THEOREM ShiftsExact ==
  ASSUME NEW f \in Flags, NEW h \in Nat \ {0}, NEW a \in Operand(h)
  PROVE  LET r(kind) == OpShift(kind, h, f, a, 1)
         IN  /\ \A kind \in {"shl", "rcl", "shr", "rcr", "sar"} : r(kind).v \in Operand(h)
             /\ r("shl").v + 2 * h * r("shl").f.cf = 2 * a
             /\ r("rcl").v + 2 * h * r("rcl").f.cf = 2 * a + f.cf
             /\ 2 * r("shr").v + r("shr").f.cf = a
             /\ 2 * r("rcr").v + r("rcr").f.cf = a + 2 * h * f.cf
             /\ 2 * Signed(h, r("sar").v) + r("sar").f.cf = Signed(h, a)
<1> DEFINE start == [s |-> a, c |-> f.cf]
           Once(kind) == ShiftOnce(kind, h, start)
           r(kind) == OpShift(kind, h, f, a, 1)
<1>1. Bit(a, h) = IF a >= h THEN 1 ELSE 0
  BY SignBit
<1>2. (2 * a) % (2 * h) = IF a >= h THEN 2 * a - 2 * h ELSE 2 * a
  <2>1. 2 * a \in 0 .. 4 * h - 1
    BY DEF Operand
  <2>2. (2 * a) % (2 * h) = IF 2 * a >= 2 * h THEN 2 * a - 2 * h ELSE 2 * a
    BY <2>1, SumResidue, Zenon
  <2> QED
    BY <2>2 DEF Operand
<1>3. f.cf \in 0 .. 1
  BY DEF Flags
<1>4. /\ Once("shl") = [s |-> ((2 * a) % (2 * h)) + 0, c |-> Bit(a, h)]
      /\ Once("rcl") = [s |-> ((2 * a) % (2 * h)) + f.cf, c |-> Bit(a, h)]
      /\ Once("shr") = [s |-> (a \div 2) + h * 0, c |-> a % 2]
      /\ Once("rcr") = [s |-> (a \div 2) + h * f.cf, c |-> a % 2]
      /\ Once("sar") = [s |-> (a \div 2) + h * Bit(a, h), c |-> a % 2]
  BY DEF ShiftOnce, BitIn
<1>5. \A kind : r(kind).v = Once(kind).s /\ r(kind).f.cf = Once(kind).c
  <2> TAKE kind
  <2>1. ShiftLoop(kind, h, a, f.cf, 1) = Once(kind)
    BY ShiftByOne
  <2> DEFINE x == Once(kind)
             g == [f EXCEPT !.cf = x.c, !.of = ShiftOverflow(kind, h, a, f, 1, x)]
  <2>2. g.cf = x.c
    BY DEF Flags
  <2>3. FlagSzp(g, h, x.s).cf = g.cf
    <3> HIDE DEF x
    <3> QED
      BY DEF FlagSzp, Flags
  <2>4. /\ r(kind).v = x.s
        /\ r(kind).f = IF kind \in {"shl", "shr", "sar"} THEN FlagSzp(g, h, x.s) ELSE g
    <3>1. OpShift(kind, h, f, a, 1) =
            [v |-> x.s, f |-> IF kind \in {"shl", "shr", "sar"} THEN FlagSzp(g, h, x.s) ELSE g]
      BY <2>1, Zenon DEF OpShift
    <3> QED
      BY <3>1
  <2> HIDE DEF x, g
  <2>5. r(kind).f.cf = x.c
    BY <2>2, <2>3, <2>4
  <2> QED
    BY <2>4, <2>5 DEF x
<1> HIDE DEF r, Once
<1>6. /\ r("shl").v = (2 * a) % (2 * h) /\ r("shl").f.cf = Bit(a, h)
      /\ r("rcl").v = ((2 * a) % (2 * h)) + f.cf /\ r("rcl").f.cf = Bit(a, h)
      /\ r("shr").v = a \div 2 /\ r("shr").f.cf = a % 2
      /\ r("rcr").v = (a \div 2) + h * f.cf /\ r("rcr").f.cf = a % 2
      /\ r("sar").v = (a \div 2) + h * Bit(a, h) /\ r("sar").f.cf = a % 2
  BY <1>2, <1>4, <1>5 DEF Operand
<1>7. a \div 2 \in 0 .. h - 1 /\ a % 2 \in 0 .. 1 /\ 2 * (a \div 2) + (a % 2) = a
  BY DEF Operand
<1>8. /\ r("shl").v \in Operand(h) /\ r("rcl").v \in Operand(h)
      /\ r("shl").v + 2 * h * r("shl").f.cf = 2 * a
      /\ r("rcl").v + 2 * h * r("rcl").f.cf = 2 * a + f.cf
  <2>1. /\ r("shl").v = (2 * a) - 2 * h * Bit(a, h) /\ Bit(a, h) \in 0 .. 1
        /\ r("rcl").v = ((2 * a) - 2 * h * Bit(a, h)) + f.cf
        /\ (2 * a) - 2 * h * Bit(a, h) \in 0 .. 2 * h - 2
    <3>1. CASE a >= h
      BY <1>1, <1>2, <1>6, <3>1 DEF Operand
    <3>2. CASE ~(a >= h)
      BY <1>1, <1>2, <1>6, <3>2 DEF Operand
    <3> QED
      BY <3>1, <3>2
  <2>2. r("shl").f.cf = Bit(a, h) /\ r("rcl").f.cf = Bit(a, h)
    BY <1>6
  <2> DEFINE up == 2 * h * Bit(a, h)
  <2>3. up \in Int /\ 2 * h * r("shl").f.cf = up /\ 2 * h * r("rcl").f.cf = up
    BY <2>1, <2>2
  <2> HIDE DEF up
  <2>4. r("shl").v = (2 * a) - up /\ r("rcl").v = ((2 * a) - up) + f.cf
    BY <2>1 DEF up
  <2>5. (2 * a) - up \in 0 .. 2 * h - 2
    BY <2>1 DEF up
  <2> QED
    BY <1>3, <2>3, <2>4, <2>5 DEF Operand
<1>9. /\ r("shr").v \in Operand(h) /\ 2 * r("shr").v + r("shr").f.cf = a
  BY <1>6, <1>7 DEF Operand
<1>10. /\ r("rcr").v \in Operand(h) /\ 2 * r("rcr").v + r("rcr").f.cf = a + 2 * h * f.cf
  BY <1>3, <1>6, <1>7 DEF Operand
<1>11. /\ r("sar").v \in Operand(h)
       /\ 2 * Signed(h, r("sar").v) + r("sar").f.cf = Signed(h, a)
  BY <1>1, <1>6, <1>7 DEF Operand, Signed
<1> QED
  BY <1>8, <1>9, <1>10, <1>11 DEF r

-----------------------------------------------------------------------------
(* Products *)

\* Quotient and remainder of any integer.
LEMMA Quotients ==
  ASSUME NEW p \in Int, NEW d \in Nat \ {0}
  PROVE  p \div d \in Int /\ p % d \in 0 .. d - 1 /\ p = d * (p \div d) + (p % d)
  OBVIOUS

\* A number is at least a whole number of divisors iff its quotient is.
LEMMA QuotientBound ==
  ASSUME NEW q \in Int, NEW d \in Nat \ {0}, NEW m \in 0 .. d - 1, NEW k \in Int
  PROVE  q >= k <=> d * q + m >= d * k
<1>1. ASSUME q >= k PROVE d * q >= d * k
  BY <1>1
<1>2. ASSUME q < k PROVE d * (q + 1) <= d * k
  <2>1. q + 1 <= k
    BY <1>2
  <2> QED
    BY <2>1
<1>3. d * (q + 1) = d * q + d /\ d * q \in Int /\ d * k \in Int
  OBVIOUS
<1>4. CASE q >= k
  BY <1>1, <1>3, <1>4
<1>5. CASE q < k
  BY <1>2, <1>3, <1>5
<1> QED
  BY <1>4, <1>5

\* What divides a number into quotient and remainder is unique.
LEMMA Reassembled ==
  ASSUME NEW d \in Nat \ {0}, NEW u \in Int, NEW v \in 0 .. d - 1
  PROVE  (u * d + v) % d = v /\ (u * d + v) \div d = u
<1> DEFINE s == u * d + v
           q == s \div d
           m == s % d
<1>1. s \in Int
  OBVIOUS
<1>2. q \in Int /\ m \in 0 .. d - 1 /\ s = d * q + m
  <2> HIDE DEF s
  <2> QED
    BY <1>1, Quotients
<1> HIDE DEF q, m
<1>3. q >= u <=> d * q + m >= d * u
  BY <1>2, QuotientBound
<1>4. q >= u + 1 <=> d * q + m >= d * (u + 1)
  BY <1>2, QuotientBound
<1>5. d * u \in Int /\ d * (u + 1) = d * u + d /\ u * d = d * u
  OBVIOUS
<1>6. q = u
  BY <1>2, <1>3, <1>4, <1>5
<1>7. m = v
  BY <1>2, <1>5, <1>6
<1> QED
  BY <1>6, <1>7 DEF q, m

(* MUL of any width (op_grp3): both halves together are the product, and    *)
(* the carry says that the lower half alone is not.                         *)
THEOREM MulExact ==
  ASSUME NEW f \in Flags, NEW h \in Nat \ {0}, NEW a \in Operand(h), NEW b \in Operand(h)
  PROVE  LET r == OpMul(f, h, a, b)
         IN  /\ r.lo \in Operand(h) /\ r.hi \in Operand(h)
             /\ 2 * h * r.hi + r.lo = a * b
             /\ r.f.cf = Flag(a * b >= 2 * h)
<1> DEFINE r == OpMul(f, h, a, b)
           d == 2 * h
           p == a * b
           lo == p % d
           hi == p \div d
<1>1. d \in Nat \ {0} /\ a \in 0 .. d - 1 /\ b \in 0 .. d - 1
  BY DEF Operand
<1> HIDE DEF d
<1>2. p \in Nat /\ p < d * d
  <2>1. a * b <= a * d
    BY <1>1
  <2>2. a * d <= (d - 1) * d
    BY <1>1
  <2>3. (d - 1) * d < d * d
    BY <1>1
  <2>4. a * b \in Nat /\ a * d \in Int /\ (d - 1) * d \in Int /\ d * d \in Int
    BY <1>1
  <2> QED
    BY <2>1, <2>2, <2>3, <2>4
<1> HIDE DEF p
<1>3. hi \in Int /\ lo \in 0 .. d - 1 /\ p = d * hi + lo
  <2>1. p \in Int
    BY <1>2
  <2> QED
    BY <1>1, <2>1, Quotients
<1> HIDE DEF hi, lo
<1>4. hi \in 0 .. d - 1
  <2>1. hi >= 0 <=> d * hi + lo >= d * 0
    BY <1>1, <1>3, QuotientBound
  <2>2. hi >= d <=> d * hi + lo >= d * d
    BY <1>1, <1>3, QuotientBound
  <2>3. d * 0 = 0 /\ d * d \in Int
    BY <1>1
  <2> QED
    BY <1>1, <1>2, <1>3, <2>1, <2>2, <2>3
<1>5. hi # 0 <=> p >= d
  <2>1. hi >= 1 <=> d * hi + lo >= d * 1
    BY <1>1, <1>3, QuotientBound
  <2> QED
    BY <1>1, <1>3, <1>4, <2>1
<1>6. Double(h, p) = [lo |-> lo, hi |-> hi]
  <2>1. hi % d = hi
    BY <1>1, <1>4
  <2> QED
    BY <2>1 DEF Double, d, lo, hi
<1>7. r.lo = lo /\ r.hi = hi /\ r.f = FlagMul(FlagSzp(f, h, lo), hi)
  BY <1>6 DEF OpMul, p
<1>8. FlagMul(FlagSzp(f, h, lo), hi).cf = Flag(hi # 0)
  <2>1. "cf" \in DOMAIN FlagSzp(f, h, lo)
    BY DEF FlagSzp, Flags
  <2> QED
    BY <2>1 DEF FlagMul
<1> HIDE DEF r
<1>9. /\ r.lo \in 0 .. d - 1 /\ r.hi \in 0 .. d - 1
      /\ d * r.hi + r.lo = p
      /\ r.f.cf = Flag(p >= d)
  BY <1>3, <1>4, <1>5, <1>7, <1>8
<1> QED
  BY <1>9 DEF r, p, d, Operand

\* A signed operand lies between minus its sign's weight and its sign's weight.
LEMMA SignedRange ==
  ASSUME NEW h \in Nat \ {0}, NEW a \in Operand(h)
  PROVE  Signed(h, a) \in -h .. h - 1
  BY DEF Operand, Signed

(* IMUL of any width (op_grp3): both halves together are, as two's complement*)
(* of twice the width, the product of the operands as two's complement.     *)
THEOREM ImulExact ==
  ASSUME NEW f \in Flags, NEW h \in Nat \ {0}, NEW a \in Operand(h), NEW b \in Operand(h)
  PROVE  LET r == OpImul(f, h, a, b)
         IN  /\ r.lo \in Operand(h) /\ r.hi \in Operand(h)
             /\ Signed(2 * h * h, 2 * h * r.hi + r.lo) = Signed(h, a) * Signed(h, b)
<1> DEFINE r == OpImul(f, h, a, b)
           x == Signed(h, a)
           y == Signed(h, b)
           p == x * y
           d == 2 * h
           lo == p % d
           q == p \div d
           hi == q % d
           hh == h * h
<1>1. x \in -h .. h /\ y \in -h .. h
  BY SignedRange
<1> HIDE DEF x, y
<1>2. p \in -hh .. hh
  <2>1. ASSUME NEW u \in 0 .. h, NEW v \in 0 .. h PROVE u * v \in 0 .. hh
    <3>1. u * v <= u * h
      OBVIOUS
    <3>2. u * h <= h * h
      OBVIOUS
    <3>3. u * v \in Nat /\ u * h \in Int /\ h * h \in Int
      OBVIOUS
    <3> QED
      BY <3>1, <3>2, <3>3
  <2>2. hh \in Int
    OBVIOUS
  <2>3. CASE x >= 0 /\ y >= 0
    <3>1. x * y \in 0 .. hh
      BY <1>1, <2>1, <2>3
    <3> QED
      BY <2>2, <3>1
  <2>4. CASE x < 0 /\ y >= 0
    <3>1. (-x) * y \in 0 .. hh
      BY <1>1, <2>1, <2>4
    <3>2. (-x) * y = -(x * y) /\ x * y \in Int
      BY <1>1
    <3> QED
      BY <2>2, <3>1, <3>2
  <2>5. CASE x >= 0 /\ y < 0
    <3>1. x * (-y) \in 0 .. hh
      BY <1>1, <2>1, <2>5
    <3>2. x * (-y) = -(x * y) /\ x * y \in Int
      BY <1>1
    <3> QED
      BY <2>2, <3>1, <3>2
  <2>6. CASE x < 0 /\ y < 0
    <3>1. (-x) * (-y) \in 0 .. hh
      BY <1>1, <2>1, <2>6
    <3>2. (-x) * (-y) = x * y /\ x * y \in Int
      BY <1>1
    <3> QED
      BY <2>2, <3>1, <3>2
  <2> QED
    BY <1>1, <2>3, <2>4, <2>5, <2>6
<1>3. /\ hh \in Nat \ {0} /\ h <= hh
      /\ d \in Nat \ {0}
      /\ d * h = 2 * hh
      /\ d * d = 4 * hh
      /\ 2 * h * h = 2 * hh
  OBVIOUS
<1> HIDE DEF p, hh
<1>4. q \in Int /\ lo \in 0 .. d - 1 /\ p = d * q + lo
  <2> HIDE DEF d
  <2> QED
    BY <1>2, <1>3, Quotients
<1> HIDE DEF q, lo
<1>5. q >= -h /\ q < h
  <2>1. q >= -h <=> d * q + lo >= d * (-h)
    <3> HIDE DEF d
    <3> QED
      BY <1>3, <1>4, QuotientBound
  <2>2. q >= h <=> d * q + lo >= d * h
    <3> HIDE DEF d
    <3> QED
      BY <1>3, <1>4, QuotientBound
  <2>3. d * (-h) = -(2 * hh)
    BY <1>3
  <2> QED
    BY <1>2, <1>3, <1>4, <2>1, <2>2, <2>3
<1>6. hi = IF q < 0 THEN q + d ELSE q
  <2>1. q \in -(2 * h) .. 2 * h - 1
    BY <1>4, <1>5
  <2> QED
    BY <2>1, DifferenceResidue
<1>7. q >= 0 <=> p >= 0
  <2>1. q >= 0 <=> d * q + lo >= d * 0
    <3> HIDE DEF d
    <3> QED
      BY <1>3, <1>4, QuotientBound
  <2> QED
    BY <1>3, <1>4, <2>1
<1>8. Double(h, p) = [lo |-> lo, hi |-> hi]
  BY DEF Double, lo, q
<1>9. r.lo = lo /\ r.hi = hi
  BY <1>8 DEF OpImul, p, x, y
<1>10. d * hi + lo = IF p < 0 THEN p + 4 * hh ELSE p
  <2>1. CASE p >= 0
    BY <1>4, <1>6, <1>7, <2>1
  <2>2. CASE p < 0
    <3>1. hi = q + d
      BY <1>2, <1>3, <1>4, <1>6, <1>7, <2>2
    <3>2. d * (q + d) = d * q + d * d
      BY <1>3, <1>4
    <3>3. d * hi = d * q + d * d
      BY <3>1, <3>2, Zenon
    <3>4. d * q \in Int /\ lo \in Int /\ p \in Int /\ hh \in Int
      BY <1>2, <1>3, <1>4
    <3> HIDE DEF hi, d
    <3> QED
      BY <1>3, <1>4, <2>2, <3>3, <3>4
  <2> QED
    BY <1>2, <1>3, <2>1, <2>2
<1> HIDE DEF hi, r
<1>11. Signed(2 * hh, d * hi + lo) = p
  <2> DEFINE w == d * hi + lo
  <2>1. w = IF p < 0 THEN p + 4 * hh ELSE p
    BY <1>10
  <2> HIDE DEF w
  <2>2. Signed(2 * hh, w) = IF w >= 2 * hh THEN w - 2 * (2 * hh) ELSE w
    BY DEF Signed
  <2>3. Signed(2 * hh, w) = p
    BY <1>2, <1>3, <2>1, <2>2
  <2> QED
    BY <2>3 DEF w
<1>12. r.lo \in Operand(h) /\ r.hi \in Operand(h)
  BY <1>4, <1>5, <1>6, <1>9 DEF Operand
<1>13. Signed(2 * h * h, 2 * h * r.hi + r.lo) = p
  <2>1. 2 * h * h = 2 * hh /\ 2 * h * hi + lo = d * hi + lo
    BY <1>3
  <2> QED
    BY <1>9, <1>11, <2>1
<1> QED
  BY <1>12, <1>13 DEF r, p, x, y

(* AAM splits AL into its two digits, and AAD puts them together again, for *)
(* any base but zero (op 0xD4 and 0xD5).                                    *)
THEOREM AadUndoesAam ==
  ASSUME NEW f \in Flags, NEW g \in Flags, NEW al \in Operand(ByteSign),
         NEW ah \in Operand(ByteSign), NEW base \in 1 .. Byte - 1
  PROVE  LET x == OpAam(f, ah * Byte + al, base).v
         IN  /\ x % Byte \in 0 .. base - 1
             /\ OpAad(g, x, base).v = al
<1> DEFINE lo == al % base
           hi == al \div base
           x == hi * Byte + lo
<1>1. Byte \in Nat \ {0} /\ al \in 0 .. Byte - 1 /\ ah \in 0 .. Byte - 1 /\ base \in Nat \ {0}
  BY CpuAluAssumption DEF Operand, Byte
<1>2. \A u \in Int, v \in 0 .. Byte - 1 :
        (u * Byte + v) % Byte = v /\ (u * Byte + v) \div Byte = u
  BY <1>1, Reassembled
<1>3. (ah * Byte + al) % Byte = al
  BY <1>1, <1>2
<1>4. hi \in Int /\ lo \in 0 .. base - 1 /\ al = base * hi + lo
  BY <1>1, Quotients
<1>5. OpAam(f, ah * Byte + al, base).v = x
  BY <1>3 DEF OpAam
<1> HIDE DEF hi, lo
<1>6. lo \in 0 .. Byte - 1
  BY <1>1, <1>4
<1>7. x % Byte = lo /\ x \div Byte = hi
  BY <1>2, <1>4, <1>6
<1> HIDE DEF x
<1>8. OpAad(g, x, base).v = (hi * base + lo) % Byte
  BY <1>7 DEF OpAad
<1>9. hi * base + lo = al
  BY <1>1, <1>4
<1>10. al % Byte = al
  BY <1>1
<1> QED
  BY <1>4, <1>5, <1>7, <1>8, <1>9, <1>10 DEF x

-----------------------------------------------------------------------------
(* Unpacked decimals *)

\* A byte is two nibbles and a word two bytes, of an even number of values.
LEMMA Sizes ==
  /\ Nibble \in Nat /\ Nibble >= 2 /\ Nibble % 2 = 0
  /\ Digits \in Nat /\ 2 <= Digits /\ Digits <= Nibble
  /\ ByteSign \in Nat \ {0} /\ 2 * ByteSign = Byte
  /\ Byte = Nibble * Nibble /\ Byte >= 2 * Nibble
  /\ Word = Byte * Byte
<1>1. /\ ByteSign \in Nat \ {0} /\ Nibble \in Nat /\ 2 * ByteSign = Nibble * Nibble
      /\ Digits \in Nat /\ 2 <= Digits /\ Digits <= Nibble
  BY CpuAluAssumption
<1>2. Nibble % 2 = 0
  <2> DEFINE k == Nibble \div 2
  <2>1. k \in Int /\ (Nibble = 2 * k \/ Nibble = 2 * k + 1)
    BY <1>1
  <2> HIDE DEF k
  <2>2. CASE Nibble = 2 * k
    BY <2>1, <2>2
  <2>3. CASE Nibble = 2 * k + 1
    <3>1. Nibble * Nibble = 2 * (2 * (k * k) + 2 * k) + 1 /\ k * k \in Int
      BY <2>1, <2>3
    <3> QED
      BY <1>1, <2>1, <3>1
  <2> QED
    BY <2>1, <2>2, <2>3
<1>3. Nibble * Nibble >= 2 * Nibble
  BY <1>1
<1>4. Byte = Nibble * Nibble /\ 2 * ByteSign = Byte
  BY <1>1 DEF Byte
<1>5. Word = Byte * Byte
  BY <1>1 DEF Word, WordSign, Byte
<1> QED
  BY <1>1, <1>2, <1>3, <1>4, <1>5

\* A word and its bytes, and what KeepDigit leaves of it.
LEMMA BytesOfWord ==
  ASSUME NEW u \in Int, NEW v \in 0 .. Byte - 1
  PROVE  /\ (u * Byte + v) % Byte = v /\ (u * Byte + v) \div Byte = u
         /\ (u * Byte + v) % Word = (u % Byte) * Byte + v
         /\ (u * Byte + v) % Nibble = v % Nibble
         /\ KeepDigit(u * Byte + v) = u * Byte + (v % Nibble)
<1>1. Byte \in Nat \ {0} /\ Nibble \in Nat \ {0} /\ Word \in Nat \ {0}
  BY Sizes
<1>2. (u * Byte + v) % Byte = v /\ (u * Byte + v) \div Byte = u
  BY <1>1, Reassembled
<1>3. (u * Byte + v) % Word = (u % Byte) * Byte + v
  <2> DEFINE q == u \div Byte
             m == u % Byte
  <2>1. q \in Int /\ m \in 0 .. Byte - 1 /\ u = Byte * q + m
    BY <1>1, Quotients
  <2> HIDE DEF q, m
  <2>2. u * Byte + v = q * Word + (m * Byte + v)
    <3>1. u * Byte = q * (Byte * Byte) + m * Byte
      BY <1>1, <2>1
    <3>2. q * (Byte * Byte) \in Int /\ m * Byte \in Int
      BY <1>1, <2>1
    <3> QED
      BY <3>1, <3>2, Sizes
  <2>3. m * Byte + v \in 0 .. Word - 1
    <3>1. m * Byte >= 0 /\ m * Byte <= (Byte - 1) * Byte
      BY <1>1, <2>1
    <3>2. (Byte - 1) * Byte = Word - Byte /\ m * Byte \in Int
      BY <1>1, <2>1, Sizes
    <3> QED
      BY <1>1, <3>1, <3>2
  <2>4. (q * Word + (m * Byte + v)) % Word = m * Byte + v
    <3> DEFINE w == m * Byte + v
    <3>1. w \in 0 .. Word - 1
      BY <2>3
    <3> HIDE DEF w
    <3>2. (q * Word + w) % Word = w
      BY <1>1, <2>1, <3>1, Reassembled
    <3> QED
      BY <3>2 DEF w
  <2> QED
    BY <2>2, <2>4 DEF m
<1>4. (u * Byte + v) % Nibble = v % Nibble
  <2> DEFINE q == v \div Nibble
             m == v % Nibble
  <2>1. q \in Int /\ m \in 0 .. Nibble - 1 /\ v = Nibble * q + m
    BY <1>1, Quotients
  <2> HIDE DEF q, m
  <2>2. u * Byte + v = (u * Nibble + q) * Nibble + m
    BY <1>1, <2>1, Sizes
  <2>3. u * Nibble + q \in Int
    BY <1>1, <2>1
  <2>4. ((u * Nibble + q) * Nibble + m) % Nibble = m
    BY <1>1, <2>1, <2>3, Reassembled
  <2> QED
    BY <2>2, <2>4 DEF m
<1>5. KeepDigit(u * Byte + v) = u * Byte + (v % Nibble)
  BY <1>2, <1>4 DEF KeepDigit
<1> QED
  BY <1>2, <1>3, <1>4, <1>5

(* ADD and AAA: two digits give the digit of their sum, and AH and the      *)
(* carry count what goes beyond it, for any base of a digit (op 0x37).      *)
THEOREM AaaExact ==
  ASSUME NEW f \in Flags, NEW a \in 0 .. Digits - 1, NEW b \in 0 .. Digits - 1,
         NEW ah \in 0 .. Byte - 1
  PROVE  LET sum == OpAdd(f, ByteSign, a, b)
             x == OpAaa(sum.f, ah * Byte + sum.v)
             carry == Flag(a + b >= Digits)
         IN  x.v = ((ah + carry) % Byte) * Byte + ((a + b) - carry * Digits) /\ x.f.cf = carry
<1> DEFINE sum == OpAdd(f, ByteSign, a, b)
           s == a + b
           g == FlagAdc(f, ByteSign, a, b, 0)
           ax == ah * Byte + s
           over == s >= Digits
<1>1. /\ a \in Nat /\ b \in Nat /\ s \in 0 .. 2 * Digits - 2 /\ s \in 0 .. Byte - 1
      /\ a < Nibble /\ b < Nibble /\ ah \in Int
  BY Sizes
<1>2. sum.v = s /\ sum.f = g
  <2>1. s % Byte = s
    BY <1>1, Sizes
  <2> QED
    BY <2>1, Sizes DEF OpAdd
<1>3. g \in Flags
  <2>1. a \in Operand(ByteSign) /\ b \in Operand(ByteSign)
    BY <1>1, Sizes DEF Operand
  <2> QED
    BY <2>1, Sizes, AddFlags
<1>4. g.af = Flag(s >= Nibble)
  <2>1. g.af = XorBit(a, b, s, Nibble)
    <3>1. "af" \in DOMAIN FlagSzp(f, ByteSign, (a + b + 0) % (2 * ByteSign))
      BY DEF FlagSzp, Flags
    <3>2. a + b + 0 = s
      BY <1>1
    <3> QED
      BY <3>1, <3>2 DEF FlagAdc
  <2>2. Bit(a, Nibble) = 0 /\ Bit(b, Nibble) = 0
    <3>1. a \div Nibble = 0 /\ b \div Nibble = 0
      BY <1>1, Sizes
    <3> QED
      BY <3>1 DEF Bit
  <2>3. Bit(s, Nibble) = Flag(s >= Nibble)
    <3>1. s \div Nibble = IF s >= Nibble THEN 1 ELSE 0
      BY <1>1, Sizes
    <3> QED
      BY <3>1 DEF Bit, Flag
  <2> QED
    BY <2>1, <2>2, <2>3 DEF XorBit, Flag
<1> HIDE DEF sum, s, g
<1>5. ax % Byte = s
  BY <1>1, BytesOfWord
<1>6. s % Nibble = IF s >= Nibble THEN s - Nibble ELSE s
  BY <1>1, Sizes
<1>7. LowDigitOver(s, g) <=> over
  BY <1>1, <1>4, <1>6, Sizes DEF LowDigitOver, Flag
<1>8. CASE over
  <2> DEFINE v == s + Adjust
  <2>1. v \in 0 .. Byte - 1 /\ v % Nibble = s - Digits
    <3>1. v = (s - Digits) + Nibble /\ s - Digits \in 0 .. Nibble - 1
      BY <1>1, <1>8, Sizes DEF Adjust
    <3>2. v % Nibble = s - Digits
      BY <3>1, Sizes
    <3>3. Byte \in Nat /\ Byte >= 2 * Nibble /\ Nibble \in Nat
      BY Sizes
    <3> HIDE DEF v
    <3>4. v \in 0 .. Byte - 1
      BY <3>1, <3>3
    <3> QED
      BY <3>2, <3>4
  <2>2. ax + Byte + Adjust = (ah + 1) * Byte + v
    BY <1>1, Sizes DEF Adjust
  <2> HIDE DEF v
  <2>3. ah + 1 \in Int /\ (ah + 1) % Byte \in Int
    BY <1>1, Sizes
  <2>4. ((ah + 1) * Byte + v) % Word = ((ah + 1) % Byte) * Byte + v
    BY <2>1, <2>3, BytesOfWord
  <2>5. KeepDigit(((ah + 1) % Byte) * Byte + v) = ((ah + 1) % Byte) * Byte + (s - Digits)
    <3> DEFINE u == (ah + 1) % Byte
    <3> HIDE DEF u
    <3>1. KeepDigit(u * Byte + v) = u * Byte + (v % Nibble)
      BY <2>1, <2>3, BytesOfWord DEF u
    <3> QED
      BY <2>1, <3>1 DEF u
  <2>6. OpAaa(g, ax).v = ((ah + 1) % Byte) * Byte + (s - Digits)
    BY <1>5, <1>7, <1>8, <2>2, <2>4, <2>5, Zenon DEF OpAaa
  <2>7. OpAaa(g, ax).f.cf = 1
    BY <1>3, <1>5, <1>7, <1>8 DEF OpAaa, Flags
  <2>8. Flag(s >= Digits) = 1 /\ s - 1 * Digits = s - Digits
    BY <1>1, <1>8, Sizes DEF Flag
  <2>9. OpAaa(g, ax).v = ((ah + Flag(s >= Digits)) % Byte) * Byte + (s - Flag(s >= Digits) * Digits)
    BY <2>6, <2>8, Zenon
  <2> QED
    BY <1>2, <2>7, <2>8, <2>9, Zenon DEF s, sum
<1>9. CASE ~over
  <2>1. KeepDigit(ax) = ah * Byte + s
    <3>1. s % Nibble = s
      BY <1>1, <1>6, <1>9, Sizes
    <3> QED
      BY <1>1, <3>1, BytesOfWord
  <2>2. OpAaa(g, ax).v = ah * Byte + s
    BY <1>5, <1>7, <1>9, <2>1 DEF OpAaa
  <2>3. OpAaa(g, ax).f.cf = 0
    BY <1>3, <1>5, <1>7, <1>9 DEF OpAaa, Flags
  <2>4. /\ Flag(s >= Digits) = 0 /\ s - 0 * Digits = s
        /\ ah + 0 = ah /\ ah % Byte = ah
    BY <1>1, <1>9, Sizes DEF Flag
  <2>5. OpAaa(g, ax).v = ((ah + Flag(s >= Digits)) % Byte) * Byte + (s - Flag(s >= Digits) * Digits)
    BY <2>2, <2>4, Zenon
  <2> QED
    BY <1>2, <2>3, <2>4, <2>5, Zenon DEF s, sum
<1> QED
  BY <1>8, <1>9

(* SUB and AAS: two digits give the digit of their difference, and AH and   *)
(* the carry count what is borrowed (op 0x3F).                              *)
THEOREM AasExact ==
  ASSUME NEW f \in Flags, NEW a \in 0 .. Digits - 1, NEW b \in 0 .. Digits - 1,
         NEW ah \in 0 .. Byte - 1
  PROVE  LET diff == OpSub(f, ByteSign, a, b)
             x == OpAas(diff.f, ah * Byte + diff.v)
             borrow == Flag(a < b)
         IN  x.v = ((ah - borrow) % Byte) * Byte + ((a - b) + borrow * Digits) /\ x.f.cf = borrow
<1> DEFINE diff == OpSub(f, ByteSign, a, b)
           s == a - b
           d == s % Byte
           g == FlagSub(f, ByteSign, a, b)
           ax == ah * Byte + d
           over == s < 0
<1>1. /\ a \in Nat /\ b \in Nat /\ s \in -(Digits - 1) .. Digits - 1
      /\ a < Nibble /\ b < Nibble /\ ah \in Int
      /\ Byte \in Nat \ {0} /\ Nibble \in Nat \ {0} /\ Byte >= 2 * Nibble /\ Byte = Nibble * Nibble
      /\ Digits \in Nat /\ Digits <= Nibble /\ Digits >= 2
  BY Sizes
<1>2. diff.v = d /\ diff.f = g
  BY Sizes DEF OpSub
<1>3. "af" \in DOMAIN g /\ "cf" \in DOMAIN g
  <2>1. /\ "af" \in DOMAIN FlagSzp(f, ByteSign, (a - b) % (2 * ByteSign))
        /\ "cf" \in DOMAIN FlagSzp(f, ByteSign, (a - b) % (2 * ByteSign))
    BY DEF FlagSzp, Flags
  <2> QED
    BY <2>1 DEF FlagSub
<1>4. d = (IF over THEN s + Byte ELSE s) /\ d \in 0 .. Byte - 1
  <2>1. ByteSign \in Nat \ {0} /\ 2 * ByteSign = Byte
    BY Sizes
  <2>2. s \in -(2 * ByteSign) .. 2 * ByteSign - 1
    <3> HIDE DEF s
    <3>1. s \in Int /\ -Digits <= s /\ s <= Digits
      BY <1>1
    <3> QED
      BY <1>1, <2>1, <3>1
  <2> HIDE DEF s
  <2>3. s % (2 * ByteSign) = IF s < 0 THEN s + 2 * ByteSign ELSE s
    BY <2>1, <2>2, DifferenceResidue
  <2>4. d = IF over THEN s + Byte ELSE s
    BY <2>1, <2>3
  <2> HIDE DEF d
  <2> QED
    BY <2>1, <2>2, <2>4
<1> HIDE DEF diff, d
<1>5. g.af = Flag(over)
  <2>1. g.af = XorBit(a, b, d, Nibble)
    <3>1. "af" \in DOMAIN FlagSzp(f, ByteSign, (a - b) % (2 * ByteSign))
      BY DEF FlagSzp, Flags
    <3>2. (a - b) % (2 * ByteSign) = d
      BY Sizes DEF d
    <3> QED
      BY <3>1, <3>2 DEF FlagSub
  <2>2. Bit(a, Nibble) = 0 /\ Bit(b, Nibble) = 0
    <3>1. a \div Nibble = 0 /\ b \div Nibble = 0
      BY <1>1
    <3> QED
      BY <3>1 DEF Bit
  <2> HIDE DEF g, s
  <2>3. CASE over
    <3>1. s + Nibble \in 0 .. Nibble - 1
      BY <1>1, <2>3
    <3>2. d = (Nibble - 1) * Nibble + (s + Nibble)
      <4>1. (Nibble - 1) * Nibble = Byte - Nibble
        BY <1>1
      <4> QED
        BY <1>1, <1>4, <2>3, <4>1
    <3>3. d \div Nibble = Nibble - 1
      <4> DEFINE m == s + Nibble
                 k == Nibble - 1
      <4>1. k \in Int /\ m \in 0 .. Nibble - 1
        BY <1>1, <3>1
      <4> HIDE DEF m, k
      <4>2. (k * Nibble + m) \div Nibble = k
        BY <1>1, <4>1, Reassembled
      <4> QED
        BY <3>2, <4>2 DEF m, k
    <3>4. Nibble % 2 = 0
      BY Sizes
    <3>5. Bit(d, Nibble) = 1
      <4>1. (Nibble - 1) % 2 = 1
        BY <1>1, <3>4
      <4> QED
        BY <3>3, <4>1 DEF Bit
    <3> QED
      BY <2>1, <2>2, <2>3, <3>5 DEF XorBit, Flag
  <2>4. CASE ~over
    <3>1. d \div Nibble = 0
      <4>1. d \in 0 .. Nibble - 1
        BY <1>1, <1>4, <2>4
      <4> QED
        BY <1>1, <4>1
    <3>2. Bit(d, Nibble) = 0
      BY <3>1 DEF Bit
    <3> QED
      BY <2>1, <2>2, <2>4, <3>2 DEF XorBit, Flag
  <2> QED
    BY <2>3, <2>4
<1> HIDE DEF s, g
<1>6. ax % Byte = d
  BY <1>1, <1>4, BytesOfWord
<1>7. LowDigitOver(d, g) <=> over
  <2>1. CASE over
    BY <1>5, <2>1 DEF LowDigitOver, Flag
  <2>2. CASE ~over
    <3>1. d % Nibble = s /\ ~(s > Digits - 1)
      BY <1>1, <1>4, <2>2
    <3> QED
      BY <1>5, <2>2, <3>1 DEF LowDigitOver, Flag
  <2> QED
    BY <2>1, <2>2
<1>8. CASE over
  <2> DEFINE v == d - Adjust
             up == (ah * Byte + v) % Word
  <2>1. v \in 0 .. Byte - 1 /\ v % Nibble = s + Digits
    <3>1. /\ s + Digits \in 0 .. Nibble - 1
          /\ v = (Nibble - 1) * Nibble + (s + Digits)
          /\ v = (Byte - Nibble) + (s + Digits)
      <4>1. (Nibble - 1) * Nibble = Byte - Nibble
        BY <1>1
      <4> QED
        BY <1>1, <1>4, <1>8, <4>1 DEF Adjust
    <3> DEFINE m == s + Digits
               k == Nibble - 1
    <3>2. k \in Int /\ m \in 0 .. Nibble - 1 /\ v = k * Nibble + m /\ v = (Byte - Nibble) + m
      BY <1>1, <3>1
    <3> HIDE DEF v, m, k
    <3>3. v % Nibble = m
      BY <1>1, <3>2, Reassembled
    <3>4. v \in 0 .. Byte - 1
      BY <1>1, <3>2
    <3> QED
      BY <3>3, <3>4 DEF m
  <2>2. ax - Adjust = ah * Byte + v
    BY <1>1, <1>4 DEF Adjust
  <2> HIDE DEF v
  <2>3. up = ah * Byte + v
    <3>1. ah % Byte = ah
      BY <1>1
    <3>2. (ah * Byte + v) % Word = (ah % Byte) * Byte + v
      BY <1>1, <2>1, BytesOfWord
    <3> QED
      BY <3>1, <3>2, Zenon
  <2> HIDE DEF up
  <2>4. up - Byte = (ah - 1) * Byte + v
    <3>1. (ah - 1) * Byte = ah * Byte - Byte /\ ah * Byte \in Int /\ v \in Int
      BY <1>1, <2>1
    <3> QED
      BY <1>1, <2>3, <3>1
  <2>5. ah - 1 \in Int /\ (ah - 1) % Byte \in Int
    BY <1>1
  <2>6. ((ah - 1) * Byte + v) % Word = ((ah - 1) % Byte) * Byte + v
    BY <2>1, <2>5, BytesOfWord
  <2>7. KeepDigit(((ah - 1) % Byte) * Byte + v) = ((ah - 1) % Byte) * Byte + (s + Digits)
    <3> DEFINE u == (ah - 1) % Byte
    <3> HIDE DEF u
    <3>1. KeepDigit(u * Byte + v) = u * Byte + (v % Nibble)
      BY <2>1, <2>5, BytesOfWord DEF u
    <3> QED
      BY <2>1, <3>1 DEF u
  <2>8. OpAas(g, ax).v = KeepDigit((up - Byte) % Word) /\ OpAas(g, ax).f.cf = 1
    <3> DEFINE k == KeepDigit((up - Byte) % Word)
               e == [g EXCEPT !.af = 1, !.cf = 1]
    <3>1. OpAas(g, ax) = [v |-> k, f |-> e]
      BY <1>6, <1>7, <1>8, <2>2, Zenon DEF OpAas, up
    <3>2. e.cf = 1
      BY <1>3
    <3> HIDE DEF k, e
    <3>3. OpAas(g, ax).v = k /\ OpAas(g, ax).f = e
      BY <3>1
    <3> QED
      BY <3>2, <3>3 DEF k
  <2>9. Flag(s < 0) = 1 /\ s + 1 * Digits = s + Digits
    BY <1>1, <1>8 DEF Flag
  <2>10. /\ OpAas(g, ax).v
              = ((ah - Flag(s < 0)) % Byte) * Byte + (s + Flag(s < 0) * Digits)
         /\ OpAas(g, ax).f.cf = Flag(s < 0)
    BY <2>4, <2>6, <2>7, <2>8, <2>9, Zenon
  <2>11. a < b <=> s < 0
    BY <1>1 DEF s
  <2> QED
    BY <1>2, <2>10, <2>11, Zenon DEF s, Flag, diff
<1>9. CASE ~over
  <2>1. KeepDigit(ax) = ah * Byte + s
    <3>1. d % Nibble = s
      BY <1>1, <1>4, <1>9
    <3> QED
      BY <1>1, <1>4, <3>1, BytesOfWord
  <2>2. OpAas(g, ax).v = ah * Byte + s /\ OpAas(g, ax).f.cf = 0
    <3> DEFINE k == KeepDigit(ax)
               e == [g EXCEPT !.af = 0, !.cf = 0]
    <3>1. OpAas(g, ax) = [v |-> k, f |-> e]
      BY <1>6, <1>7, <1>9, Zenon DEF OpAas
    <3>2. e.cf = 0
      BY <1>3
    <3> HIDE DEF k, e
    <3>3. OpAas(g, ax).v = k /\ OpAas(g, ax).f = e
      BY <3>1
    <3> QED
      BY <2>1, <3>2, <3>3 DEF k
  <2>3. /\ Flag(s < 0) = 0 /\ s + 0 * Digits = s
        /\ ah - 0 = ah /\ ah % Byte = ah
    BY <1>1, <1>9 DEF Flag
  <2>4. /\ OpAas(g, ax).v
             = ((ah - Flag(s < 0)) % Byte) * Byte + (s + Flag(s < 0) * Digits)
        /\ OpAas(g, ax).f.cf = Flag(s < 0)
    BY <2>2, <2>3, Zenon
  <2>5. a < b <=> s < 0
    BY <1>1 DEF s
  <2> QED
    BY <1>2, <2>4, <2>5, Zenon DEF s, Flag, diff
<1> QED
  BY <1>8, <1>9

\* Only one family of opcodes has an action for the instruction in front.
LEMMA Dispatch ==
  ASSUME Next
  PROVE  \/ Irq
         \/ /\ I.op = "push" => Push \/ PushSeg \/ PushEv
            /\ I.op = "pop" => Pop \/ PopEv
            /\ I.op \in {"neg", "not"} => Negate
            /\ I.op \in {"std", "cld", "clc", "stc", "cmc"} => SetFlag
            /\ I.op = "iret" => Iret
            /\ I.op = "movs" => StringSpent \/ Movs
            /\ I.op = "stos" => StringSpent \/ Stos
            /\ I.op = "lods" => StringSpent \/ Lods
            /\ I.op = "cmps" => StringSpent \/ Cmps
            /\ I.op = "scas" => StringSpent \/ Scas
            /\ I.op = "jmp" => Jmp
            /\ I.op = "jcxz" => Jcxz
            /\ I.op \in {"loop", "loopz", "loopnz"} => Loop
            /\ I.op = "cmp" => Compare
            /\ I.op = "lea" => Lea
            /\ I.op \in {"mul", "imul"} => Multiply
            /\ I.op \in {"div", "idiv"} => Divide \/ DivideError
            /\ I.op = "aam" => Aam \/ AamError
            /\ I.op = "aad" => Aad
            /\ I.op = "cbw" => Cbw
            /\ I.op = "cwd" => Cwd
            /\ I.op = "mov" => Mov
            /\ I.op = "sbb" => Sbb
            /\ I.op = "pushf" => Pushf
            /\ I.op = "popf" => Popf
            /\ I.op = "jcc" => Jcc
<1> USE DEF Next, And, Or, Xor, Add, Adc, Sub, Sbb, Compare, Increment, Decrement,
        TestBits, Grp3, TestEv, Negate, Multiply, Divide, DivideError,
        Grp5, IncDecEv, CallEv, CallMp, JmpEv, JmpMp, PushEv, Shift,
        Aaa, Aas, Daa, Das, Aam, AamError, Aad, Cbw, Cwd, SetFlag,
        Mov, MovSeg, Lea, LoadPointer, Xlat, Xchg, In, Out, Nop, Wait, Esc,
        Push, PushSeg, Pop, PopEv, PopSeg, Pushf, Popf,
        Jcc, Jmp, JmpFar, Loop, Jcxz, Call, CallFar, Ret, RetN, Retf, RetfN,
        IntN, Int3, Into, Iret, StringSpent, Movs, Stos, Lods, Cmps, Scas, Is, Strings
<1>1. I.op = "push" => Irq \/ Push \/ PushSeg \/ PushEv
  OBVIOUS
<1>2. I.op = "pop" => Irq \/ Pop \/ PopEv
  OBVIOUS
<1>3. I.op \in {"neg", "not"} => Irq \/ Negate
  OBVIOUS
<1>4. I.op \in {"std", "cld", "clc", "stc", "cmc"} => Irq \/ SetFlag
  OBVIOUS
<1>5. I.op = "iret" => Irq \/ Iret
  OBVIOUS
<1>6. I.op = "movs" => Irq \/ StringSpent \/ Movs
  OBVIOUS
<1>7. I.op = "stos" => Irq \/ StringSpent \/ Stos
  OBVIOUS
<1>8. I.op = "lods" => Irq \/ StringSpent \/ Lods
  OBVIOUS
<1>9. I.op = "cmps" => Irq \/ StringSpent \/ Cmps
  OBVIOUS
<1>10. I.op = "scas" => Irq \/ StringSpent \/ Scas
  OBVIOUS
<1>11. I.op = "jmp" => Irq \/ Jmp
  OBVIOUS
<1>12. I.op = "jcxz" => Irq \/ Jcxz
  OBVIOUS
<1>13. I.op \in {"loop", "loopz", "loopnz"} => Irq \/ Loop
  OBVIOUS
<1>14. I.op = "cmp" => Irq \/ Compare
  OBVIOUS
<1>15. I.op = "lea" => Irq \/ Lea
  OBVIOUS
<1>16. I.op \in {"mul", "imul"} => Irq \/ Multiply
  OBVIOUS
<1>17. I.op \in {"div", "idiv"} => Irq \/ Divide \/ DivideError
  OBVIOUS
<1>18. I.op = "aam" => Irq \/ Aam \/ AamError
  OBVIOUS
<1>19. I.op = "aad" => Irq \/ Aad
  OBVIOUS
<1>20. I.op = "cbw" => Irq \/ Cbw
  OBVIOUS
<1>21. I.op = "cwd" => Irq \/ Cwd
  OBVIOUS
<1>22. I.op = "mov" => Irq \/ Mov
  OBVIOUS
<1>23. I.op = "sbb" => Irq \/ Sbb
  OBVIOUS
<1>24. I.op = "pushf" => Irq \/ Pushf
  OBVIOUS
<1>25. I.op = "popf" => Irq \/ Popf
  OBVIOUS
<1>26. I.op = "jcc" => Irq \/ Jcc
  OBVIOUS
<1> QED
  BY <1>1, <1>2, <1>3, <1>4, <1>5, <1>6, <1>7, <1>8, <1>9, <1>10, <1>11, <1>12, <1>13, <1>14, <1>15,
     <1>16, <1>17, <1>18, <1>19, <1>20, <1>21, <1>22, <1>23, <1>24, <1>25, <1>26

-----------------------------------------------------------------------------
(* What the instructions of the handlers do *)

\* A byte is narrower than a word, and neither is empty.
LEMMA Widths ==
  /\ ByteSign \in Nat \ {0} /\ WordSign \in Nat \ {0} /\ Byte \in Nat \ {0} /\ Word \in Nat \ {0}
  /\ ByteSign < WordSign /\ Byte = 2 * ByteSign /\ Word = 2 * WordSign /\ Word = Byte * Byte
  /\ Byte >= 4
<1>1. ByteSign \in Nat \ {0} /\ 2 * ByteSign = Byte /\ Word = Byte * Byte /\ Byte >= 4
  BY Sizes
<1>2. WordSign = ByteSign * Byte /\ Word = 2 * WordSign
  BY DEF WordSign, Word
<1>3. ByteSign * Byte >= ByteSign * 4
  BY <1>1
<1> QED
  BY <1>1, <1>2, <1>3

LEMMA PushAx ==
  ASSUME Next, ~Irq, I = I1("push", b16, R("ax"))
  PROVE  /\ stack' = <<regs.ax>> \o stack /\ ip' = ip + 1
         /\ UNCHANGED <<ini, segs, calls, regs, flags, mem>>
<1>1. I.op = "push" /\ I.d.k = "reg" /\ I.d.r = "ax"
  BY DEF I1, I2, R
<1>2. Push
  BY <1>1, Dispatch DEF PushSeg, PushEv
<1>3. Value(I.d) = regs.ax
  BY <1>1 DEF Value, GetReg, Reg
<1> QED
  BY <1>2, <1>3 DEF Push, PushValue, Pushed, Proceed, fixed

LEMMA NegAx ==
  ASSUME Next, ~Irq, I = I1("neg", b16, R("ax"))
  PROVE  /\ regs' = [regs EXCEPT !["ax"] = OpNeg(flags, WordSign, regs.ax).v]
         /\ flags' = OpNeg(flags, WordSign, regs.ax).f /\ ip' = ip + 1
         /\ UNCHANGED <<ini, segs, calls, mem, stack>>
<1>1. I.op = "neg" /\ I.d.k = "reg" /\ I.d.r = "ax" /\ I.w = WordSign
  BY DEF I1, I2, R, b16
<1>2. Result(OpNeg(flags, I.w, Value(I.d)))
  BY <1>1, Dispatch DEF Negate, Is
<1>3. Value(I.d) = regs.ax
  BY <1>1 DEF Value, GetReg, Reg
<1> QED
  BY <1>1, <1>2, <1>3 DEF Result, Store, PutReg, Proceed, fixed, Reg

LEMMA SetDirection ==
  ASSUME Next, ~Irq, I \in {I0("std"), I0("cld")}
  PROVE  /\ flags' = [flags EXCEPT !.df = IF I.op = "std" THEN 1 ELSE 0] /\ ip' = ip + 1
         /\ UNCHANGED <<ini, segs, calls, regs, mem, stack>>
<1>1. I.op \in {"std", "cld"}
  BY DEF I0, I1, I2
<1>2. SetFlag
  BY <1>1, Dispatch
<1> QED
  BY <1>1, <1>2 DEF SetFlag, Is, OnlyFlags, Proceed, fixed

LEMMA PopAx ==
  ASSUME Next, ~Irq, I = I1("pop", b16, R("ax"))
  PROVE  /\ regs' = [regs EXCEPT !["ax"] = Head(stack)] /\ stack' = Below(stack, 1) /\ ip' = ip + 1
         /\ UNCHANGED <<ini, segs, calls, flags, mem>>
<1>1. I.op = "pop" /\ I.d.k = "reg" /\ I.d.r = "ax"
  BY DEF I1, I2, R
<1>2. Pop
  BY <1>1, Dispatch DEF PopEv
<1> QED
  BY <1>1, <1>2 DEF Pop, PutReg, Popped, Proceed, fixed, Reg

LEMMA IretBack ==
  ASSUME Next, ~Irq, I = I0("iret")
  PROVE  /\ ip' = Head(stack) /\ segs' = [segs EXCEPT !.cs = stack[2]]
         /\ flags' = DecodeFlagsWord(stack[3]) /\ stack' = Below(stack, 3) /\ calls' = Tail(calls)
         /\ UNCHANGED <<ini, regs, mem>>
<1>1. I.op = "iret"
  BY DEF I0, I1, I2
<1>2. Iret
  BY <1>1, Dispatch
<1> QED
  BY <1>2 DEF Iret, Leave, Popped

LEMMA Requested ==
  ASSUME Irq
  PROVE  /\ flags.ifl = 1
         /\ stack' = <<ip, segs.cs, MakeFlagsWord(flags)>> \o stack
         /\ ip' = 1 /\ segs' = [segs EXCEPT !.cs = 0] /\ flags' = [flags EXCEPT !.ifl = 0]
         /\ calls' = <<[ip |-> ip, segs |-> segs, stack |-> stack, irq |-> TRUE,
                        regs |-> regs, flags |-> flags]>> \o calls
         /\ UNCHANGED <<ini, regs, mem>>
<1>1. Vectors["irq"].ip = 1 /\ Vectors["irq"].cs = 0
  <2>1. Vectors["irq"] = FarAt(0, 1)
    BY RoutineAssumption DEF HandlerOf
  <2>2. Paragraph \in Nat
    BY RoutineAssumption
  <2> QED
    BY <2>1, <2>2 DEF FarAt
<1> QED
  BY <1>1 DEF Irq, Intcall, Enter, Pushed

-----------------------------------------------------------------------------
(* The guest behind its interrupts: while a handler runs, the guest is what *)
(* the request has put aside.                                               *)

RegFile == [Reg -> 0 .. Word - 1]
Selectors == [{"cs", "ds", "ss", "es"} -> Int]
Frame == [ip : Int, segs : Selectors, stack : Seq(Int), irq : BOOLEAN,
          regs : RegFile, flags : Flags]

Interrupted == calls # << >> /\ calls[1].irq
GuestIp    == IF Interrupted THEN calls[1].ip ELSE ip
GuestSegs  == IF Interrupted THEN calls[1].segs ELSE segs
GuestStack == IF Interrupted THEN calls[1].stack ELSE stack
GuestRegs  == IF Interrupted THEN calls[1].regs ELSE regs
GuestFlags == IF Interrupted THEN calls[1].flags ELSE flags
GuestCalls == IF Interrupted THEN Tail(calls) ELSE calls
guest == <<ini, GuestIp, GuestSegs, GuestStack, GuestRegs, GuestFlags, GuestCalls, mem>>

CpuTypeOK ==
  /\ ip \in Int /\ segs \in Selectors /\ stack \in Seq(Int) /\ calls \in Seq(Frame)
  /\ regs \in RegFile /\ flags \in Flags

\* What has been put aside, and what the handler has changed so far.
Interruption(c, p, st, rs) ==
  LET w == <<c.ip, c.segs.cs, MakeFlagsWord(c.flags)>> \o c.stack
  IN  \/ p \in {1, 5} /\ rs = c.regs /\ st = w
      \/ p = 2 /\ rs = c.regs /\ st = <<c.regs["ax"]>> \o w
      \/ p \in {3, 4} /\ rs = [c.regs EXCEPT !["ax"] = rs["ax"]] /\ st = <<c.regs["ax"]>> \o w
Handling ==
  /\ \A i \in 2 .. Len(calls) : ~calls[i].irq
  /\ Interrupted =>
       /\ segs = [calls[1].segs EXCEPT !.cs = 0] /\ flags.ifl = 0
       /\ Interruption(calls[1], ip, stack, regs)

\* The code of the load: the handlers, then the routine.
LEMMA CodeOf ==
  ASSUME NEW S, NEW r \in Seq(S), code = Handlers \o r
  PROVE  /\ \A k \in 1 .. 11 : code[k] = Handlers[k]
         /\ \A k \in 1 .. Len(r) : code[11 + k] = r[k]
<1> DEFINE T == S \cup {Handlers[k] : k \in 1 .. 11}
<1>1. Handlers \in Seq(T) /\ Len(Handlers) = 11
  BY DEF Handlers
<1>2. r \in Seq(T) /\ Len(r) \in Nat
  OBVIOUS
<1> HIDE DEF T
<1>3. \A i \in 1 .. Len(Handlers) + Len(r) :
        (Handlers \o r)[i] = IF i <= Len(Handlers) THEN Handlers[i] ELSE r[i - Len(Handlers)]
  BY <1>1, <1>2, ConcatProperties, Zenon
<1>4. ASSUME NEW k \in 1 .. 11  PROVE code[k] = Handlers[k]
  <2>1. k \in 1 .. Len(Handlers) + Len(r) /\ k <= Len(Handlers)
    BY <1>1, <1>2
  <2> QED
    BY <1>3, <2>1
<1>5. ASSUME NEW k \in 1 .. Len(r)  PROVE code[11 + k] = r[k]
  <2>1. 11 + k \in 1 .. Len(Handlers) + Len(r) /\ ~(11 + k <= Len(Handlers))
        /\ (11 + k) - Len(Handlers) = k
    BY <1>1, <1>2
  <2> QED
    BY <1>3, <2>1
<1> QED
  BY <1>4, <1>5

\* The first five instructions are the handler of the request.
LEMMA HandlerCode ==
  /\ Handlers[1] = I1("push", b16, R("ax")) /\ Handlers[2] = I1("neg", b16, R("ax"))
  /\ Handlers[3] = I0("std") /\ Handlers[4] = I1("pop", b16, R("ax")) /\ Handlers[5] = I0("iret")
BY DEF Handlers

\* The routines with string instructions.
LEMMA StringRoutines ==
  /\ \A j \in StringJobs : j \in DOMAIN Routines
  /\ Routines["movsb"] = << Str("movs", b8, 1), Halt >>
  /\ Routines["movsw"] = << Str("movs", b16, 1), Halt >>
  /\ Routines["movsd"] = << I0("std"), Str("movs", b8, 1), I0("cld"), Halt >>
  /\ Routines["stosb"] = << Str("stos", b8, 1), Halt >>
  /\ Routines["stosw"] = << Str("stos", b16, 1), Halt >>
  /\ Routines["copy"]  = << To("jcxz", 3), Str("lods", b8, 0), Str("stos", b8, 0), To("loop", -3), Halt >>
  /\ Routines["cmpsb"] = << Str("cmps", b8, 1), Halt >>
  /\ Routines["cmpsw"] = << Str("cmps", b16, 1), Halt >>
  /\ Routines["scasb"] = << Str("scas", b8, 2), Halt >>
  /\ Routines["scasw"] = << Str("scas", b16, 2), Halt >>
  /\ Routines["scanne"] = Scan("loopnz")
  /\ Routines["scane"]  = Scan("loopz")
<1>1. \A j \in StringJobs : j \in DOMAIN Routines
  BY DEF StringJobs, Routines
<1>2. /\ Routines["movsb"] = << Str("movs", b8, 1), Halt >>
      /\ Routines["movsw"] = << Str("movs", b16, 1), Halt >>
      /\ Routines["movsd"] = << I0("std"), Str("movs", b8, 1), I0("cld"), Halt >>
      /\ Routines["stosb"] = << Str("stos", b8, 1), Halt >>
      /\ Routines["stosw"] = << Str("stos", b16, 1), Halt >>
  BY DEF Routines
<1>3. /\ Routines["copy"]  = << To("jcxz", 3), Str("lods", b8, 0), Str("stos", b8, 0), To("loop", -3), Halt >>
      /\ Routines["cmpsb"] = << Str("cmps", b8, 1), Halt >>
      /\ Routines["cmpsw"] = << Str("cmps", b16, 1), Halt >>
      /\ Routines["scasb"] = << Str("scas", b8, 2), Halt >>
      /\ Routines["scasw"] = << Str("scas", b16, 2), Halt >>
      /\ Routines["scanne"] = Scan("loopnz")
      /\ Routines["scane"]  = Scan("loopz")
  BY DEF Routines, Copy
<1> QED
  BY <1>1, <1>2, <1>3

LEMMA TwoInFront ==
  ASSUME NEW a, NEW b, WellLoaded(ini), Routines[job] = <<a, b>>
  PROVE  /\ code[12] = a /\ code[13] = b
         /\ \A k \in 1 .. 5 : code[k] = Handlers[k]
<1>1. code = Handlers \o <<a, b>>
  BY DEF WellLoaded, job, code
<1>2. <<a, b>> \in Seq({a, b}) /\ Len(<<a, b>>) = 2
  OBVIOUS
<1>3. /\ \A k \in 1 .. 2 : code[11 + k] = <<a, b>>[k]
      /\ \A k \in 1 .. 11 : code[k] = Handlers[k]
  BY <1>1, <1>2, CodeOf, Zenon
<1> QED
  BY <1>3

LEMMA FourInFront ==
  ASSUME NEW a, NEW b, NEW c, NEW d, WellLoaded(ini), Routines[job] = <<a, b, c, d>>
  PROVE  /\ code[12] = a /\ code[13] = b /\ code[14] = c /\ code[15] = d
         /\ \A k \in 1 .. 5 : code[k] = Handlers[k]
<1>1. code = Handlers \o <<a, b, c, d>>
  BY DEF WellLoaded, job, code
<1>2. <<a, b, c, d>> \in Seq({a, b, c, d}) /\ Len(<<a, b, c, d>>) = 4
  OBVIOUS
<1>3. /\ \A k \in 1 .. 4 : code[11 + k] = <<a, b, c, d>>[k]
      /\ \A k \in 1 .. 11 : code[k] = Handlers[k]
  BY <1>1, <1>2, CodeOf, Zenon
<1> QED
  BY <1>3

LEMMA FiveInFront ==
  ASSUME NEW a, NEW b, NEW c, NEW d, NEW e, WellLoaded(ini), Routines[job] = <<a, b, c, d, e>>
  PROVE  /\ code[12] = a /\ code[13] = b /\ code[14] = c /\ code[15] = d /\ code[16] = e
         /\ \A k \in 1 .. 5 : code[k] = Handlers[k]
<1>1. code = Handlers \o <<a, b, c, d, e>>
  BY DEF WellLoaded, job, code
<1>2. <<a, b, c, d, e>> \in Seq({a, b, c, d, e}) /\ Len(<<a, b, c, d, e>>) = 5
  OBVIOUS
<1>3. /\ \A k \in 1 .. 5 : code[11 + k] = <<a, b, c, d, e>>[k]
      /\ \A k \in 1 .. 11 : code[k] = Handlers[k]
  BY <1>1, <1>2, CodeOf, Zenon
<1> QED
  BY <1>3

\* The handler of the request stands in front of every routine.
LEMMA HandlerInFront ==
  ASSUME WellLoaded(ini), job \in StringJobs
  PROVE  \A k \in 1 .. 5 : code[k] = Handlers[k]
<1> DEFINE Handled == \A k \in 1 .. 5 : code[k] = Handlers[k]
<1>1. job \in {"movsb", "movsw", "stosb", "stosw", "cmpsb", "cmpsw", "scasb", "scasw"} => Handled
  <2>1. ASSUME NEW a, NEW b, Routines[job] = <<a, b>>  PROVE Handled
    BY <2>1, TwoInFront
  <2> QED
    BY <2>1, StringRoutines
<1>2. job = "movsd" => Handled
  BY FourInFront, StringRoutines
<1>3. job \in {"copy", "scanne", "scane"} => Handled
  <2>1. ASSUME NEW a, NEW b, NEW c, NEW d, NEW e, Routines[job] = <<a, b, c, d, e>>  PROVE Handled
    BY <2>1, FiveInFront
  <2> QED
    BY <2>1, StringRoutines DEF Scan
<1> QED
  BY <1>1, <1>2, <1>3 DEF StringJobs

-----------------------------------------------------------------------------
(* Sequences the processor pushes to and takes from *)

LEMMA OneOnTop ==
  ASSUME NEW S, NEW s \in Seq(S), NEW a \in S
  PROVE  LET t == <<a>> \o s
         IN  /\ t \in Seq(S) /\ Len(t) = Len(s) + 1 /\ t # << >>
             /\ t[1] = a /\ Head(t) = a /\ Tail(t) = s /\ Below(t, 1) = s
             /\ \A i \in 2 .. Len(t) : t[i] = s[i - 1]
<1> DEFINE t == <<a>> \o s
<1>1. <<a>> \in Seq(S) /\ Len(<<a>>) = 1 /\ <<a>>[1] = a /\ Len(s) \in Nat
  OBVIOUS
<1>2. /\ t \in Seq(S) /\ Len(t) = Len(<<a>>) + Len(s)
      /\ \A i \in 1 .. Len(<<a>>) + Len(s) :
           t[i] = IF i <= Len(<<a>>) THEN <<a>>[i] ELSE s[i - Len(<<a>>)]
  BY <1>1, ConcatProperties, Zenon
<1>3. t \in Seq(S) /\ Len(t) = Len(s) + 1 /\ t[1] = a
  BY <1>1, <1>2
<1>4. \A i \in 2 .. Len(t) : t[i] = s[i - 1]
  BY <1>1, <1>2
<1> HIDE DEF t
<1>5. t # << >> /\ Head(t) = a
  BY <1>1, <1>3
<1>6. Tail(t) = s
  <2>1. Tail(t) \in Seq(S) /\ Len(Tail(t)) = Len(s)
    BY <1>1, <1>3, <1>5
  <2>2. \A i \in 1 .. Len(s) : Tail(t)[i] = s[i]
    BY <1>1, <1>3, <1>4, <1>5
  <2> QED
    BY <2>1, <2>2, SeqEqual
<1>7. Below(t, 1) = s
  <2>1. Below(t, 1) = SubSeq(t, 2, Len(t))
    BY DEF Below
  <2>2. SubSeq(t, 2, Len(t)) \in Seq(S) /\ Len(SubSeq(t, 2, Len(t))) = Len(s)
    BY <1>1, <1>3
  <2>3. \A i \in 1 .. Len(s) : SubSeq(t, 2, Len(t))[i] = s[i]
    BY <1>1, <1>3, <1>4
  <2> QED
    BY <2>1, <2>2, <2>3, SeqEqual
<1> QED
  BY <1>3, <1>4, <1>5, <1>6, <1>7 DEF t

LEMMA ThreeOnTop ==
  ASSUME NEW S, NEW s \in Seq(S), NEW a \in S, NEW b \in S, NEW c \in S
  PROVE  LET t == <<a, b, c>> \o s
         IN  /\ t \in Seq(S) /\ Len(t) = Len(s) + 3 /\ Head(t) = a /\ t[2] = b /\ t[3] = c
             /\ Below(t, 3) = s
<1> DEFINE t == <<a, b, c>> \o s
<1>1. /\ <<a, b, c>> \in Seq(S) /\ Len(<<a, b, c>>) = 3 /\ Len(s) \in Nat
      /\ <<a, b, c>>[1] = a /\ <<a, b, c>>[2] = b /\ <<a, b, c>>[3] = c
  OBVIOUS
<1>2. /\ t \in Seq(S) /\ Len(t) = Len(<<a, b, c>>) + Len(s)
      /\ \A i \in 1 .. Len(<<a, b, c>>) + Len(s) :
           t[i] = IF i <= Len(<<a, b, c>>) THEN <<a, b, c>>[i] ELSE s[i - Len(<<a, b, c>>)]
  BY <1>1, ConcatProperties, Zenon
<1>3. t \in Seq(S) /\ Len(t) = Len(s) + 3 /\ t[1] = a /\ t[2] = b /\ t[3] = c
  BY <1>1, <1>2
<1>4. \A i \in 4 .. Len(t) : t[i] = s[i - 3]
  BY <1>1, <1>2
<1> HIDE DEF t
<1>5. Head(t) = a
  BY <1>1, <1>3
<1>6. Below(t, 3) = s
  <2>1. Below(t, 3) = SubSeq(t, 4, Len(t))
    BY DEF Below
  <2>2. SubSeq(t, 4, Len(t)) \in Seq(S) /\ Len(SubSeq(t, 4, Len(t))) = Len(s)
    BY <1>1, <1>3
  <2>3. \A i \in 1 .. Len(s) : SubSeq(t, 4, Len(t))[i] = s[i]
    BY <1>1, <1>3, <1>4
  <2> QED
    BY <2>1, <2>2, <2>3, SeqEqual
<1> QED
  BY <1>3, <1>5, <1>6 DEF t

-----------------------------------------------------------------------------
(* Flags stay flags *)

LEMMA FlagSubTyped ==
  ASSUME NEW f \in Flags, NEW h \in Nat \ {0}, NEW a \in Operand(h), NEW b \in Operand(h)
  PROVE  LET g == FlagSub(f, h, a, b)
         IN  g \in Flags /\ g.ifl = f.ifl /\ g.df = f.df /\ g.zf = Flag(a = b)
<1> DEFINE v == (a - b) % (2 * h)
           s == FlagSzp(f, h, v)
<1>1. v \in Operand(h) /\ (v = 0 <=> a = b)
  <2>1. v = IF a < b THEN a - b + 2 * h ELSE a - b
    BY SubFields
  <2> QED
    BY <2>1 DEF Operand
<1>2. Flag(v = 0) \in 0 .. 1 /\ Bit(v, h) \in 0 .. 1 /\ Parity(v % Byte) \in 0 .. 1
  <2>1. Bit(v, h) \in 0 .. 1
    <3>1. v \div h \in Int
      BY <1>1 DEF Operand
    <3> QED
      BY <3>1 DEF Bit
  <2> QED
    BY <2>1 DEF Flag, Parity
<1>3. s \in Flags /\ s.ifl = f.ifl /\ s.df = f.df /\ s.zf = Flag(v = 0)
  <2> HIDE DEF v
  <2> QED
    BY <1>2 DEF FlagSzp, Flags
<1>4. /\ Flag(a < b) \in 0 .. 1
      /\ Flag(Bit(v, h) # Bit(a, h) /\ Bit(a, h) # Bit(b, h)) \in 0 .. 1
  BY DEF Flag
<1>5. XorBit(a, b, v, Nibble) \in 0 .. 1
  <2>1. a \div Nibble \in Int /\ b \div Nibble \in Int /\ v \div Nibble \in Int
    BY <1>1, Sizes DEF Operand
  <2>2. Bit(a, Nibble) \in Int /\ Bit(b, Nibble) \in Int /\ Bit(v, Nibble) \in Int
    BY <2>1 DEF Bit
  <2> QED
    BY <2>2 DEF XorBit
<1>6. FlagSub(f, h, a, b) =
        [s EXCEPT !.cf = Flag(a < b),
                  !.of = Flag(Bit(v, h) # Bit(a, h) /\ Bit(a, h) # Bit(b, h)),
                  !.af = XorBit(a, b, v, Nibble)]
  BY DEF FlagSub
<1>7. /\ FlagSub(f, h, a, b) \in Flags
      /\ FlagSub(f, h, a, b).ifl = s.ifl /\ FlagSub(f, h, a, b).df = s.df
      /\ FlagSub(f, h, a, b).zf = s.zf
  <2> HIDE DEF v, s
  <2> QED
    BY <1>3, <1>4, <1>5, <1>6 DEF Flags
<1>8. Flag(v = 0) = Flag(a = b)
  BY <1>1 DEF Flag
<1> QED
  BY <1>3, <1>7, <1>8

LEMMA NegTyped ==
  ASSUME NEW f \in Flags, NEW h \in Nat \ {0}, NEW a \in Operand(h)
  PROVE  LET r == OpNeg(f, h, a)
         IN  r.v \in Operand(h) /\ r.f \in Flags /\ r.f.ifl = f.ifl
<1>1. 0 \in Operand(h)
  BY DEF Operand
<1>2. FlagSub(f, h, 0, a) \in Flags /\ FlagSub(f, h, 0, a).ifl = f.ifl
  BY <1>1, FlagSubTyped
<1>3. OpNeg(f, h, a).v \in Operand(h)
  BY NegExact
<1>4. Flag((2 * h - a) % (2 * h) # 0) \in 0 .. 1
  BY DEF Flag
<1>5. OpNeg(f, h, a).f = [FlagSub(f, h, 0, a) EXCEPT !.cf = Flag((2 * h - a) % (2 * h) # 0)]
  BY DEF OpNeg
<1> QED
  BY <1>2, <1>3, <1>4, <1>5 DEF Flags

LEMMA FlagsWordTyped ==
  ASSUME NEW f \in Flags
  PROVE  MakeFlagsWord(f) \in Int
  BY DEF Flags, MakeFlagsWord

-----------------------------------------------------------------------------
(* A request and its handler leave the guest alone *)

HandlerAt == \A k \in 1 .. 5 : code[k] = Handlers[k]

LEMMA RequestPutsAside ==
  ASSUME CpuTypeOK, Handling, segs.cs = 0, Irq
  PROVE  CpuTypeOK' /\ Handling' /\ UNCHANGED guest
<1> DEFINE c == [ip |-> ip, segs |-> segs, stack |-> stack, irq |-> TRUE,
                 regs |-> regs, flags |-> flags]
<1>1. /\ flags.ifl = 1
      /\ stack' = <<ip, segs.cs, MakeFlagsWord(flags)>> \o stack
      /\ ip' = 1 /\ segs' = [segs EXCEPT !.cs = 0] /\ flags' = [flags EXCEPT !.ifl = 0]
      /\ calls' = <<c>> \o calls
      /\ UNCHANGED <<ini, regs, mem>>
  BY Requested
<1>2. ~Interrupted
  BY <1>1 DEF Handling
<1>3. c \in Frame
  BY DEF CpuTypeOK, Frame
<1>4. /\ c.ip = ip /\ c.segs = segs /\ c.stack = stack /\ c.irq /\ c.regs = regs /\ c.flags = flags
  OBVIOUS
<1> HIDE DEF c
<1>5. /\ calls' \in Seq(Frame) /\ Len(calls') = Len(calls) + 1 /\ calls' # << >>
      /\ calls'[1] = c /\ Tail(calls') = calls
      /\ \A i \in 2 .. Len(calls') : calls'[i] = calls[i - 1]
  BY <1>1, <1>3, OneOnTop DEF CpuTypeOK
<1>6. stack' \in Seq(Int)
  <2>1. ip \in Int /\ segs.cs \in Int /\ MakeFlagsWord(flags) \in Int /\ stack \in Seq(Int)
    BY FlagsWordTyped DEF CpuTypeOK
  <2> QED
    BY <1>1, <2>1, ThreeOnTop
<1>7. CpuTypeOK'
  <2>1. segs' \in Selectors
    BY <1>1 DEF CpuTypeOK, Selectors
  <2>2. flags' \in Flags
    <3>1. flags \in Flags /\ 0 \in 0 .. 1 /\ flags' = [flags EXCEPT !.ifl = 0]
      BY <1>1 DEF CpuTypeOK
    <3> QED
      BY <3>1 DEF Flags
  <2>3. ip' \in Int /\ regs' \in RegFile
    BY <1>1 DEF CpuTypeOK
  <2> QED
    BY <1>5, <1>6, <2>1, <2>2, <2>3 DEF CpuTypeOK
<1>8. Interrupted'
  BY <1>4, <1>5 DEF Interrupted
<1>9. UNCHANGED guest
  BY <1>1, <1>2, <1>4, <1>5, <1>8
     DEF guest, GuestIp, GuestSegs, GuestStack, GuestRegs, GuestFlags, GuestCalls
<1>10. Handling'
  <2>1. \A i \in 2 .. Len(calls') : ~calls'[i].irq
    <3>1. TAKE i \in 2 .. Len(calls')
    <3>2. calls'[i] = calls[i - 1] /\ i - 1 \in 1 .. Len(calls)
      BY <1>5 DEF CpuTypeOK
    <3>3. CASE i = 2
      BY <1>2, <3>2, <3>3 DEF Interrupted, CpuTypeOK
    <3>4. CASE i # 2
      BY <3>2, <3>4 DEF Handling
    <3> QED
      BY <3>3, <3>4
  <2>2. segs' = [calls'[1].segs EXCEPT !.cs = 0] /\ flags'.ifl = 0
    BY <1>1, <1>4, <1>5 DEF CpuTypeOK, Flags
  <2>3. Interruption(calls'[1], ip', stack', regs')
    BY <1>1, <1>4, <1>5 DEF Interruption
  <2> QED
    BY <2>1, <2>2, <2>3 DEF Handling
<1> QED
  BY <1>7, <1>9, <1>10

LEMMA HandlerKeepsAside ==
  ASSUME CpuTypeOK, Handling, HandlerAt, GuestSegs.cs = 0, Next, ~Irq, Interrupted
  PROVE  CpuTypeOK' /\ Handling' /\ UNCHANGED guest
<1> DEFINE c == calls[1]
           w == <<c.ip, c.segs.cs, MakeFlagsWord(c.flags)>> \o c.stack
<1>1. c \in Frame /\ c.irq /\ c.segs.cs = 0 /\ calls # << >>
  BY DEF Interrupted, CpuTypeOK, GuestSegs
<1>2. /\ segs = [c.segs EXCEPT !.cs = 0] /\ segs.cs = 0 /\ flags.ifl = 0 /\ segs = c.segs
      /\ Interruption(c, ip, stack, regs)
  BY <1>1 DEF Handling, Frame, Selectors
<1>3. /\ w \in Seq(Int) /\ Head(w) = c.ip /\ w[2] = c.segs.cs /\ w[3] = MakeFlagsWord(c.flags)
      /\ Below(w, 3) = c.stack
  <2>1. c.ip \in Int /\ c.segs.cs \in Int /\ MakeFlagsWord(c.flags) \in Int /\ c.stack \in Seq(Int)
    BY <1>1, FlagsWordTyped DEF Frame, Selectors
  <2> QED
    BY <2>1, ThreeOnTop
<1>4. /\ regs \in RegFile /\ c.regs \in RegFile /\ c.flags \in Flags /\ c.ip \in Int
      /\ c.stack \in Seq(Int) /\ c.regs["ax"] \in 0 .. Word - 1 /\ Word - 1 \in Int
      /\ regs["ax"] \in 0 .. Word - 1
  <2>1. /\ regs \in RegFile /\ c.regs \in RegFile /\ c.flags \in Flags /\ c.ip \in Int
        /\ c.stack \in Seq(Int)
    BY <1>1 DEF CpuTypeOK, Frame
  <2>2. "ax" \in Reg
    BY DEF Reg
  <2>3. c.regs["ax"] \in 0 .. Word - 1 /\ regs["ax"] \in 0 .. Word - 1
    BY <2>1, <2>2 DEF RegFile
  <2>4. Word - 1 \in Int
    BY Widths
  <2> QED
    BY <2>1, <2>3, <2>4
<1>5. LET t == <<c.regs["ax"]>> \o w
      IN  t \in Seq(Int) /\ Head(t) = c.regs["ax"] /\ Below(t, 1) = w
  <2>1. c.regs["ax"] \in Int /\ w \in Seq(Int)
    BY <1>3, <1>4
  <2> HIDE DEF c, w
  <2> QED
    BY <2>1, OneOnTop
<1>6. I = code[ip]
  <2>1. Paragraph \in Nat /\ ip \in Int
    BY RoutineAssumption DEF CpuTypeOK
  <2> QED
    BY <1>2, <2>1 DEF I
<1>7. \/ ip \in {1, 5} /\ regs = c.regs /\ stack = w
      \/ ip = 2 /\ regs = c.regs /\ stack = <<c.regs["ax"]>> \o w
      \/ ip \in {3, 4} /\ regs = [c.regs EXCEPT !["ax"] = regs["ax"]]
           /\ stack = <<c.regs["ax"]>> \o w
  BY <1>2 DEF Interruption
<1> HIDE DEF c, w
<1>8. ASSUME UNCHANGED <<ini, calls, segs, mem>>, stack' \in Seq(Int), regs' \in RegFile,
             flags' \in Flags, ip' \in Int, flags'.ifl = 0,
             \/ ip' \in {1, 5} /\ regs' = c.regs /\ stack' = w
             \/ ip' = 2 /\ regs' = c.regs /\ stack' = <<c.regs["ax"]>> \o w
             \/ ip' \in {3, 4} /\ regs' = [c.regs EXCEPT !["ax"] = regs'["ax"]]
                  /\ stack' = <<c.regs["ax"]>> \o w
      PROVE  CpuTypeOK' /\ Handling' /\ UNCHANGED guest
  <2>1. CpuTypeOK'
    BY <1>8 DEF CpuTypeOK
  <2>2. Interrupted'
    BY <1>8 DEF Interrupted
  <2>3. UNCHANGED guest
    BY <1>8, <2>2 DEF guest, GuestIp, GuestSegs, GuestStack, GuestRegs, GuestFlags, GuestCalls
  <2>4. Interruption(calls'[1], ip', stack', regs')
    BY <1>8 DEF Interruption, c, w
  <2>5. Handling'
    BY <1>2, <1>8, <2>4 DEF Handling, c
  <2> QED
    BY <2>1, <2>3, <2>5
<1>9. CASE ip = 1
  <2>1. I = I1("push", b16, R("ax"))
    BY <1>6, <1>9, HandlerCode DEF HandlerAt
  <2>2. /\ stack' = <<regs.ax>> \o stack /\ ip' = ip + 1
        /\ UNCHANGED <<ini, segs, calls, regs, flags, mem>>
    BY <2>1, PushAx
  <2>3. regs = c.regs /\ stack = w
    BY <1>7, <1>9
  <2>4. stack' = <<c.regs["ax"]>> \o w /\ stack' \in Seq(Int) /\ ip' = 2
    BY <1>5, <1>9, <2>2, <2>3
  <2>5. UNCHANGED <<ini, calls, segs, mem>> /\ regs' = c.regs /\ stack' = <<c.regs["ax"]>> \o w
    BY <2>2, <2>3, <2>4
  <2>6. regs' \in RegFile /\ flags' \in Flags /\ flags'.ifl = 0 /\ ip' \in Int
    BY <1>2, <2>2, <2>4 DEF CpuTypeOK
  <2> QED
    BY <1>8, <2>4, <2>5, <2>6
<1>10. CASE ip = 2
  <2>1. I = I1("neg", b16, R("ax"))
    BY <1>6, <1>10, HandlerCode DEF HandlerAt
  <2>2. /\ regs' = [regs EXCEPT !["ax"] = OpNeg(flags, WordSign, regs.ax).v]
        /\ flags' = OpNeg(flags, WordSign, regs.ax).f /\ ip' = ip + 1
        /\ UNCHANGED <<ini, segs, calls, mem, stack>>
    BY <2>1, NegAx
  <2>3. regs = c.regs /\ stack = <<c.regs["ax"]>> \o w
    BY <1>7, <1>10
  <2>4. /\ OpNeg(flags, WordSign, regs.ax).v \in 0 .. Word - 1
        /\ flags' \in Flags /\ flags'.ifl = 0
    <3>1. regs.ax \in Operand(WordSign) /\ WordSign \in Nat \ {0} /\ flags \in Flags
      BY <1>4, Widths DEF Operand, CpuTypeOK
    <3>2. Operand(WordSign) = 0 .. Word - 1
      BY Widths DEF Operand
    <3> QED
      BY <1>2, <2>2, <3>1, <3>2, NegTyped
  <2>5. regs' \in RegFile /\ regs' = [c.regs EXCEPT !["ax"] = regs'["ax"]]
    BY <1>4, <2>2, <2>3, <2>4 DEF RegFile
  <2>6. ip' = 3 /\ stack' = <<c.regs["ax"]>> \o w /\ stack' \in Seq(Int)
    BY <1>5, <1>10, <2>2, <2>3
  <2> QED
    BY <1>8, <2>2, <2>4, <2>5, <2>6
<1>11. CASE ip = 3
  <2>1. I = I0("std")
    BY <1>6, <1>11, HandlerCode DEF HandlerAt
  <2>2. /\ flags' = [flags EXCEPT !.df = IF I.op = "std" THEN 1 ELSE 0] /\ ip' = ip + 1
        /\ UNCHANGED <<ini, segs, calls, regs, mem, stack>>
    BY <2>1, SetDirection
  <2>3. regs = [c.regs EXCEPT !["ax"] = regs["ax"]] /\ stack = <<c.regs["ax"]>> \o w
    BY <1>7, <1>11
  <2>4. flags' \in Flags /\ flags'.ifl = 0
    <3>1. (IF I.op = "std" THEN 1 ELSE 0) \in 0 .. 1 /\ flags \in Flags
      BY DEF CpuTypeOK
    <3> QED
      BY <1>2, <2>2, <3>1 DEF Flags
  <2>5. ip' = 4 /\ stack' \in Seq(Int)
    BY <1>5, <1>11, <2>2, <2>3
  <2> QED
    BY <1>4, <1>8, <2>2, <2>3, <2>4, <2>5
<1>12. CASE ip = 4
  <2>1. I = I1("pop", b16, R("ax"))
    BY <1>6, <1>12, HandlerCode DEF HandlerAt
  <2>2. /\ regs' = [regs EXCEPT !["ax"] = Head(stack)] /\ stack' = Below(stack, 1) /\ ip' = ip + 1
        /\ UNCHANGED <<ini, segs, calls, flags, mem>>
    BY <2>1, PopAx
  <2>3. regs = [c.regs EXCEPT !["ax"] = regs["ax"]] /\ stack = <<c.regs["ax"]>> \o w
    BY <1>7, <1>12
  <2>4. stack' = w /\ regs' = [regs EXCEPT !["ax"] = c.regs["ax"]]
    BY <1>5, <2>2, <2>3
  <2>5. regs' = c.regs
    BY <1>4, <2>3, <2>4 DEF RegFile
  <2>6. ip' = 5
    BY <1>12, <2>2
  <2>7. flags' \in Flags /\ flags'.ifl = 0 /\ stack' \in Seq(Int) /\ regs' \in RegFile
    BY <1>2, <1>3, <1>4, <2>2, <2>4, <2>5 DEF CpuTypeOK
  <2>8. ip' \in {1, 5} /\ ip' \in Int
    BY <2>6
  <2>9. UNCHANGED <<ini, calls, segs, mem>>
    BY <2>2
  <2> QED
    BY <1>8, <2>4, <2>5, <2>7, <2>8, <2>9
<1>13. CASE ip = 5
  <2>1. I = I0("iret")
    BY <1>6, <1>13, HandlerCode DEF HandlerAt
  <2>2. /\ ip' = Head(stack) /\ segs' = [segs EXCEPT !.cs = stack[2]]
        /\ flags' = DecodeFlagsWord(stack[3]) /\ stack' = Below(stack, 3) /\ calls' = Tail(calls)
        /\ UNCHANGED <<ini, regs, mem>>
    BY <2>1, IretBack
  <2>3. regs = c.regs /\ stack = w
    BY <1>7, <1>13
  <2>4. ip' = c.ip /\ stack' = c.stack /\ flags' = c.flags
    BY <1>3, <1>4, <2>2, <2>3, FlagsWordKeeps
  <2>5. segs' = c.segs
    <3>1. segs' = [segs EXCEPT !.cs = 0]
      BY <1>1, <1>3, <2>2, <2>3
    <3> QED
      BY <1>1, <1>2, <3>1 DEF Frame, Selectors
  <2>6. /\ calls' \in Seq(Frame) /\ Len(calls') = Len(calls) - 1
        /\ \A i \in 1 .. Len(calls') : calls'[i] = calls[i + 1]
    BY <1>1, <2>2 DEF CpuTypeOK
  <2>7. ~Interrupted'
    <3>1. SUFFICES ASSUME calls' # << >>  PROVE ~calls'[1].irq
      BY DEF Interrupted
    <3>2. Len(calls') \in Nat /\ Len(calls') # 0
      BY <2>6, <3>1
    <3>3. 1 \in 1 .. Len(calls') /\ 2 \in 2 .. Len(calls)
      BY <2>6, <3>2 DEF CpuTypeOK
    <3> QED
      BY <2>6, <3>3 DEF Handling
  <2>8. CpuTypeOK'
    <3>1. segs' \in Selectors
      BY <1>1, <2>5 DEF Frame
    <3>2. ip' \in Int /\ stack' \in Seq(Int) /\ flags' \in Flags /\ regs' \in RegFile
      BY <1>4, <2>2, <2>4
    <3> QED
      BY <2>6, <3>1, <3>2 DEF CpuTypeOK
  <2>9. Handling'
    BY <2>6, <2>7 DEF Handling, CpuTypeOK
  <2>10. UNCHANGED guest
    BY <2>2, <2>3, <2>4, <2>5, <2>7
       DEF guest, GuestIp, GuestSegs, GuestStack, GuestRegs, GuestFlags, GuestCalls, c
  <2> QED
    BY <2>8, <2>9, <2>10
<1> QED
  BY <1>7, <1>9, <1>10, <1>11, <1>12, <1>13

-----------------------------------------------------------------------------
(* The strings: k elements are done, at instruction p of the guest with its *)
(* registers rs and flags f, and m is memory.                               *)

Count  == ini.regs.cx
Moves  == {"movsb", "movsw", "stosb", "stosw"}
Scans  == {"cmpsb", "cmpsw", "scasb", "scasw"}
Loops  == {"scanne", "scane"}
ElementSize  == IF job \in OfWords THEN 2 ELSE 1
ElementWidth == IF job \in OfWords THEN WordSign ELSE ByteSign

\* Byte i of what the destination is to become, and memory with the bytes
\* from lo up to hi of it.
NewByte(i) ==
  IF job = "stosb" THEN Al0
  ELSE IF job = "stosw" THEN IF i % 2 = 0 THEN Al0 ELSE Ah0
  ELSE ini.mem[i]
Filled(lo, hi) ==
  [x \in 0 .. MarkAt |->
     IF lo <= x - 2 * Paragraph /\ x - 2 * Paragraph < hi THEN NewByte(x - 2 * Paragraph)
     ELSE ini.mem[x]]

Moving(p, rs, f, m, k) ==
  /\ p = 12 \/ (p = 13 /\ k = Count)
  /\ rs.cx = Count - k /\ rs.di = k * ElementSize
  /\ job \in {"movsb", "movsw"} => rs.si = k * ElementSize
  /\ rs.ax = ini.regs.ax /\ f.df = 0 /\ m = Filled(0, k * ElementSize)

MovingDown(p, rs, f, m, k) ==
  /\ (p = 12 /\ k = 0) \/ p = 13 \/ (p \in {14, 15} /\ k = Count)
  /\ rs.cx = Count - k /\ rs.si = (Count - 1 - k) % Word /\ rs.di = (Count - 1 - k) % Word
  /\ f.df = Flag(p \in {13, 14}) /\ m = Filled(Count - k, Count)

Copying(p, rs, f, m, k) ==
  /\ \/ p = 12 /\ k = 0
     \/ p \in {13, 14} /\ k < Count
     \/ p = 15 /\ k > 0
     \/ p = 16 /\ k = Count
  /\ rs.cx = Count - k + Flag(p = 15) /\ rs.si = k + Flag(p = 14) /\ rs.di = k
  /\ p = 14 => rs.ax % Byte = ini.mem[k]
  /\ f.df = 0 /\ m = Filled(0, k)

\* A search stops at element i, and ZF then.
Hit(i) ==
  LET e == Element("es", ElementWidth, i)
  IN  CASE job \in {"cmpsb", "cmpsw"} -> Element("ds", ElementWidth, i) # e
        [] job \in {"scasb", "scanne"} -> e = Al0
        [] job = "scasw" -> e = ini.regs.ax
        [] OTHER -> e # Al0
HitZf == IF job \in {"scasb", "scasw", "scanne"} THEN 1 ELSE 0

\* No hit but perhaps the last of the k elements looked at, and ZF tells of it.
Looked(f, k) ==
  /\ \A i \in 0 .. k - 2 : ~Hit(i)
  /\ k > 0 => f.zf = IF Hit(k - 1) THEN HitZf ELSE 1 - HitZf

Searching(p, rs, f, m, k) ==
  /\ \/ p = 12 /\ (k > 0 => ~Hit(k - 1))
     \/ p = 13 /\ (k = Count \/ (k > 0 /\ Hit(k - 1)))
  /\ rs.cx = Count - k /\ rs.di = k * ElementSize
  /\ rs.si = IF job \in {"cmpsb", "cmpsw"} THEN k * ElementSize ELSE ini.regs.si
  /\ rs.ax = ini.regs.ax /\ f.df = 0 /\ m = ini.mem
  /\ Looked(f, k)

SearchingByLoop(p, rs, f, m, k) ==
  /\ \/ p = 12 /\ k = 0
     \/ p = 13 /\ k < Count /\ (k > 0 => ~Hit(k - 1))
     \/ p \in {14, 15} /\ k > 0
     \/ p = 16 /\ (k = Count \/ (k > 0 /\ Hit(k - 1)))
  /\ rs.cx = Count - k + Flag(p \in {14, 15}) /\ rs.di = k - Flag(p = 14)
  /\ rs.si = ini.regs.si /\ rs.ax = ini.regs.ax /\ m = ini.mem
  /\ Looked(f, k)

StringState(p, rs, f, m) ==
  \E k \in 0 .. Count :
    /\ job \in Moves => Moving(p, rs, f, m, k)
    /\ job = "movsd" => MovingDown(p, rs, f, m, k)
    /\ job = "copy" => Copying(p, rs, f, m, k)
    /\ job \in Scans => Searching(p, rs, f, m, k)
    /\ job \in Loops => SearchingByLoop(p, rs, f, m, k)

\* The inductive invariant of the routines with strings.
StringInv ==
  /\ \E loads \in Loads : ini \in loads
  /\ job \in StringJobs =>
       /\ CpuTypeOK /\ Handling
       /\ GuestSegs = Segments /\ GuestStack = << >> /\ GuestCalls = << >>
       /\ StringState(GuestIp, GuestRegs, GuestFlags, mem)

\* What is said of the strings depends on the load, which no step changes.
LEMMA SameLoad ==
  ASSUME ini' = ini
  PROVE  /\ job' = job /\ Count' = Count /\ ElementSize' = ElementSize /\ HitZf' = HitZf
         /\ \A i : Hit(i)' <=> Hit(i)
         /\ \A lo, hi : Filled(lo, hi)' = Filled(lo, hi)
<1>1. job' = job /\ Count' = Count /\ ini.regs' = ini.regs /\ ini.mem' = ini.mem
  BY DEF job, Count
<1>2. /\ ElementSize' = ElementSize /\ ElementWidth' = ElementWidth
      /\ HitZf' = HitZf /\ Al0' = Al0 /\ Ah0' = Ah0
  BY <1>1 DEF ElementSize, ElementWidth, HitZf, Al0, Ah0
<1>3. \A s, w, i : Element(s, w, i)' = Element(s, w, i)
  BY <1>1 DEF Element
<1>4. \A i : Hit(i)' <=> Hit(i)
  BY <1>1, <1>2, <1>3 DEF Hit
<1>5. \A x : NewByte(x)' = NewByte(x)
  BY <1>1, <1>2 DEF NewByte
<1>6. \A lo, hi : Filled(lo, hi)' = Filled(lo, hi)
  BY <1>1, <1>5 DEF Filled
<1> QED
  BY <1>1, <1>2, <1>4, <1>6

\* What does not change in the guest does not change in the state of its strings.
LEMMA SameGuest ==
  ASSUME StringState(GuestIp, GuestRegs, GuestFlags, mem), UNCHANGED guest
  PROVE  StringState(GuestIp, GuestRegs, GuestFlags, mem)'
<1>1. /\ ini' = ini /\ GuestIp' = GuestIp /\ GuestRegs' = GuestRegs /\ GuestFlags' = GuestFlags
      /\ mem' = mem
  BY DEF guest
<1> HIDE DEF GuestIp, GuestRegs, GuestFlags
<1> QED
  BY <1>1, SameLoad
     DEF StringState, Moving, MovingDown, Copying, Searching, SearchingByLoop, Looked

\* The guest takes a step of its own, or what a request does leaves it alone.
LEMMA GuestMoves ==
  ASSUME CpuTypeOK, Handling, HandlerAt, GuestSegs = Segments, [Next]_vars
  PROVE  \/ CpuTypeOK' /\ Handling' /\ UNCHANGED guest
         \/ Next /\ ~Irq /\ ~Interrupted
<1>1. Segments.cs = 0
  BY DEF Segments
<1>2. segs.cs = 0
  <2>1. CASE Interrupted
    BY <1>1, <2>1 DEF Handling, Interrupted, GuestSegs, CpuTypeOK, Frame, Selectors
  <2>2. CASE ~Interrupted
    BY <1>1, <2>2 DEF GuestSegs
  <2> QED
    BY <2>1, <2>2
<1>3. CASE UNCHANGED vars
  <2>1. Interrupted' = Interrupted
    BY <1>3 DEF vars, Interrupted
  <2> QED
    BY <1>3, <2>1 DEF vars, CpuTypeOK, Handling, guest, GuestIp, GuestSegs, GuestStack,
       GuestRegs, GuestFlags, GuestCalls
<1>4. CASE Irq
  BY <1>2, <1>4, RequestPutsAside
<1>5. CASE Next /\ ~Irq /\ Interrupted
  BY <1>1, <1>5, HandlerKeepsAside
<1> QED
  BY <1>3, <1>4, <1>5

\* After a step of its own it is what the machine is.
LEMMA GuestAlone ==
  ASSUME ~Interrupted, CpuTypeOK, Handling, segs = Segments, stack = << >>, GuestCalls = << >>,
         UNCHANGED <<ini, segs, calls, stack>>,
         ip' \in Int, regs' \in RegFile, flags' \in Flags
  PROVE  /\ CpuTypeOK' /\ Handling'
         /\ (GuestSegs = Segments)' /\ (GuestStack = << >>)' /\ (GuestCalls = << >>)'
         /\ GuestIp' = ip' /\ GuestRegs' = regs' /\ GuestFlags' = flags'
<1>1. CpuTypeOK'
  BY DEF CpuTypeOK
<1>2. ~Interrupted'
  BY DEF Interrupted
<1>3. Handling'
  BY <1>2 DEF Handling
<1>4. Segments' = Segments
  BY DEF Segments
<1>5. (GuestSegs = Segments)' /\ (GuestStack = << >>)' /\ (GuestCalls = << >>)'
  BY <1>2, <1>4 DEF GuestSegs, GuestStack, GuestCalls
<1>6. GuestIp' = ip' /\ GuestRegs' = regs' /\ GuestFlags' = flags'
  BY <1>2 DEF GuestIp, GuestRegs, GuestFlags
<1> QED
  BY <1>1, <1>3, <1>5, <1>6

LEMMA NextGuest ==
  ASSUME ~Interrupted, CpuTypeOK, Handling, segs = Segments, stack = << >>, GuestCalls = << >>,
         UNCHANGED <<ini, segs, calls, stack>>,
         ip' \in Int, regs' \in RegFile, flags' \in Flags,
         StringState(ip', regs', flags', mem')
  PROVE  /\ CpuTypeOK' /\ Handling'
         /\ (GuestSegs = Segments)' /\ (GuestStack = << >>)' /\ (GuestCalls = << >>)'
         /\ StringState(GuestIp, GuestRegs, GuestFlags, mem)'
<1>1. /\ CpuTypeOK' /\ Handling'
      /\ (GuestSegs = Segments)' /\ (GuestStack = << >>)' /\ (GuestCalls = << >>)'
      /\ GuestIp' = ip' /\ GuestRegs' = regs' /\ GuestFlags' = flags'
  BY GuestAlone
<1>2. StringState(GuestIp, GuestRegs, GuestFlags, mem)'
  <2> HIDE DEF GuestIp, GuestRegs, GuestFlags
  <2> QED
    BY <1>1, SameLoad
       DEF StringState, Moving, MovingDown, Copying, Searching, SearchingByLoop, Looked
<1> QED
  BY <1>1, <1>2

-----------------------------------------------------------------------------
(* What the instructions of these routines do *)

\* What a load assures.
LEMMA Loaded ==
  ASSUME \E loads \in Loads : ini \in loads
  PROVE  /\ WellLoaded(ini) /\ Count \in 0 .. Word - 1
         /\ Paragraph \in Nat \ {0} /\ MarkAt = 4 * Paragraph /\ MarkAt < Word
         /\ ini.mem \in [0 .. MarkAt -> 0 .. Byte - 1]
         /\ ini.regs \in RegFile /\ ini.seg = Segments
<1>1. Paragraph \in Nat \ {0} /\ MarkAt < Word /\ WellLoaded(ini)
  BY RoutineAssumption
<1>2. /\ ini.seg = Segments /\ ini.regs \in RegFile
      /\ ini.mem \in [0 .. MarkAt -> 0 .. Byte - 1]
  BY <1>1 DEF WellLoaded, RegFile
<1>3. Count \in 0 .. Word - 1
  BY <1>2 DEF Count, RegFile, Reg
<1> QED
  BY <1>1, <1>2, <1>3 DEF MarkAt

Stays == UNCHANGED <<ini, segs, calls, stack>>

LEMMA InFront ==
  ASSUME segs = Segments, ip \in Int, Paragraph \in Nat
  PROVE  I = code[ip]
  BY DEF I, Segments

LEMMA HaltStays ==
  ASSUME Next, ~Irq, I = Halt, ip \in Int
  PROVE  Stays /\ UNCHANGED <<ip, regs, flags, mem>>
<1>1. I.op = "jmp" /\ I.disp = -1
  BY DEF Halt, To, I0, I1, I2
<1>2. Jmp
  BY <1>1, Dispatch
<1>3. ip' = (ip + 1) + I.disp
  BY <1>1, <1>2 DEF Jmp, Jump
<1> QED
  BY <1>1, <1>2, <1>3 DEF Jmp, fixed, Stays

\* An iteration moves the pointers by an element and counts CX down.
LEMMA Advances ==
  ASSUME NEW p, p \subseteq {"si", "di"}, regs \in RegFile, flags.df \in 0 .. 1
  PROVE  LET rs == Advance(p)
         IN  /\ rs \in RegFile /\ Delta \in Int
             /\ \A r \in p : rs[r] = (regs[r] + Delta) % Word
             /\ \A r \in {"si", "di"} \ p : rs[r] = regs[r]
             /\ rs["cx"] = IF I.rep # 0 THEN (regs["cx"] - 1) % Word ELSE regs["cx"]
             /\ rs["ax"] = regs["ax"]
<1>1. Delta \in Int
  BY DEF Delta
<1>2. \A r \in Reg : regs[r] \in 0 .. Word - 1 /\ regs[r] \in Int
  BY Widths DEF RegFile
<1>3. \A x \in Int : (x % Word) \in 0 .. Word - 1
  BY Widths
<1>4. CountDown \in 0 .. Word - 1 /\ CountDown = (regs["cx"] - 1) % Word
  BY <1>2, <1>3 DEF CountDown, Reg
<1>5. \A r \in Reg : ((regs[r] + Delta) % Word) \in 0 .. Word - 1
  <2> HIDE DEF Delta
  <2> TAKE r \in Reg
  <2>1. regs[r] + Delta \in Int
    BY <1>1, <1>2
  <2> QED
    BY <1>3, <2>1
<1>6. Advance(p) \in RegFile
  BY <1>2, <1>4, <1>5 DEF Advance, RegFile
<1> QED
  BY <1>1, <1>4, <1>6 DEF Advance, Reg

LEMMA SpentStays ==
  ASSUME StringSpent
  PROVE  I.rep # 0 /\ regs.cx = 0 /\ ip' = ip + 1 /\ Stays /\ UNCHANGED <<regs, flags, mem>>
  BY DEF StringSpent, Spent, Proceed, fixed, Stays

LEMMA MovsMoves ==
  ASSUME Next, ~Irq, I.op = "movs", I.over = "no", segs = Segments, Paragraph \in Nat, regs \in RegFile
  PROVE  /\ Stays /\ flags' = flags
         /\ \/ I.rep # 0 /\ regs.cx = 0 /\ ip' = ip + 1 /\ UNCHANGED <<regs, mem>>
            \/ /\ I.rep = 0 \/ regs.cx # 0
               /\ mem' = WriteMem(I.w, regs.di + 2 * Paragraph, ReadMem(I.w, regs.si))
               /\ regs' = Advance({"si", "di"}) /\ ip' = IF I.rep = 0 THEN ip + 1 ELSE ip
<1>1. StringSpent \/ Movs
  BY Dispatch
<1>2. CASE StringSpent
  BY <1>2, SpentStays
<1>3. CASE Movs
  <2>1. Target = regs.di + 2 * Paragraph /\ Source = regs.si
    BY Widths DEF Target, Source, Segments, RegFile, Reg
  <2> QED
    BY <1>3, <2>1 DEF Movs, Spent, Repeat, fixed, Stays
<1> QED
  BY <1>1, <1>2, <1>3

LEMMA StosStores ==
  ASSUME Next, ~Irq, I.op = "stos", segs = Segments, Paragraph \in Nat, regs \in RegFile
  PROVE  /\ Stays /\ flags' = flags
         /\ \/ I.rep # 0 /\ regs.cx = 0 /\ ip' = ip + 1 /\ UNCHANGED <<regs, mem>>
            \/ /\ I.rep = 0 \/ regs.cx # 0
               /\ mem' = WriteMem(I.w, regs.di + 2 * Paragraph, GetReg(Lo))
               /\ regs' = Advance({"di"}) /\ ip' = IF I.rep = 0 THEN ip + 1 ELSE ip
<1>1. StringSpent \/ Stos
  BY Dispatch
<1>2. CASE StringSpent
  BY <1>2, SpentStays
<1>3. CASE Stos
  <2>1. Target = regs.di + 2 * Paragraph
    BY DEF Target, Segments
  <2> QED
    BY <1>3, <2>1 DEF Stos, Spent, Repeat, fixed, Stays
<1> QED
  BY <1>1, <1>2, <1>3

LEMMA LodsLoads ==
  ASSUME Next, ~Irq, I.op = "lods", I.over = "no", I.rep = 0, segs = Segments, Paragraph \in Nat,
         regs \in RegFile
  PROVE  /\ Stays /\ UNCHANGED <<flags, mem>> /\ ip' = ip + 1
         /\ regs' = PutReg(Advance({"si"}), Lo, ReadMem(I.w, regs.si))
<1>1. StringSpent \/ Lods
  BY Dispatch
<1>2. ~StringSpent
  BY SpentStays
<1>3. Lods
  BY <1>1, <1>2
<1>4. Source = regs.si
  BY Widths DEF Source, Segments, RegFile, Reg
<1> QED
  BY <1>3, <1>4 DEF Lods, Repeat, fixed, Stays

LEMMA CmpsCompares ==
  ASSUME Next, ~Irq, I.op = "cmps", I.over = "no", segs = Segments, Paragraph \in Nat, regs \in RegFile
  PROVE  LET g == FlagSub(flags, I.w, ReadMem(I.w, regs.si), ReadMem(I.w, regs.di + 2 * Paragraph))
         IN  /\ Stays /\ mem' = mem
             /\ \/ I.rep # 0 /\ regs.cx = 0 /\ ip' = ip + 1 /\ UNCHANGED <<regs, flags>>
                \/ /\ I.rep = 0 \/ regs.cx # 0
                   /\ flags' = g /\ regs' = Advance({"si", "di"})
                   /\ ip' = IF I.rep = 0 \/ Stops(g) THEN ip + 1 ELSE ip
<1>1. StringSpent \/ Cmps
  BY Dispatch
<1>2. CASE StringSpent
  BY <1>2, SpentStays
<1>3. CASE Cmps
  <2>1. Target = regs.di + 2 * Paragraph /\ Source = regs.si
    BY Widths DEF Target, Source, Segments, RegFile, Reg
  <2> QED
    BY <1>3, <2>1 DEF Cmps, CompareStep, Spent, Repeat, fixed, Stays
<1> QED
  BY <1>1, <1>2, <1>3

LEMMA ScasCompares ==
  ASSUME Next, ~Irq, I.op = "scas", segs = Segments, Paragraph \in Nat, regs \in RegFile
  PROVE  LET g == FlagSub(flags, I.w, GetReg(Lo), ReadMem(I.w, regs.di + 2 * Paragraph))
         IN  /\ Stays /\ mem' = mem
             /\ \/ I.rep # 0 /\ regs.cx = 0 /\ ip' = ip + 1 /\ UNCHANGED <<regs, flags>>
                \/ /\ I.rep = 0 \/ regs.cx # 0
                   /\ flags' = g /\ regs' = Advance({"di"})
                   /\ ip' = IF I.rep = 0 \/ Stops(g) THEN ip + 1 ELSE ip
<1>1. StringSpent \/ Scas
  BY Dispatch
<1>2. CASE StringSpent
  BY <1>2, SpentStays
<1>3. CASE Scas
  <2>1. Target = regs.di + 2 * Paragraph
    BY DEF Target, Segments
  <2> QED
    BY <1>3, <2>1 DEF Scas, CompareStep, Spent, Repeat, fixed, Stays
<1> QED
  BY <1>1, <1>2, <1>3

LEMMA JcxzJumps ==
  ASSUME Next, ~Irq, I.op = "jcxz", I.disp \in Int, ip \in Int
  PROVE  /\ Stays /\ UNCHANGED <<regs, flags, mem>>
         /\ ip' = IF regs.cx = 0 THEN ip + 1 + I.disp ELSE ip + 1
<1>1. Jcxz
  BY Dispatch
<1> QED
  BY <1>1 DEF Jcxz, Jump, fixed, Stays

LEMMA LoopLoops ==
  ASSUME Next, ~Irq, I.op \in {"loop", "loopz", "loopnz"}, ip \in Int, regs \in RegFile
  PROVE  LET c == (regs["cx"] - 1) % Word
             again == /\ c # 0
                      /\ I.op = "loopz" => flags.zf = 1
                      /\ I.op = "loopnz" => flags.zf = 0
         IN  /\ Stays /\ UNCHANGED <<flags, mem>>
             /\ regs' = [regs EXCEPT !["cx"] = c] /\ c \in 0 .. Word - 1
             /\ ip' = IF again THEN ip + 1 + I.disp ELSE ip + 1
<1>1. Loop
  BY Dispatch
<1>2. regs["cx"] \in Int
  BY Widths DEF RegFile, Reg
<1>3. ((regs["cx"] - 1) % Word) \in 0 .. Word - 1
  BY <1>2, Widths
<1> QED
  BY <1>1, <1>3 DEF Loop, Jump, Is, CountDown, fixed, Stays

LEMMA CmpCompares ==
  ASSUME Next, ~Irq, I = ToEs(I2("cmp", b8, R("al"), Mem("no", "di", 0))), segs = Segments,
         Paragraph \in Nat, regs \in RegFile
  PROVE  /\ Stays /\ UNCHANGED <<regs, mem>> /\ ip' = ip + 1
         /\ flags' = FlagSub(flags, ByteSign, GetReg("al"), Cell(regs.di + 2 * Paragraph))
<1>1. /\ I.op = "cmp" /\ I.w = ByteSign /\ I.over = "es"
      /\ I.d.k = "reg" /\ I.d.r = "al"
      /\ I.s.k = "mem" /\ I.s.b = "no" /\ I.s.x = "di" /\ I.s.disp = 0
  BY DEF ToEs, I2, R, Mem, b8
<1>2. Compare
  BY <1>1, Dispatch
<1>3. Value(I.d) = GetReg("al")
  BY <1>1 DEF Value
<1>4. regs["di"] \in 0 .. Word - 1
  BY DEF RegFile, Reg
<1>5. EA(I.s) = regs.di + 2 * Paragraph
  <2>1. OffsetIn(regs, I.s) = (0 + regs["di"] + 0) % Word
    BY <1>1 DEF OffsetIn
  <2>2. OffsetIn(regs, I.s) = regs["di"]
    BY <1>4, <2>1, Widths
  <2>3. segs[SegOf(I.s.b)] = 2
    BY <1>1 DEF SegOf, Segments
  <2> QED
    BY <2>2, <2>3 DEF EA, EAIn
<1>6. Value(I.s) = Cell(regs.di + 2 * Paragraph)
  BY <1>1, <1>5 DEF Value, ReadMem
<1> QED
  BY <1>1, <1>2, <1>3, <1>6 DEF Compare, OnlyFlags, Proceed, fixed, Stays

LEMMA LeaSteps ==
  ASSUME Next, ~Irq, I = I2("lea", b16, R("di"), Mem("no", "di", 1)), regs \in RegFile
  PROVE  /\ Stays /\ UNCHANGED <<flags, mem>> /\ ip' = ip + 1
         /\ regs' = [regs EXCEPT !["di"] = (regs["di"] + 1) % Word]
<1>1. /\ I.op = "lea" /\ I.d.r = "di" /\ I.s.b = "no" /\ I.s.x = "di" /\ I.s.disp = 1
  BY DEF I2, R, Mem
<1>2. Lea
  BY <1>1, Dispatch
<1>3. regs["di"] \in Int
  BY Widths DEF RegFile, Reg
<1>4. Offset(I.s) = (regs["di"] + 1) % Word
  BY <1>1, <1>3 DEF Offset, OffsetIn
<1> QED
  BY <1>1, <1>2, <1>4 DEF Lea, SetReg, PutReg, Proceed, Reg, fixed, Stays

-----------------------------------------------------------------------------
(* The strings in memory *)

LEMMA StringBounds ==
  ASSUME \E loads \in Loads : ini \in loads, job \in StringJobs
  PROVE  /\ ElementSize \in 1 .. 2 /\ Count * ElementSize <= 2 * Paragraph
         /\ ini.regs["si"] = (IF job = "movsd" THEN (Count - 1) % Word ELSE 0)
         /\ ini.regs["di"] = (IF job = "movsd" THEN (Count - 1) % Word ELSE 0)
<1>1. WellLoaded(ini) /\ ini.job \in StringJobs /\ Count \in Int
  BY Loaded, Widths DEF job
<1>2. StringLoad(ini)
  BY <1>1 DEF WellLoaded
<1> QED
  BY <1>1, <1>2 DEF StringLoad, ElementSize, Count, job

\* Bytes fit what a register and an element hold.
LEMMA Halves ==
  ASSUME NEW v \in 0 .. Word - 1
  PROVE  (v % Byte) \in 0 .. Byte - 1 /\ (v \div Byte) \in 0 .. Byte - 1
         /\ v = (v % Byte) + Byte * (v \div Byte)
<1>1. Byte \in Nat \ {0} /\ Word = Byte * Byte
  BY Widths
<1> DEFINE q == v \div Byte
           m == v % Byte
<1>2. m \in 0 .. Byte - 1 /\ q \in Int /\ v = Byte * q + m
  BY <1>1, Quotients
<1> HIDE DEF q, m
<1>3. (q >= 0 <=> Byte * q + m >= Byte * 0) /\ (q >= Byte <=> Byte * q + m >= Byte * Byte)
  BY <1>1, <1>2, QuotientBound
<1>4. q \in 0 .. Byte - 1
  BY <1>1, <1>2, <1>3
<1>5. v = m + Byte * q
  BY <1>1, <1>2
<1> QED
  BY <1>2, <1>4, <1>5 DEF q, m

LEMMA NewBytes ==
  ASSUME \E loads \in Loads : ini \in loads
  PROVE  /\ \A i \in 0 .. MarkAt : NewByte(i) \in 0 .. Byte - 1
         /\ Al0 \in 0 .. Byte - 1 /\ Ah0 \in 0 .. Byte - 1 /\ ini.regs["ax"] = Al0 + Byte * Ah0
<1>1. ini.regs["ax"] \in 0 .. Word - 1 /\ ini.mem \in [0 .. MarkAt -> 0 .. Byte - 1]
  BY Loaded DEF RegFile, Reg
<1>2. Al0 \in 0 .. Byte - 1 /\ Ah0 \in 0 .. Byte - 1 /\ ini.regs["ax"] = Al0 + Byte * Ah0
  BY <1>1, Halves DEF Al0, Ah0
<1>3. \A i \in 0 .. MarkAt : NewByte(i) \in 0 .. Byte - 1
  BY <1>1, <1>2 DEF NewByte
<1> QED
  BY <1>2, <1>3

\* The source lies in front of the destination, which is filled from either end.
LEMMA FilledFacts ==
  ASSUME \E loads \in Loads : ini \in loads, NEW lo \in Nat, NEW hi \in Nat, hi <= 2 * Paragraph
  PROVE  /\ Filled(lo, hi) \in [0 .. MarkAt -> 0 .. Byte - 1]
         /\ \A x \in 0 .. 2 * Paragraph - 1 : x \in 0 .. MarkAt /\ Filled(lo, hi)[x] = ini.mem[x]
<1>1. /\ Paragraph \in Nat \ {0} /\ MarkAt = 4 * Paragraph
      /\ ini.mem \in [0 .. MarkAt -> 0 .. Byte - 1]
  BY Loaded
<1>2. \A i \in 0 .. MarkAt : NewByte(i) \in 0 .. Byte - 1
  BY NewBytes
<1>3. Filled(lo, hi) \in [0 .. MarkAt -> 0 .. Byte - 1]
  <2> SUFFICES ASSUME NEW x \in 0 .. MarkAt
               PROVE (IF lo <= x - 2 * Paragraph /\ x - 2 * Paragraph < hi THEN NewByte(x - 2 * Paragraph)
                      ELSE ini.mem[x]) \in 0 .. Byte - 1
    BY DEF Filled
  <2>1. lo <= x - 2 * Paragraph => x - 2 * Paragraph \in 0 .. MarkAt
    BY <1>1
  <2> QED
    BY <1>1, <1>2, <2>1
<1>4. ASSUME NEW x \in 0 .. 2 * Paragraph - 1
      PROVE  x \in 0 .. MarkAt /\ Filled(lo, hi)[x] = ini.mem[x]
  <2>1. x \in 0 .. MarkAt /\ ~(lo <= x - 2 * Paragraph)
    BY <1>1
  <2> QED
    BY <2>1 DEF Filled
<1> QED
  BY <1>3, <1>4

LEMMA FillByte ==
  ASSUME \E loads \in Loads : ini \in loads, NEW lo \in Nat, NEW hi \in Nat,
         lo <= hi, hi <= 2 * Paragraph, mem = Filled(lo, hi)
  PROVE  /\ hi < 2 * Paragraph =>
              WriteMem(ByteSign, hi + 2 * Paragraph, NewByte(hi)) = Filled(lo, hi + 1)
         /\ lo > 0 =>
              WriteMem(ByteSign, (lo - 1) + 2 * Paragraph, NewByte(lo - 1)) = Filled(lo - 1, hi)
<1>1. Paragraph \in Nat \ {0} /\ MarkAt = 4 * Paragraph
  BY Loaded
<1>2. DOMAIN mem = 0 .. MarkAt
  BY DEF Filled
<1>3. \A i \in 0 .. MarkAt : NewByte(i) % Byte = NewByte(i)
  <2>1. \A v \in 0 .. Byte - 1 : v % Byte = v
    BY Widths
  <2>2. \A i \in 0 .. MarkAt : NewByte(i) \in 0 .. Byte - 1
    BY NewBytes
  <2> QED
    BY <2>1, <2>2
<1>4. ASSUME NEW a \in 0 .. 2 * Paragraph - 1, NEW l \in Nat, NEW h \in Nat,
             (a = hi /\ l = lo /\ h = hi + 1) \/ (a = lo - 1 /\ l = lo - 1 /\ h = hi)
      PROVE  WriteMem(ByteSign, a + 2 * Paragraph, NewByte(a)) = Filled(l, h)
  <2>1. NewByte(a) % Byte = NewByte(a)
    BY <1>1, <1>3
  <2>2. WriteMem(ByteSign, a + 2 * Paragraph, NewByte(a)) =
          [x \in 0 .. MarkAt |-> IF x = a + 2 * Paragraph THEN NewByte(a) ELSE mem[x]]
    BY <1>2, <2>1 DEF WriteMem
  <2>3. ASSUME NEW x \in 0 .. MarkAt
        PROVE  (IF x = a + 2 * Paragraph THEN NewByte(a) ELSE mem[x]) = Filled(l, h)[x]
    <3> DEFINE y == x - 2 * Paragraph
    <3>1. /\ mem[x] = IF lo <= y /\ y < hi THEN NewByte(y) ELSE ini.mem[x]
          /\ Filled(l, h)[x] = IF l <= y /\ y < h THEN NewByte(y) ELSE ini.mem[x]
      BY DEF Filled
    <3>2. (x = a + 2 * Paragraph <=> y = a) /\ y \in Int
      BY <1>1
    <3> HIDE DEF y
    <3>3. l <= y /\ y < h <=> y = a \/ (lo <= y /\ y < hi)
      BY <1>1, <1>4, <3>2
    <3> QED
      BY <1>4, <3>1, <3>2, <3>3
  <2>4. Filled(l, h) = [x \in 0 .. MarkAt |-> Filled(l, h)[x]]
    BY DEF Filled
  <2> HIDE DEF Filled
  <2> QED
    BY <2>2, <2>3, <2>4
<1>5. hi < 2 * Paragraph => hi \in 0 .. 2 * Paragraph - 1 /\ hi + 1 \in Nat
  BY <1>1
<1>6. lo > 0 => lo - 1 \in 0 .. 2 * Paragraph - 1 /\ lo - 1 \in Nat
  BY <1>1
<1> QED
  BY <1>4, <1>5, <1>6

LEMMA FillWord ==
  ASSUME \E loads \in Loads : ini \in loads, NEW hi \in Nat, hi + 1 < 2 * Paragraph,
         mem = Filled(0, hi), NEW v, v % Byte = NewByte(hi), v \div Byte = NewByte(hi + 1)
  PROVE  WriteMem(WordSign, hi + 2 * Paragraph, v) = Filled(0, hi + 2)
<1>1. Paragraph \in Nat \ {0} /\ MarkAt = 4 * Paragraph
  BY Loaded
<1>2. DOMAIN mem = 0 .. MarkAt
  BY DEF Filled
<1> DEFINE a == hi + 2 * Paragraph
<1>3. WriteMem(WordSign, a, v) =
        [x \in 0 .. MarkAt |-> IF x = a THEN NewByte(hi)
                               ELSE IF x = a + 1 THEN NewByte(hi + 1) ELSE mem[x]]
  <2>1. WordSign # ByteSign
    BY Widths
  <2> HIDE DEF a
  <2> QED
    BY <1>2, <2>1 DEF WriteMem
<1>4. ASSUME NEW x \in 0 .. MarkAt
      PROVE  (IF x = a THEN NewByte(hi) ELSE IF x = a + 1 THEN NewByte(hi + 1) ELSE mem[x])
               = Filled(0, hi + 2)[x]
  <2> DEFINE y == x - 2 * Paragraph
  <2>1. /\ mem[x] = IF 0 <= y /\ y < hi THEN NewByte(y) ELSE ini.mem[x]
        /\ Filled(0, hi + 2)[x] = IF 0 <= y /\ y < hi + 2 THEN NewByte(y) ELSE ini.mem[x]
    BY DEF Filled
  <2>2. (x = a <=> y = hi) /\ (x = a + 1 <=> y = hi + 1) /\ y \in Int
    BY <1>1
  <2> HIDE DEF y, a
  <2>3. 0 <= y /\ y < hi + 2 <=> y = hi \/ y = hi + 1 \/ (0 <= y /\ y < hi)
    BY <2>2
  <2> QED
    BY <2>1, <2>2, <2>3
<1>5. Filled(0, hi + 2) = [x \in 0 .. MarkAt |-> Filled(0, hi + 2)[x]]
  BY DEF Filled
<1> HIDE DEF Filled, a
<1>6. WriteMem(WordSign, a, v) = Filled(0, hi + 2)
  BY <1>3, <1>4, <1>5
<1> QED
  BY <1>6 DEF a

\* What is read from the strings.
LEMMA ReadStrings ==
  ASSUME NEW a \in Nat, mem \in [0 .. MarkAt -> 0 .. Byte - 1], MarkAt \in Nat
  PROVE  /\ a <= MarkAt => ReadMem(ByteSign, a) = mem[a] /\ ReadMem(ByteSign, a) \in 0 .. Byte - 1
         /\ a < MarkAt => ReadMem(WordSign, a) = mem[a] + Byte * mem[a + 1]
                          /\ ReadMem(WordSign, a) \in 0 .. Word - 1
<1>1. ASSUME a <= MarkAt
      PROVE  ReadMem(ByteSign, a) = mem[a] /\ ReadMem(ByteSign, a) \in 0 .. Byte - 1
  <2>1. a \in 0 .. MarkAt
    BY <1>1
  <2> QED
    BY <2>1 DEF ReadMem, Cell
<1>2. ASSUME a < MarkAt
      PROVE  ReadMem(WordSign, a) = mem[a] + Byte * mem[a + 1] /\ ReadMem(WordSign, a) \in 0 .. Word - 1
  <2>1. a \in 0 .. MarkAt /\ a + 1 \in 0 .. MarkAt /\ WordSign # ByteSign
    BY <1>2, Widths
  <2>2. ReadMem(WordSign, a) = mem[a] + Byte * mem[a + 1]
    BY <2>1 DEF ReadMem, Cell
  <2>3. mem[a] \in 0 .. Byte - 1 /\ mem[a + 1] \in 0 .. Byte - 1
    BY <2>1
  <2>4. ASSUME NEW x \in 0 .. Byte - 1, NEW y \in 0 .. Byte - 1
        PROVE  x + Byte * y \in 0 .. Word - 1
    <3>1. Byte \in Nat \ {0} /\ Word = Byte * Byte
      BY Widths
    <3>2. Byte * y >= 0 /\ Byte * y <= Byte * (Byte - 1) /\ Byte * y \in Int
      BY <3>1
    <3>3. Byte * (Byte - 1) = Byte * Byte - Byte
      BY <3>1
    <3> QED
      BY <3>1, <3>2, <3>3
  <2> QED
    BY <2>2, <2>3, <2>4
<1> QED
  BY <1>1, <1>2

-----------------------------------------------------------------------------
(* One step of a guest that is not interrupted *)

LEMMA Pointers ==
  ASSUME \E loads \in Loads : ini \in loads, job \in StringJobs, NEW k \in 0 .. Count - 1
  PROVE  LET a == k * ElementSize
         IN  /\ a \in Nat /\ (k + 1) * ElementSize = a + ElementSize /\ ElementSize \in 1 .. 2
             /\ a + ElementSize <= 2 * Paragraph
             /\ (a + ElementSize) % Word = a + ElementSize
             /\ ((Count - k) - 1) % Word = Count - (k + 1) /\ k + 1 \in 0 .. Count
             /\ Count - k # 0
<1>1. /\ Count \in 0 .. Word - 1 /\ Word \in Nat \ {0} /\ Paragraph \in Nat
      /\ 2 * Paragraph < Word
  BY Loaded, Widths
<1>2. Count * ElementSize <= 2 * Paragraph /\ ElementSize \in 1 .. 2
  BY StringBounds
<1>3. /\ k * ElementSize \in Nat /\ (k + 1) * ElementSize = k * ElementSize + ElementSize
      /\ (k + 1) * ElementSize <= Count * ElementSize
  <2>1. CASE ElementSize = 1
    BY <1>1, <2>1
  <2>2. CASE ElementSize = 2
    BY <1>1, <2>2
  <2> QED
    BY <1>2, <2>1, <2>2
<1>4. \A x \in 0 .. Word - 1 : x % Word = x
  BY <1>1
<1>5. k * ElementSize + ElementSize \in 0 .. Word - 1 /\ (Count - k) - 1 \in 0 .. Word - 1
      /\ (Count - k) - 1 = Count - (k + 1)
  <2> DEFINE a == k * ElementSize
             b == Count * ElementSize
  <2>1. a \in Nat /\ a + ElementSize <= b /\ b <= 2 * Paragraph /\ b \in Int
    BY <1>1, <1>2, <1>3
  <2> HIDE DEF a, b
  <2>2. a + ElementSize \in 0 .. Word - 1
    BY <1>1, <1>2, <2>1
  <2>3. (Count - k) - 1 \in 0 .. Word - 1 /\ (Count - k) - 1 = Count - (k + 1)
    BY <1>1
  <2> QED
    BY <2>2, <2>3 DEF a
<1>6. k * ElementSize + ElementSize <= 2 * Paragraph
  <2> DEFINE a == k * ElementSize
             b == Count * ElementSize
  <2>1. a \in Nat /\ a + ElementSize <= b /\ b <= 2 * Paragraph /\ b \in Int
    BY <1>1, <1>2, <1>3
  <2> HIDE DEF a, b
  <2>2. a + ElementSize <= 2 * Paragraph
    BY <1>1, <1>2, <2>1
  <2> QED
    BY <2>2 DEF a
<1>7. k + 1 \in 0 .. Count /\ Count - k # 0
  BY <1>1
<1> QED
  BY <1>2, <1>3, <1>4, <1>5, <1>6, <1>7

LEMMA MovingStep ==
  ASSUME \E loads \in Loads : ini \in loads, CpuTypeOK, segs = Segments, Next, ~Irq,
         job \in Moves, NEW k \in 0 .. Count, Moving(ip, regs, flags, mem, k)
  PROVE  /\ Stays /\ ip' \in Int /\ regs' \in RegFile /\ flags' \in Flags
         /\ \E n \in 0 .. Count : Moving(ip', regs', flags', mem', n)
<1> DEFINE a == k * ElementSize
           op == IF job \in {"movsb", "movsw"} THEN "movs" ELSE "stos"
<1>1. job \in StringJobs /\ WellLoaded(ini) /\ Paragraph \in Nat /\ Count \in Nat
      /\ MarkAt = 4 * Paragraph
  BY Loaded DEF Moves, StringJobs
<1>2. /\ I = code[ip] /\ ip \in Int /\ regs \in RegFile /\ flags \in Flags
      /\ code[12] = Str(op, ElementWidth, 1) /\ code[13] = Halt
  <2>1. code[12] = Str(op, ElementWidth, 1) /\ code[13] = Halt
    BY <1>1, TwoInFront, StringRoutines DEF Moves, ElementWidth, OfWords, b8, b16
  <2> QED
    BY <1>1, <2>1, InFront DEF CpuTypeOK
<1>3. CASE ip = 13
  <2>1. Stays /\ UNCHANGED <<ip, regs, flags, mem>>
    BY <1>2, <1>3, HaltStays
  <2> QED
    BY <1>2, <2>1 DEF Moving
<1>4. CASE ip = 12
  <2>1. I.op = op /\ I.w = ElementWidth /\ I.rep = 1 /\ I.over = "no"
    BY <1>2, <1>4 DEF Str, I1, I2
  <2>2. /\ regs["cx"] = Count - k /\ regs["di"] = a /\ regs["ax"] = ini.regs["ax"]
        /\ job \in {"movsb", "movsw"} => regs["si"] = a
        /\ flags.df = 0 /\ mem = Filled(0, a)
    BY DEF Moving
  <2> DEFINE p == IF job \in {"movsb", "movsw"} THEN {"si", "di"} ELSE {"di"}
             v == IF job \in {"movsb", "movsw"} THEN ReadMem(I.w, regs["si"]) ELSE GetReg(Lo)
  <2>3. /\ Stays /\ flags' = flags
        /\ \/ regs["cx"] = 0 /\ ip' = ip + 1 /\ UNCHANGED <<regs, mem>>
           \/ /\ regs["cx"] # 0 /\ regs' = Advance(p) /\ ip' = ip
              /\ mem' = WriteMem(I.w, regs["di"] + 2 * Paragraph, v)
    <3>1. CASE job \in {"movsb", "movsw"}
      BY <1>1, <1>2, <2>1, <3>1, MovsMoves
    <3>2. CASE job \notin {"movsb", "movsw"}
      BY <1>1, <1>2, <2>1, <3>2, StosStores
    <3> QED
      BY <3>1, <3>2
  <2>4. CASE regs["cx"] = 0
    <3>1. k = Count
      BY <1>1, <2>2, <2>4
    <3>2. ip' = 13 /\ UNCHANGED <<regs, mem, flags>>
      BY <1>4, <2>3, <2>4
    <3>3. Moving(ip', regs', flags', mem', k)
      BY <3>1, <3>2 DEF Moving
    <3> QED
      BY <1>2, <2>3, <3>2, <3>3
  <2>5. CASE regs["cx"] # 0
    <3>1. k \in 0 .. Count - 1
      BY <1>1, <2>2, <2>5
    <3>2. /\ a \in Nat /\ (k + 1) * ElementSize = a + ElementSize /\ ElementSize \in 1 .. 2
          /\ a + ElementSize <= 2 * Paragraph
          /\ (a + ElementSize) % Word = a + ElementSize
          /\ ((Count - k) - 1) % Word = Count - (k + 1) /\ k + 1 \in 0 .. Count
      BY <1>1, <3>1, Pointers
    <3>3. Delta = ElementSize
      BY <2>1, <2>2, Widths DEF Delta, ElementWidth, ElementSize
    <3>4. /\ regs' \in RegFile
          /\ \A r \in p : regs'[r] = (regs[r] + Delta) % Word
          /\ regs'["cx"] = (regs["cx"] - 1) % Word /\ regs'["ax"] = regs["ax"]
      <4>1. p \subseteq {"si", "di"} /\ flags.df \in 0 .. 1 /\ I.rep # 0
        BY <2>1, <2>2
      <4>2. regs' = Advance(p) /\ regs \in RegFile
        BY <1>2, <2>3, <2>5
      <4> HIDE DEF p
      <4>3. /\ Advance(p) \in RegFile
            /\ \A r \in p : Advance(p)[r] = (regs[r] + Delta) % Word
            /\ Advance(p)["cx"] = (regs["cx"] - 1) % Word /\ Advance(p)["ax"] = regs["ax"]
        BY <4>1, <4>2, Advances
      <4> QED
        BY <4>2, <4>3, Zenon
    <3>5. /\ regs'["cx"] = Count - (k + 1) /\ regs'["ax"] = ini.regs["ax"]
          /\ regs'["di"] = (k + 1) * ElementSize
          /\ job \in {"movsb", "movsw"} => regs'["si"] = (k + 1) * ElementSize
      BY <2>2, <3>2, <3>3, <3>4
    <3>6. ip' = 12 /\ mem' = WriteMem(ElementWidth, a + 2 * Paragraph, v)
      BY <1>4, <2>1, <2>2, <2>3, <2>5
    <3>7. mem' = Filled(0, a + ElementSize)
      <4>1. /\ MarkAt \in Nat /\ a + ElementSize <= 2 * Paragraph /\ a <= 2 * Paragraph
            /\ a <= MarkAt /\ (ElementSize = 2 => a < MarkAt)
        BY <1>1, <3>2
      <4>2. /\ mem \in [0 .. MarkAt -> 0 .. Byte - 1]
            /\ \A x \in 0 .. 2 * Paragraph - 1 : mem[x] = ini.mem[x]
        <5> HIDE DEF a
        <5>1. 0 \in Nat /\ a \in Nat /\ a <= 2 * Paragraph /\ mem = Filled(0, a)
          BY <2>2, <3>2, <4>1
        <5> QED
          BY <5>1, FilledFacts
      <4>3. v = IF job \in {"movsb", "movsw"} THEN ReadMem(ElementWidth, a) ELSE GetReg(Lo)
        BY <2>1, <2>2
      <4>4. regs["ax"] = Al0 + Byte * Ah0 /\ Al0 \in 0 .. Byte - 1 /\ Ah0 \in 0 .. Byte - 1
        BY <2>2, NewBytes
      <4> HIDE DEF a, v
      <4>5. CASE job \in {"movsb", "stosb"}
        <5>1. ElementSize = 1 /\ ElementWidth = ByteSign
          BY <4>5 DEF ElementSize, ElementWidth, OfWords
        <5>2. a \in 0 .. 2 * Paragraph - 1
          BY <1>1, <3>2, <4>1, <5>1
        <5>3. v = NewByte(a)
          <6>1. CASE job = "movsb"
            BY <3>2, <4>1, <4>2, <4>3, <5>1, <5>2, <6>1, ReadStrings DEF NewByte
          <6>2. CASE job = "stosb"
            <7>1. Lo = "al"
              BY <2>1, <5>1 DEF Lo
            <7>2. regs["ax"] \div 1 = regs["ax"] /\ regs["ax"] = ini.regs["ax"]
              BY <2>2, <4>4, Widths
            <7>3. GetReg("al") = ini.regs["ax"] % Byte
              BY <7>2 DEF GetReg, Reg, Half
            <7> QED
              BY <4>3, <6>2, <7>1, <7>3 DEF NewByte, Al0
          <6> QED
            BY <4>5, <6>1, <6>2
        <5>4. WriteMem(ByteSign, a + 2 * Paragraph, NewByte(a)) = Filled(0, a + 1)
          BY <1>1, <2>2, <3>2, <4>1, <5>1, <5>2, FillByte
        <5> QED
          BY <3>6, <5>1, <5>3, <5>4
      <4>6. CASE job \in {"movsw", "stosw"}
        <5>1. ElementSize = 2 /\ ElementWidth = WordSign
          BY <4>6 DEF ElementSize, ElementWidth, OfWords
        <5>2. a \in 0 .. 2 * Paragraph - 1 /\ a + 1 \in 0 .. 2 * Paragraph - 1
          BY <1>1, <3>2, <4>1, <5>1
        <5>3. v % Byte = NewByte(a) /\ v \div Byte = NewByte(a + 1)
          <6>1. \A x, y \in 0 .. Byte - 1 : (x + Byte * y) % Byte = x /\ (x + Byte * y) \div Byte = y
            <7>1. TAKE x, y \in 0 .. Byte - 1
            <7>2. Byte \in Nat \ {0}
              BY Widths
            <7>3. (y * Byte + x) % Byte = x /\ (y * Byte + x) \div Byte = y
              BY <7>2, Reassembled
            <7>4. y * Byte + x = x + Byte * y
              BY <7>2
            <7> QED
              BY <7>3, <7>4
          <6>2. CASE job = "movsw"
            <7>1. v = mem[a] + Byte * mem[a + 1]
              BY <3>2, <4>1, <4>2, <4>3, <5>1, <6>2, ReadStrings
            <7>2. /\ mem[a] = ini.mem[a] /\ mem[a + 1] = ini.mem[a + 1]
                  /\ mem[a] \in 0 .. Byte - 1 /\ mem[a + 1] \in 0 .. Byte - 1
              BY <1>1, <4>2, <5>2
            <7> QED
              BY <6>1, <6>2, <7>1, <7>2 DEF NewByte
          <6>3. CASE job = "stosw"
            <7>1. Lo = "ax"
              BY <2>1, <5>1, Widths DEF Lo
            <7>2. v = Al0 + Byte * Ah0
              BY <4>3, <4>4, <6>3, <7>1 DEF GetReg, Reg
            <7>3. a % 2 = 0 /\ (a + 1) % 2 # 0
              BY <1>1, <5>1 DEF a
            <7> QED
              BY <4>4, <6>1, <6>3, <7>2, <7>3 DEF NewByte
          <6> QED
            BY <4>6, <6>2, <6>3
        <5>4. WriteMem(WordSign, a + 2 * Paragraph, v) = Filled(0, a + 2)
          BY <2>2, <3>2, <5>1, <5>2, <5>3, FillWord, <1>1
        <5> QED
          BY <3>6, <5>1, <5>4
      <4> QED
        BY <4>5, <4>6 DEF Moves
    <3>8. Moving(ip', regs', flags', mem', k + 1)
      BY <2>2, <2>3, <3>2, <3>5, <3>6, <3>7 DEF Moving
    <3> QED
      BY <1>2, <2>3, <3>2, <3>4, <3>6, <3>8
  <2> QED
    BY <2>4, <2>5
<1> QED
  BY <1>3, <1>4 DEF Moving

LEMMA MovingDownStep ==
  ASSUME \E loads \in Loads : ini \in loads, CpuTypeOK, segs = Segments, Next, ~Irq,
         job = "movsd", NEW k \in 0 .. Count, MovingDown(ip, regs, flags, mem, k)
  PROVE  /\ Stays /\ ip' \in Int /\ regs' \in RegFile /\ flags' \in Flags
         /\ \E n \in 0 .. Count : MovingDown(ip', regs', flags', mem', n)
<1>1. /\ job \in StringJobs /\ WellLoaded(ini) /\ Paragraph \in Nat \ {0} /\ Count \in 0 .. Word - 1
      /\ MarkAt = 4 * Paragraph /\ MarkAt < Word /\ Word \in Nat \ {0}
      /\ Count <= 2 * Paragraph /\ ElementSize = 1
  <2>1. job \in StringJobs /\ job \notin OfWords
    BY DEF StringJobs, OfWords
  <2>2. ElementSize = 1
    BY <2>1 DEF ElementSize
  <2>3. /\ WellLoaded(ini) /\ Paragraph \in Nat \ {0} /\ Count \in 0 .. Word - 1
        /\ MarkAt = 4 * Paragraph /\ MarkAt < Word
    BY Loaded
  <2>4. Count * ElementSize <= 2 * Paragraph
    BY <2>1, StringBounds
  <2>5. Word \in Nat \ {0}
    BY Widths
  <2>6. Count <= 2 * Paragraph
    BY <2>2, <2>3, <2>4, <2>5
  <2> QED
    BY <2>1, <2>2, <2>3, <2>5, <2>6
<1>2. /\ I = code[ip] /\ ip \in Int /\ regs \in RegFile /\ flags \in Flags
      /\ code[12] = I0("std") /\ code[13] = Str("movs", b8, 1)
      /\ code[14] = I0("cld") /\ code[15] = Halt
  <2>1. /\ code[12] = I0("std") /\ code[13] = Str("movs", b8, 1)
        /\ code[14] = I0("cld") /\ code[15] = Halt
    BY <1>1, FourInFront, StringRoutines
  <2> QED
    BY <1>1, <2>1, InFront DEF CpuTypeOK
<1>3. CASE ip = 15
  <2>1. Stays /\ UNCHANGED <<ip, regs, flags, mem>>
    BY <1>2, <1>3, HaltStays
  <2> QED
    BY <1>2, <2>1 DEF MovingDown
<1>4. CASE ip \in {12, 14}
  <2>1. I.op = (IF ip = 12 THEN "std" ELSE "cld")
    BY <1>2, <1>4 DEF I0, I1, I2
  <2>2. /\ flags' = [flags EXCEPT !.df = IF I.op = "std" THEN 1 ELSE 0] /\ ip' = ip + 1
        /\ UNCHANGED <<ini, segs, calls, regs, mem, stack>>
    BY <1>2, <1>4, SetDirection
  <2>3. flags'.df = Flag(ip' \in {13, 14}) /\ flags' \in Flags /\ ip' \in {13, 15}
    <3>1. flags' = [flags EXCEPT !.df = IF ip = 12 THEN 1 ELSE 0]
      BY <1>4, <2>1, <2>2
    <3>2. flags'.df = (IF ip = 12 THEN 1 ELSE 0) /\ flags' \in Flags
      BY <1>2, <3>1 DEF Flags
    <3> QED
      BY <1>4, <2>2, <3>2 DEF Flag
  <2>4. MovingDown(ip', regs', flags', mem', k)
    BY <1>4, <2>2, <2>3 DEF MovingDown
  <2> QED
    BY <1>2, <2>2, <2>3, <2>4 DEF Stays
<1>5. CASE ip = 13
  <2>1. I.op = "movs" /\ I.w = ByteSign /\ I.rep = 1 /\ I.over = "no"
    BY <1>2, <1>5 DEF Str, I1, I2, b8
  <2> DEFINE a == (Count - 1) - k
  <2>2. /\ regs["cx"] = Count - k /\ regs["si"] = a % Word /\ regs["di"] = a % Word
        /\ flags.df = 1 /\ mem = Filled(Count - k, Count)
    BY <1>5 DEF MovingDown, Flag
  <2>3. /\ Stays /\ flags' = flags
        /\ \/ regs["cx"] = 0 /\ ip' = ip + 1 /\ UNCHANGED <<regs, mem>>
           \/ /\ regs["cx"] # 0 /\ regs' = Advance({"si", "di"}) /\ ip' = ip
              /\ mem' = WriteMem(I.w, regs["di"] + 2 * Paragraph, ReadMem(I.w, regs["si"]))
    BY <1>1, <1>2, <2>1, MovsMoves
  <2>4. CASE regs["cx"] = 0
    <3>1. k = Count
      BY <1>1, <2>2, <2>4
    <3>2. ip' = 14 /\ UNCHANGED <<regs, mem, flags>>
      BY <1>5, <2>3, <2>4
    <3>3. MovingDown(ip', regs', flags', mem', k)
      BY <1>5, <3>1, <3>2 DEF MovingDown
    <3> QED
      BY <1>2, <2>3, <3>2, <3>3
  <2>5. CASE regs["cx"] # 0
    <3>1. k \in 0 .. Count - 1 /\ a \in 0 .. 2 * Paragraph - 1 /\ a \in 0 .. Word - 1
          /\ Count - k = a + 1 /\ a = Count - (k + 1) /\ k + 1 \in 0 .. Count
      BY <1>1, <2>2, <2>5
    <3>2. ((Count - k) - 1) % Word = Count - (k + 1)
      BY <1>1, <3>1, Pointers
    <3>3. a % Word = a /\ a - 1 = (Count - 1) - (k + 1)
      BY <1>1, <3>1
    <3>4. Delta = -1
      BY <2>1, <2>2 DEF Delta
    <3>5. /\ regs' \in RegFile
          /\ \A r \in {"si", "di"} : regs'[r] = (regs[r] + Delta) % Word
          /\ regs'["cx"] = (regs["cx"] - 1) % Word
      <4>1. {"si", "di"} \subseteq {"si", "di"} /\ flags.df \in 0 .. 1 /\ I.rep # 0
        BY <2>1, <2>2
      <4> DEFINE p == {"si", "di"}
      <4>2. regs' = Advance(p) /\ regs \in RegFile
        BY <1>2, <2>3, <2>5
      <4>3. /\ Advance(p) \in RegFile
            /\ \A r \in p : Advance(p)[r] = (regs[r] + Delta) % Word
            /\ Advance(p)["cx"] = (regs["cx"] - 1) % Word
        BY <4>1, <4>2, Advances
      <4> QED
        BY <4>2, <4>3, Zenon
    <3> HIDE DEF a
    <3>6. /\ regs'["cx"] = Count - (k + 1)
          /\ regs'["si"] = ((Count - 1) - (k + 1)) % Word
          /\ regs'["di"] = ((Count - 1) - (k + 1)) % Word
      <4>1. regs["si"] + Delta = a - 1 /\ regs["di"] + Delta = a - 1
        BY <2>2, <3>1, <3>3, <3>4
      <4> QED
        BY <2>2, <3>2, <3>3, <3>5, <4>1
    <3>7. ip' = 13 /\ mem' = WriteMem(ByteSign, a + 2 * Paragraph, ReadMem(ByteSign, a))
      BY <1>5, <2>1, <2>2, <2>3, <2>5, <3>3
    <3>8. mem' = Filled(Count - (k + 1), Count)
      <4>1. /\ Count - k \in Nat /\ Count \in Nat /\ Count - k <= Count /\ Count - k > 0
            /\ a = (Count - k) - 1 /\ a \in Nat /\ a <= MarkAt /\ MarkAt \in Nat
        BY <1>1, <3>1
      <4>2. /\ mem \in [0 .. MarkAt -> 0 .. Byte - 1]
            /\ \A x \in 0 .. 2 * Paragraph - 1 : mem[x] = ini.mem[x]
        <5> DEFINE lo == Count - k
                   hi == Count
                   M == Filled(lo, hi)
        <5>1. mem = M /\ lo \in Nat /\ hi \in Nat /\ hi <= 2 * Paragraph
          BY <1>1, <2>2, <4>1
        <5> HIDE DEF lo, hi
        <5>2. /\ M \in [0 .. MarkAt -> 0 .. Byte - 1]
              /\ \A x \in 0 .. 2 * Paragraph - 1 : M[x] = ini.mem[x]
          BY <1>1, <5>1, FilledFacts
        <5> HIDE DEF M
        <5> QED
          BY <5>1, <5>2, Zenon
      <4>3. ReadMem(ByteSign, a) = NewByte(a)
        BY <3>1, <4>1, <4>2, ReadStrings DEF NewByte
      <4>4. WriteMem(ByteSign, ((Count - k) - 1) + 2 * Paragraph, NewByte((Count - k) - 1))
              = Filled((Count - k) - 1, Count)
        BY <1>1, <2>2, <4>1, FillByte
      <4> QED
        BY <3>1, <3>7, <4>1, <4>3, <4>4
    <3>9. MovingDown(ip', regs', flags', mem', k + 1)
      BY <2>2, <2>3, <3>6, <3>7, <3>8 DEF MovingDown, Flag
    <3> QED
      BY <1>2, <2>3, <3>1, <3>5, <3>7, <3>9
  <2> QED
    BY <2>4, <2>5
<1> QED
  BY <1>3, <1>4, <1>5 DEF MovingDown

\* A byte put into AL leaves AH and the other registers alone.
LEMMA PutAl ==
  ASSUME NEW rs \in RegFile, NEW v \in 0 .. Byte - 1
  PROVE  /\ PutReg(rs, "al", v) \in RegFile /\ PutReg(rs, "al", v)["ax"] % Byte = v
         /\ \A r \in Reg \ {"ax"} : PutReg(rs, "al", v)[r] = rs[r]
<1> DEFINE x == rs["ax"]
           q == x \div Byte
           m == x % Byte
<1>1. x \in 0 .. Word - 1 /\ Byte \in Nat \ {0} /\ Word = Byte * Byte
  BY Widths DEF RegFile, Reg
<1>2. m \in 0 .. Byte - 1 /\ q \in 0 .. Byte - 1 /\ x = m + Byte * q /\ x \div 1 = x
  <2> HIDE DEF x
  <2>1. m \in 0 .. Byte - 1 /\ q \in 0 .. Byte - 1 /\ x = m + Byte * q
    BY <1>1, Halves
  <2>2. x \div 1 = x
    BY <1>1
  <2> QED
    BY <2>1, <2>2
<1> HIDE DEF x
<1>3. PutReg(rs, "al", v) = [rs EXCEPT !["ax"] = x + (v - m) * 1]
  BY <1>2 DEF PutReg, Reg, Half, x
<1> HIDE DEF q, m
<1>4. x + (v - m) * 1 = q * Byte + v
  BY <1>1, <1>2
<1>5. (q * Byte + v) % Byte = v
  BY <1>1, <1>2, Reassembled
<1>6. q * Byte + v \in 0 .. Word - 1
  <2>1. q * Byte >= 0 /\ q * Byte <= (Byte - 1) * Byte /\ q * Byte \in Int
    BY <1>1, <1>2
  <2>2. (Byte - 1) * Byte = Byte * Byte - Byte
    BY <1>1
  <2> QED
    BY <1>1, <2>1, <2>2
<1>7. PutReg(rs, "al", v) = [rs EXCEPT !["ax"] = q * Byte + v] /\ "ax" \in Reg
  BY <1>3, <1>4 DEF Reg
<1> QED
  BY <1>5, <1>6, <1>7 DEF RegFile

LEMMA CopyingStep ==
  ASSUME \E loads \in Loads : ini \in loads, CpuTypeOK, segs = Segments, Next, ~Irq,
         job = "copy", NEW k \in 0 .. Count, Copying(ip, regs, flags, mem, k)
  PROVE  /\ Stays /\ ip' \in Int /\ regs' \in RegFile /\ flags' \in Flags
         /\ \E n \in 0 .. Count : Copying(ip', regs', flags', mem', n)
<1>1. /\ job \in StringJobs /\ WellLoaded(ini) /\ Paragraph \in Nat \ {0} /\ Count \in 0 .. Word - 1
      /\ MarkAt = 4 * Paragraph /\ MarkAt < Word /\ Word \in Nat \ {0}
      /\ Count <= 2 * Paragraph /\ ElementSize = 1
  <2>1. job \in StringJobs /\ job \notin OfWords
    BY DEF StringJobs, OfWords
  <2>2. ElementSize = 1
    BY <2>1 DEF ElementSize
  <2>3. /\ WellLoaded(ini) /\ Paragraph \in Nat \ {0} /\ Count \in 0 .. Word - 1
        /\ MarkAt = 4 * Paragraph /\ MarkAt < Word
    BY Loaded
  <2>4. Count * ElementSize <= 2 * Paragraph
    BY <2>1, StringBounds
  <2>5. Word \in Nat \ {0}
    BY Widths
  <2>6. Count <= 2 * Paragraph
    BY <2>2, <2>3, <2>4, <2>5
  <2> QED
    BY <2>1, <2>2, <2>3, <2>5, <2>6
<1>2. /\ I = code[ip] /\ ip \in Int /\ regs \in RegFile /\ flags \in Flags
      /\ code[12] = To("jcxz", 3) /\ code[13] = Str("lods", b8, 0) /\ code[14] = Str("stos", b8, 0)
      /\ code[15] = To("loop", -3) /\ code[16] = Halt
  <2>1. /\ code[12] = To("jcxz", 3) /\ code[13] = Str("lods", b8, 0)
        /\ code[14] = Str("stos", b8, 0) /\ code[15] = To("loop", -3) /\ code[16] = Halt
    BY <1>1, FiveInFront, StringRoutines
  <2> QED
    BY <1>1, <2>1, InFront DEF CpuTypeOK
<1>3. /\ regs["cx"] = Count - k + Flag(ip = 15) /\ regs["si"] = k + Flag(ip = 14)
      /\ regs["di"] = k /\ flags.df = 0 /\ mem = Filled(0, k)
      /\ ip = 14 => regs["ax"] % Byte = ini.mem[k]
  BY DEF Copying
<1>4. \A x \in 0 .. Word - 1 : x % Word = x
  BY <1>1
<1>5. \A r \in Reg : regs[r] \in 0 .. Word - 1
  BY <1>2 DEF RegFile
<1>6. CASE ip = 16
  <2>1. Stays /\ UNCHANGED <<ip, regs, flags, mem>>
    BY <1>2, <1>6, HaltStays
  <2> QED
    BY <1>2, <2>1 DEF Copying
<1>7. CASE ip = 12
  <2>1. I.op = "jcxz" /\ I.disp = 3
    BY <1>2, <1>7 DEF To, I0, I1, I2
  <2>2. /\ Stays /\ UNCHANGED <<regs, flags, mem>>
        /\ ip' = IF regs["cx"] = 0 THEN 16 ELSE 13
    BY <1>2, <1>7, <2>1, JcxzJumps
  <2>3. k = 0 /\ regs["cx"] = Count /\ (Count # 0 => k < Count)
    BY <1>1, <1>3, <1>7 DEF Copying, Flag
  <2>4. Copying(ip', regs', flags', mem', k)
    BY <1>3, <1>7, <2>2, <2>3 DEF Copying, Flag
  <2> QED
    BY <1>2, <2>2, <2>4
<1>8. CASE ip = 13
  <2>1. I.op = "lods" /\ I.w = ByteSign /\ I.rep = 0 /\ I.over = "no"
    BY <1>2, <1>8 DEF Str, I1, I2, b8
  <2>2. /\ Stays /\ UNCHANGED <<flags, mem>> /\ ip' = 14
        /\ regs' = PutReg(Advance({"si"}), Lo, ReadMem(I.w, regs["si"]))
    BY <1>1, <1>2, <1>8, <2>1, LodsLoads
  <2>3. k < Count /\ regs["cx"] = Count - k /\ regs["si"] = k /\ k + 1 \in 0 .. Word - 1
        /\ k \in 0 .. 2 * Paragraph - 1 /\ k \in Nat /\ k <= MarkAt /\ MarkAt \in Nat
    BY <1>1, <1>3, <1>8 DEF Copying, Flag
  <2> DEFINE rs == Advance({"si"})
  <2>4. /\ rs \in RegFile /\ rs["si"] = k + 1 /\ rs["di"] = k /\ rs["cx"] = Count - k
    <3>1. {"si"} \subseteq {"si", "di"} /\ flags.df \in 0 .. 1 /\ I.rep = 0
      BY <1>3, <2>1
    <3>2. /\ rs \in RegFile /\ rs["si"] = (regs["si"] + Delta) % Word /\ rs["di"] = regs["di"]
          /\ rs["cx"] = regs["cx"]
      BY <1>2, <3>1, Advances
    <3>3. Delta = 1
      BY <1>3, <2>1 DEF Delta
    <3> QED
      BY <1>3, <1>4, <2>3, <3>2, <3>3
  <2>5. ReadMem(ByteSign, k) = ini.mem[k] /\ ini.mem[k] \in 0 .. Byte - 1
    <3>1. /\ mem \in [0 .. MarkAt -> 0 .. Byte - 1]
          /\ \A x \in 0 .. 2 * Paragraph - 1 : mem[x] = ini.mem[x]
      <4>1. 0 \in Nat /\ k \in Nat /\ k <= 2 * Paragraph
        BY <1>1, <2>3
      <4> QED
        BY <1>3, <4>1, FilledFacts
    <3>2. ReadMem(ByteSign, k) = mem[k] /\ ReadMem(ByteSign, k) \in 0 .. Byte - 1
      BY <2>3, <3>1, ReadStrings
    <3> QED
      BY <2>3, <3>1, <3>2
  <2>6. /\ regs' \in RegFile /\ regs'["si"] = k + 1 /\ regs'["di"] = k /\ regs'["cx"] = Count - k
        /\ regs'["ax"] % Byte = ini.mem[k]
    <3> HIDE DEF rs
    <3>1. Lo = "al"
      BY <2>1 DEF Lo
    <3>2. regs' = PutReg(rs, "al", ini.mem[k])
      BY <2>1, <2>2, <2>3, <2>5, <3>1 DEF rs
    <3> QED
      BY <2>4, <2>5, <3>2, PutAl DEF Reg
  <2>7. Copying(ip', regs', flags', mem', k)
    <3>1. regs'["cx"] = Count - k + 0 /\ regs'["si"] = k + 1
      BY <1>1, <2>6
    <3>2. Flag(ip' = 15) = 0 /\ Flag(ip' = 14) = 1
      BY <2>2 DEF Flag
    <3> QED
      BY <1>3, <2>2, <2>3, <2>6, <3>1, <3>2 DEF Copying
  <2> QED
    BY <1>2, <2>2, <2>6, <2>7
<1>9. CASE ip = 14
  <2>1. I.op = "stos" /\ I.w = ByteSign /\ I.rep = 0
    BY <1>2, <1>9 DEF Str, I1, I2, b8
  <2>2. /\ Stays /\ flags' = flags /\ ip' = 15 /\ regs' = Advance({"di"})
        /\ mem' = WriteMem(ByteSign, regs["di"] + 2 * Paragraph, GetReg(Lo))
    BY <1>1, <1>2, <1>9, <2>1, StosStores
  <2>3. /\ k < Count /\ regs["cx"] = Count - k /\ regs["si"] = k + 1 /\ k + 1 \in 0 .. Word - 1
        /\ k < 2 * Paragraph /\ k \in Nat /\ k <= 2 * Paragraph /\ 0 <= k /\ k + 1 \in 0 .. Count
        /\ Count - k = (Count - (k + 1)) + 1
    BY <1>1, <1>3, <1>9 DEF Copying, Flag
  <2>4. /\ regs' \in RegFile /\ regs'["di"] = k + 1 /\ regs'["si"] = k + 1
        /\ regs'["cx"] = Count - k
    <3>1. {"di"} \subseteq {"si", "di"} /\ flags.df \in 0 .. 1 /\ I.rep = 0
      BY <1>3, <2>1
    <3>2. /\ regs' \in RegFile /\ regs'["di"] = (regs["di"] + Delta) % Word
          /\ regs'["si"] = regs["si"] /\ regs'["cx"] = regs["cx"]
      BY <1>2, <2>2, <3>1, Advances
    <3>3. Delta = 1
      BY <1>3, <2>1 DEF Delta
    <3> QED
      BY <1>3, <1>4, <2>3, <3>2, <3>3
  <2>5. GetReg(Lo) = NewByte(k)
    <3>1. Lo = "al"
      BY <2>1 DEF Lo
    <3>2. regs["ax"] \div 1 = regs["ax"]
      BY <1>5, Widths DEF Reg
    <3>3. GetReg("al") = regs["ax"] % Byte
      BY <3>2 DEF GetReg, Reg, Half
    <3> QED
      BY <1>3, <1>9, <3>1, <3>3 DEF NewByte
  <2>6. mem' = Filled(0, k + 1)
    BY <1>3, <2>2, <2>3, <2>5, FillByte
  <2>7. Copying(ip', regs', flags', mem', k + 1)
    BY <1>3, <2>2, <2>3, <2>4, <2>6 DEF Copying, Flag
  <2> QED
    BY <1>2, <2>2, <2>3, <2>4, <2>7
<1>10. CASE ip = 15
  <2>1. I.op = "loop" /\ I.disp = -3
    BY <1>2, <1>10 DEF To, I0, I1, I2
  <2>2. k > 0 /\ regs["cx"] = Count - k + 1 /\ regs["si"] = k /\ (Count - k) % Word = Count - k
    BY <1>1, <1>3, <1>10 DEF Copying, Flag
  <2>3. /\ Stays /\ UNCHANGED <<flags, mem>>
        /\ regs' = [regs EXCEPT !["cx"] = Count - k] /\ Count - k \in 0 .. Word - 1
        /\ ip' = IF Count - k # 0 THEN 13 ELSE 16
    <3>1. (regs["cx"] - 1) % Word = Count - k
      BY <1>1, <2>2
    <3> QED
      BY <1>2, <1>10, <2>1, <3>1, LoopLoops
  <2>4. regs' \in RegFile /\ regs'["cx"] = Count - k /\ regs'["si"] = k /\ regs'["di"] = k
    BY <1>2, <1>3, <2>2, <2>3 DEF RegFile, Reg
  <2>5. (Count - k # 0 => k < Count) /\ (Count - k = 0 => k = Count)
    BY <1>1
  <2>6. Copying(ip', regs', flags', mem', k)
    BY <1>3, <2>3, <2>4, <2>5 DEF Copying, Flag
  <2>7. ip' \in Int
    BY <2>3
  <2>8. flags' \in Flags
    BY <1>2, <2>3
  <2> QED
    BY <2>3, <2>4, <2>6, <2>7, <2>8
<1> QED
  BY <1>6, <1>7, <1>8, <1>9, <1>10 DEF Copying

LEMMA ElementRead ==
  ASSUME \E loads \in Loads : ini \in loads, job \in StringJobs, mem = ini.mem,
         NEW k \in 0 .. Count - 1
  PROVE  LET a == k * ElementSize
             x == ReadMem(ElementWidth, a)
             y == ReadMem(ElementWidth, a + 2 * Paragraph)
         IN  /\ x = Element("ds", ElementWidth, k) /\ x \in Operand(ElementWidth)
             /\ y = Element("es", ElementWidth, k) /\ y \in Operand(ElementWidth)
             /\ ElementWidth \in Nat \ {0}
<1> DEFINE a == k * ElementSize
<1>1. /\ Paragraph \in Nat \ {0} /\ MarkAt = 4 * Paragraph /\ MarkAt \in Nat
      /\ mem \in [0 .. MarkAt -> 0 .. Byte - 1] /\ Count \in Nat
      /\ ini.seg["ds"] = 0 /\ ini.seg["es"] = 2
  BY Loaded DEF Segments
<1>2. a \in Nat /\ ElementSize \in 1 .. 2 /\ a + ElementSize <= 2 * Paragraph
  BY Pointers
<1>3. ByteSign # WordSign /\ ByteSign \in Nat \ {0} /\ WordSign \in Nat \ {0}
      /\ Operand(ByteSign) = 0 .. Byte - 1 /\ Operand(WordSign) = 0 .. Word - 1
  BY Widths DEF Operand
<1>4. CASE job \notin OfWords
  <2>1. ElementSize = 1 /\ ElementWidth = ByteSign
    BY <1>4 DEF ElementSize, ElementWidth
  <2>2. a = k /\ a \in Nat /\ a + 2 * Paragraph \in Nat /\ a <= MarkAt /\ a + 2 * Paragraph <= MarkAt
    BY <1>1, <1>2, <2>1
  <2>3. /\ ReadMem(ByteSign, a) = mem[a] /\ ReadMem(ByteSign, a) \in 0 .. Byte - 1
        /\ ReadMem(ByteSign, a + 2 * Paragraph) = mem[a + 2 * Paragraph]
        /\ ReadMem(ByteSign, a + 2 * Paragraph) \in 0 .. Byte - 1
    <3> HIDE DEF a
    <3> QED
      BY <1>1, <2>2, ReadStrings
  <2>4. Element("ds", ByteSign, k) = mem[a] /\ Element("es", ByteSign, k) = mem[a + 2 * Paragraph]
    <3>1. 0 * Paragraph + k = a /\ 2 * Paragraph + k = a + 2 * Paragraph
      BY <1>1, <2>2
    <3> QED
      BY <1>1, <3>1 DEF Element
  <2> QED
    BY <1>3, <2>1, <2>3, <2>4
<1>5. CASE job \in OfWords
  <2>1. ElementSize = 2 /\ ElementWidth = WordSign
    BY <1>5 DEF ElementSize, ElementWidth
  <2>2. a = 2 * k /\ a \in Nat /\ a + 2 * Paragraph \in Nat /\ a < MarkAt /\ a + 2 * Paragraph < MarkAt
    BY <1>1, <1>2, <2>1
  <2>3. /\ ReadMem(WordSign, a) = mem[a] + Byte * mem[a + 1] /\ ReadMem(WordSign, a) \in 0 .. Word - 1
        /\ ReadMem(WordSign, a + 2 * Paragraph)
             = mem[a + 2 * Paragraph] + Byte * mem[(a + 2 * Paragraph) + 1]
        /\ ReadMem(WordSign, a + 2 * Paragraph) \in 0 .. Word - 1
    <3> HIDE DEF a
    <3> QED
      BY <1>1, <2>2, ReadStrings
  <2>4. /\ Element("ds", WordSign, k) = mem[a] + Byte * mem[a + 1]
        /\ Element("es", WordSign, k) = mem[a + 2 * Paragraph] + Byte * mem[(a + 2 * Paragraph) + 1]
    <3>1. 0 * Paragraph + 2 * k = a /\ 2 * Paragraph + 2 * k = a + 2 * Paragraph
      BY <1>1, <2>2
    <3> QED
      BY <1>1, <1>3, <3>1 DEF Element, Pair
  <2> QED
    BY <1>3, <2>1, <2>3, <2>4
<1> QED
  BY <1>4, <1>5

LEMMA SearchingStep ==
  ASSUME \E loads \in Loads : ini \in loads, CpuTypeOK, segs = Segments, Next, ~Irq,
         job \in Scans, NEW k \in 0 .. Count, Searching(ip, regs, flags, mem, k)
  PROVE  /\ Stays /\ ip' \in Int /\ regs' \in RegFile /\ flags' \in Flags
         /\ \E n \in 0 .. Count : Searching(ip', regs', flags', mem', n)
<1> DEFINE a == k * ElementSize
           cmps == job \in {"cmpsb", "cmpsw"}
<1>1. job \in StringJobs /\ WellLoaded(ini) /\ Paragraph \in Nat /\ Count \in Nat
  BY Loaded DEF Scans, StringJobs
<1>2. /\ I = code[ip] /\ ip \in Int /\ regs \in RegFile /\ flags \in Flags
      /\ code[12] = (IF cmps THEN Str("cmps", ElementWidth, 1) ELSE Str("scas", ElementWidth, 2))
      /\ code[13] = Halt
  <2>1. /\ code[12] = (IF cmps THEN Str("cmps", ElementWidth, 1) ELSE Str("scas", ElementWidth, 2))
        /\ code[13] = Halt
    BY <1>1, TwoInFront, StringRoutines DEF Scans, ElementWidth, OfWords, b8, b16
  <2> QED
    BY <1>1, <2>1, InFront DEF CpuTypeOK
<1>3. CASE ip = 13
  <2>1. Stays /\ UNCHANGED <<ip, regs, flags, mem>>
    BY <1>2, <1>3, HaltStays
  <2> QED
    BY <1>2, <2>1 DEF Searching
<1>4. CASE ip = 12
  <2>1. /\ I.op = (IF cmps THEN "cmps" ELSE "scas") /\ I.w = ElementWidth
        /\ I.rep = (IF cmps THEN 1 ELSE 2) /\ I.rep # 0 /\ I.over = "no"
    BY <1>2, <1>4 DEF Str, I1, I2
  <2>2. /\ regs["cx"] = Count - k /\ regs["di"] = a /\ regs["ax"] = ini.regs["ax"]
        /\ regs["si"] = (IF cmps THEN a ELSE ini.regs["si"])
        /\ flags.df = 0 /\ mem = ini.mem /\ Looked(flags, k) /\ (k > 0 => ~Hit(k - 1))
    BY <1>4 DEF Searching
  <2> DEFINE p == IF cmps THEN {"si", "di"} ELSE {"di"}
             x == IF cmps THEN ReadMem(ElementWidth, regs["si"]) ELSE GetReg(Lo)
             y == ReadMem(ElementWidth, regs["di"] + 2 * Paragraph)
             g == FlagSub(flags, ElementWidth, x, y)
  <2>3. /\ Stays /\ mem' = mem
        /\ \/ regs["cx"] = 0 /\ ip' = ip + 1 /\ UNCHANGED <<regs, flags>>
           \/ /\ regs["cx"] # 0 /\ flags' = g /\ regs' = Advance(p)
              /\ ip' = IF Stops(g) THEN ip + 1 ELSE ip
    <3>1. CASE cmps
      BY <1>1, <1>2, <2>1, <3>1, CmpsCompares
    <3>2. CASE ~cmps
      BY <1>1, <1>2, <2>1, <3>2, ScasCompares
    <3> QED
      BY <3>1, <3>2
  <2>4. CASE regs["cx"] = 0
    <3>1. k = Count
      BY <1>1, <2>2, <2>4
    <3>2. ip' = 13 /\ UNCHANGED <<regs, mem, flags>>
      BY <1>4, <2>3, <2>4
    <3>3. Searching(ip', regs', flags', mem', k)
      BY <3>1, <3>2 DEF Searching
    <3> QED
      BY <1>2, <2>3, <3>2, <3>3
  <2>5. CASE regs["cx"] # 0
    <3>1. k \in 0 .. Count - 1
      BY <1>1, <2>2, <2>5
    <3>2. /\ a \in Nat /\ (k + 1) * ElementSize = a + ElementSize /\ ElementSize \in 1 .. 2
          /\ (a + ElementSize) % Word = a + ElementSize
          /\ ((Count - k) - 1) % Word = Count - (k + 1) /\ k + 1 \in 0 .. Count
      BY <1>1, <3>1, Pointers
    <3>3. Delta = ElementSize
      BY <2>1, <2>2, Widths DEF Delta, ElementWidth, ElementSize
    <3>4. /\ regs' \in RegFile
          /\ \A r \in p : regs'[r] = (regs[r] + Delta) % Word
          /\ \A r \in {"si", "di"} \ p : regs'[r] = regs[r]
          /\ regs'["cx"] = (regs["cx"] - 1) % Word /\ regs'["ax"] = regs["ax"]
      <4>1. p \subseteq {"si", "di"} /\ flags.df \in 0 .. 1
        BY <2>2
      <4>2. regs' = Advance(p) /\ I.rep # 0
        BY <2>1, <2>3, <2>5
      <4> HIDE DEF p
      <4> QED
        BY <1>2, <4>1, <4>2, Advances
    <3>5. /\ regs'["cx"] = Count - (k + 1) /\ regs'["ax"] = ini.regs["ax"]
          /\ regs'["di"] = (k + 1) * ElementSize
          /\ regs'["si"] = IF cmps THEN (k + 1) * ElementSize ELSE ini.regs["si"]
      BY <2>2, <3>2, <3>3, <3>4
    <3>6. flags' = g /\ ip' = (IF Stops(g) THEN 13 ELSE 12) /\ mem' = ini.mem
      BY <1>4, <2>2, <2>3, <2>5
    <3>7. /\ x \in Operand(ElementWidth) /\ y \in Operand(ElementWidth) /\ ElementWidth \in Nat \ {0}
          /\ Hit(k) <=> IF cmps THEN x # y ELSE x = y
      <4>1. /\ ReadMem(ElementWidth, a) = Element("ds", ElementWidth, k)
            /\ ReadMem(ElementWidth, a) \in Operand(ElementWidth)
            /\ y = Element("es", ElementWidth, k) /\ y \in Operand(ElementWidth)
            /\ ElementWidth \in Nat \ {0}
        BY <1>1, <2>2, <3>1, ElementRead
      <4>2. CASE cmps
        BY <2>2, <4>1, <4>2 DEF Hit
      <4>3. CASE ~cmps
        <5>1. job \in {"scasb", "scasw"}
          BY <4>3 DEF Scans
        <5>2. regs["ax"] \in 0 .. Word - 1
          BY <1>2 DEF RegFile, Reg
        <5>3. CASE job = "scasb"
          <6>1. Lo = "al" /\ ElementWidth = ByteSign
            BY <2>1, <5>3 DEF Lo, ElementWidth, OfWords
          <6>2. regs["ax"] \div 1 = regs["ax"]
            BY <5>2, Widths
          <6>3. GetReg("al") = Al0
            BY <2>2, <6>2 DEF GetReg, Reg, Half, Al0
          <6>4. Al0 \in Operand(ByteSign)
            BY NewBytes, Widths DEF Operand
          <6> QED
            BY <4>1, <4>3, <5>3, <6>1, <6>3, <6>4 DEF Hit
        <5>4. CASE job = "scasw"
          <6>1. Lo = "ax" /\ ElementWidth = WordSign
            BY <2>1, <5>4, Widths DEF Lo, ElementWidth, OfWords
          <6>2. GetReg("ax") = ini.regs["ax"] /\ ini.regs["ax"] \in Operand(WordSign)
            BY <2>2, <5>2, Widths DEF GetReg, Reg, Operand
          <6> QED
            BY <4>1, <4>3, <5>4, <6>1, <6>2 DEF Hit
        <5> QED
          BY <5>1, <5>3, <5>4
      <4> QED
        BY <4>2, <4>3
    <3>8. g \in Flags /\ g.df = flags.df /\ g.zf = Flag(x = y)
      <4> HIDE DEF x, y
      <4> QED
        BY <1>2, <3>7, FlagSubTyped
    <3> HIDE DEF g, x, y, a, p
    <3>9. g.zf = (IF Hit(k) THEN HitZf ELSE 1 - HitZf) /\ (Stops(g) <=> Hit(k))
      <4>1. HitZf = IF cmps THEN 0 ELSE 1
        BY DEF HitZf, Scans
      <4>2. CASE cmps
        BY <2>1, <3>7, <3>8, <4>1, <4>2 DEF Stops, Flag
      <4>3. CASE ~cmps
        BY <2>1, <3>7, <3>8, <4>1, <4>3 DEF Stops, Flag
      <4> QED
        BY <4>2, <4>3
    <3>10. Looked(g, k + 1)
      <4>1. \A i \in 0 .. (k + 1) - 2 : ~Hit(i)
        BY <2>2 DEF Looked
      <4>2. (k + 1) - 1 = k
        OBVIOUS
      <4> QED
        BY <3>9, <4>1, <4>2 DEF Looked
    <3>11. Searching(ip', regs', flags', mem', k + 1)
      <4>1. (k + 1) - 1 = k /\ k + 1 > 0
        OBVIOUS
      <4> QED
        BY <2>2, <3>5, <3>6, <3>8, <3>9, <3>10, <4>1 DEF Searching
    <3>12. ip' \in Int /\ flags' \in Flags
      BY <3>6, <3>8
    <3> QED
      BY <2>3, <3>2, <3>4, <3>11, <3>12
  <2> QED
    BY <2>4, <2>5
<1> QED
  BY <1>3, <1>4 DEF Searching

LEMMA SearchingByLoopStep ==
  ASSUME \E loads \in Loads : ini \in loads, CpuTypeOK, segs = Segments, Next, ~Irq,
         job \in Loops, NEW k \in 0 .. Count, SearchingByLoop(ip, regs, flags, mem, k)
  PROVE  /\ Stays /\ ip' \in Int /\ regs' \in RegFile /\ flags' \in Flags
         /\ \E n \in 0 .. Count : SearchingByLoop(ip', regs', flags', mem', n)
<1> DEFINE kind == IF job = "scanne" THEN "loopnz" ELSE "loopz"
<1>1. /\ job \in StringJobs /\ WellLoaded(ini) /\ Paragraph \in Nat \ {0} /\ Count \in 0 .. Word - 1
      /\ MarkAt = 4 * Paragraph /\ MarkAt < Word /\ Word \in Nat \ {0}
      /\ Count <= 2 * Paragraph /\ ElementSize = 1 /\ ElementWidth = ByteSign
  <2>1. job \in StringJobs /\ job \notin OfWords
    BY DEF Loops, StringJobs, OfWords
  <2>2. ElementSize = 1 /\ ElementWidth = ByteSign
    BY <2>1 DEF ElementSize, ElementWidth
  <2>3. /\ WellLoaded(ini) /\ Paragraph \in Nat \ {0} /\ Count \in 0 .. Word - 1
        /\ MarkAt = 4 * Paragraph /\ MarkAt < Word
    BY Loaded
  <2>4. Count * ElementSize <= 2 * Paragraph
    BY <2>1, StringBounds
  <2>5. Word \in Nat \ {0}
    BY Widths
  <2>6. Count <= 2 * Paragraph
    BY <2>2, <2>3, <2>4, <2>5
  <2> QED
    BY <2>1, <2>2, <2>3, <2>5, <2>6
<1>2. /\ I = code[ip] /\ ip \in Int /\ regs \in RegFile /\ flags \in Flags
      /\ code[12] = To("jcxz", 3)
      /\ code[13] = ToEs(I2("cmp", b8, R("al"), Mem("no", "di", 0)))
      /\ code[14] = I2("lea", b16, R("di"), Mem("no", "di", 1))
      /\ code[15] = To(kind, -3) /\ code[16] = Halt
  <2>1. /\ code[12] = To("jcxz", 3)
        /\ code[13] = ToEs(I2("cmp", b8, R("al"), Mem("no", "di", 0)))
        /\ code[14] = I2("lea", b16, R("di"), Mem("no", "di", 1))
        /\ code[15] = To(kind, -3) /\ code[16] = Halt
    <3>1. Routines[job] = Scan(kind)
      BY StringRoutines DEF Loops
    <3>2. Routines[job] = << To("jcxz", 3), ToEs(I2("cmp", b8, R("al"), Mem("no", "di", 0))),
                             I2("lea", b16, R("di"), Mem("no", "di", 1)), To(kind, -3), Halt >>
      BY <3>1 DEF Scan
    <3> HIDE DEF kind
    <3> QED
      BY <1>1, <3>2, FiveInFront
  <2> QED
    BY <1>1, <2>1, InFront DEF CpuTypeOK
<1>3. /\ regs["cx"] = Count - k + Flag(ip \in {14, 15}) /\ regs["di"] = k - Flag(ip = 14)
      /\ regs["si"] = ini.regs["si"] /\ regs["ax"] = ini.regs["ax"] /\ mem = ini.mem
      /\ Looked(flags, k)
  BY DEF SearchingByLoop
<1>4. \A r \in Reg : regs[r] \in 0 .. Word - 1
  BY <1>2 DEF RegFile
<1>5. \A x \in 0 .. Word - 1 : x % Word = x
  BY <1>1
<1>6. CASE ip = 16
  <2>1. Stays /\ UNCHANGED <<ip, regs, flags, mem>>
    BY <1>2, <1>6, HaltStays
  <2> QED
    BY <1>2, <2>1 DEF SearchingByLoop
<1>7. CASE ip = 12
  <2>1. I.op = "jcxz" /\ I.disp = 3
    BY <1>2, <1>7 DEF To, I0, I1, I2
  <2>2. /\ Stays /\ UNCHANGED <<regs, flags, mem>>
        /\ ip' = IF regs["cx"] = 0 THEN 16 ELSE 13
    BY <1>2, <1>7, <2>1, JcxzJumps
  <2>3. k = 0 /\ regs["cx"] = Count /\ (Count # 0 => k < Count) /\ regs["di"] = k
    BY <1>1, <1>3, <1>7 DEF SearchingByLoop, Flag
  <2>4. SearchingByLoop(ip', regs', flags', mem', k)
    <3>1. Flag(ip' = 14) = 0 /\ Flag(ip' \in {14, 15}) = 0 /\ Count - k + 0 = Count /\ k - 0 = k
      BY <1>1, <2>2, <2>3 DEF Flag
    <3> QED
      BY <1>3, <1>7, <2>2, <2>3, <3>1 DEF SearchingByLoop
  <2>5. ip' \in Int /\ flags' \in Flags
    BY <1>2, <2>2
  <2> QED
    BY <1>2, <2>2, <2>4, <2>5
<1>8. CASE ip = 13
  <2>1. I = ToEs(I2("cmp", b8, R("al"), Mem("no", "di", 0)))
    BY <1>2, <1>8
  <2>2. k \in 0 .. Count - 1 /\ regs["cx"] = Count - k /\ regs["di"] = k /\ (k > 0 => ~Hit(k - 1))
        /\ k + 1 \in 0 .. Count /\ k \in Nat
    BY <1>1, <1>3, <1>8 DEF SearchingByLoop, Flag
  <2> DEFINE x == GetReg("al")
             y == Cell(regs["di"] + 2 * Paragraph)
             g == FlagSub(flags, ByteSign, x, y)
  <2>3. Stays /\ UNCHANGED <<regs, mem>> /\ ip' = 14 /\ flags' = g
    BY <1>1, <1>2, <1>8, <2>1, CmpCompares
  <2>4. x = Al0 /\ x \in Operand(ByteSign)
    <3>1. regs["ax"] \div 1 = regs["ax"]
      BY <1>4, Widths DEF Reg
    <3>2. GetReg("al") = Al0
      BY <1>3, <3>1 DEF GetReg, Reg, Half, Al0
    <3> QED
      BY <3>2, NewBytes, Widths DEF Operand
  <2>5. y = Element("es", ByteSign, k) /\ y \in Operand(ByteSign)
    <3>1. k * 1 + 2 * Paragraph = regs["di"] + 2 * Paragraph
      BY <1>1, <2>2
    <3>2. y = ReadMem(ByteSign, k * 1 + 2 * Paragraph)
      BY <3>1 DEF ReadMem
    <3> QED
      BY <1>1, <1>3, <2>2, <3>2, ElementRead
  <2> HIDE DEF x, y
  <2>6. g \in Flags /\ g.zf = Flag(x = y)
    BY <1>2, <2>4, <2>5, Widths, FlagSubTyped
  <2> HIDE DEF g
  <2>7. g.zf = IF Hit(k) THEN HitZf ELSE 1 - HitZf
    <3>1. CASE job = "scanne"
      BY <1>1, <2>4, <2>5, <2>6, <3>1 DEF Hit, HitZf, Flag
    <3>2. CASE job = "scane"
      BY <1>1, <2>4, <2>5, <2>6, <3>2 DEF Hit, HitZf, Flag
    <3> QED
      BY <3>1, <3>2 DEF Loops
  <2>8. Looked(g, k + 1)
    <3>1. \A i \in 0 .. (k + 1) - 2 : ~Hit(i)
      BY <1>3, <2>2 DEF Looked
    <3>2. (k + 1) - 1 = k
      OBVIOUS
    <3> QED
      BY <2>7, <3>1, <3>2 DEF Looked
  <2>9. SearchingByLoop(ip', regs', flags', mem', k + 1)
    <3>1. /\ Flag(ip' = 14) = 1 /\ Flag(ip' \in {14, 15}) = 1
          /\ Count - (k + 1) + 1 = Count - k /\ (k + 1) - 1 = k /\ k + 1 > 0
      BY <1>1, <2>2, <2>3 DEF Flag
    <3> QED
      BY <1>3, <2>2, <2>3, <2>8, <3>1 DEF SearchingByLoop
  <2>10. ip' \in Int /\ flags' \in Flags /\ regs' \in RegFile
    BY <1>2, <2>3, <2>6
  <2> QED
    BY <2>2, <2>3, <2>9, <2>10
<1>9. CASE ip = 14
  <2>1. I = I2("lea", b16, R("di"), Mem("no", "di", 1))
    BY <1>2, <1>9
  <2>2. /\ Stays /\ UNCHANGED <<flags, mem>> /\ ip' = 15
        /\ regs' = [regs EXCEPT !["di"] = (regs["di"] + 1) % Word]
    BY <1>2, <1>9, <2>1, LeaSteps
  <2>3. k > 0 /\ regs["cx"] = Count - k + 1 /\ regs["di"] = k - 1 /\ (regs["di"] + 1) % Word = k
        /\ k \in 0 .. Word - 1
    BY <1>1, <1>3, <1>5, <1>9 DEF SearchingByLoop, Flag
  <2>4. /\ regs' \in RegFile /\ regs'["di"] = k /\ regs'["cx"] = Count - k + 1
        /\ regs'["si"] = ini.regs["si"] /\ regs'["ax"] = ini.regs["ax"]
    BY <1>2, <1>3, <2>2, <2>3 DEF RegFile, Reg
  <2>5. SearchingByLoop(ip', regs', flags', mem', k)
    <3>1. Flag(ip' = 14) = 0 /\ Flag(ip' \in {14, 15}) = 1 /\ k - 0 = k
      BY <2>2 DEF Flag
    <3> QED
      BY <1>3, <2>2, <2>3, <2>4, <3>1 DEF SearchingByLoop
  <2>6. ip' \in Int /\ flags' \in Flags
    BY <1>2, <2>2
  <2> QED
    BY <2>2, <2>4, <2>5, <2>6
<1>10. CASE ip = 15
  <2>1. I.op = kind /\ I.disp = -3
    BY <1>2, <1>10 DEF To, I0, I1, I2
  <2>2. k > 0 /\ regs["cx"] = Count - k + 1 /\ regs["di"] = k /\ (regs["cx"] - 1) % Word = Count - k
    BY <1>1, <1>3, <1>5, <1>10 DEF SearchingByLoop, Flag
  <2> DEFINE again == Count - k # 0 /\ flags.zf = IF job = "scanne" THEN 0 ELSE 1
  <2>3. /\ Stays /\ UNCHANGED <<flags, mem>>
        /\ regs' = [regs EXCEPT !["cx"] = Count - k] /\ Count - k \in 0 .. Word - 1
        /\ ip' = IF again THEN 13 ELSE 16
    <3>1. I.op \in {"loop", "loopz", "loopnz"}
      BY <2>1
    <3>2. /\ Stays /\ UNCHANGED <<flags, mem>>
          /\ regs' = [regs EXCEPT !["cx"] = Count - k] /\ Count - k \in 0 .. Word - 1
          /\ ip' = IF /\ Count - k # 0
                      /\ I.op = "loopz" => flags.zf = 1
                      /\ I.op = "loopnz" => flags.zf = 0
                   THEN ip + 1 + I.disp ELSE ip + 1
      BY <1>2, <2>2, <3>1, LoopLoops
    <3>3. CASE job = "scanne"
      BY <1>10, <2>1, <3>2, <3>3
    <3>4. CASE job = "scane"
      BY <1>10, <2>1, <3>2, <3>4
    <3> QED
      BY <3>3, <3>4 DEF Loops
  <2>4. /\ regs' \in RegFile /\ regs'["cx"] = Count - k /\ regs'["di"] = k
        /\ regs'["si"] = ini.regs["si"] /\ regs'["ax"] = ini.regs["ax"]
    BY <1>2, <1>3, <2>2, <2>3 DEF RegFile, Reg
  <2>5. flags.zf = (IF Hit(k - 1) THEN HitZf ELSE 1 - HitZf)
    BY <1>3, <2>2 DEF Looked
  <2>6. again <=> Count - k # 0 /\ ~Hit(k - 1)
    <3>1. CASE job = "scanne"
      BY <2>5, <3>1 DEF HitZf
    <3>2. CASE job = "scane"
      BY <2>5, <3>2 DEF HitZf
    <3> QED
      BY <3>1, <3>2 DEF Loops
  <2> HIDE DEF again
  <2>7. SearchingByLoop(ip', regs', flags', mem', k)
    <3>1. Flag(ip' = 14) = 0 /\ Flag(ip' \in {14, 15}) = 0 /\ k - 0 = k /\ Count - k + 0 = Count - k
      BY <1>1, <2>3 DEF Flag
    <3>2. (Count - k # 0 => k < Count) /\ (Count - k = 0 => k = Count)
      BY <1>1
    <3>3. \/ ip' = 13 /\ k < Count /\ ~Hit(k - 1)
          \/ ip' = 16 /\ (k = Count \/ (k > 0 /\ Hit(k - 1)))
      BY <2>2, <2>3, <2>6, <3>2
    <3> QED
      BY <1>3, <2>3, <2>4, <3>1, <3>3 DEF SearchingByLoop
  <2>8. ip' \in Int /\ flags' \in Flags
    BY <1>2, <2>3
  <2> QED
    BY <2>3, <2>4, <2>7, <2>8
<1> QED
  BY <1>6, <1>7, <1>8, <1>9, <1>10 DEF SearchingByLoop

-----------------------------------------------------------------------------
(* The invariant *)

LEMMA IniStays == Next => ini' = ini
<1> USE DEF fixed, Result, OnlyFlags
<1>1. Irq \/ And \/ Or \/ Xor \/ Add \/ Adc \/ Sub \/ Sbb \/ Compare \/ Increment \/ Decrement
        \/ TestBits \/ Shift => ini' = ini
  BY DEF Irq, Intcall, And, Or, Xor, Add, Adc, Sub, Sbb, Compare, Increment, Decrement,
     TestBits, TestFlags, Shift
<1>2. Grp3 \/ Grp5 => ini' = ini
  BY DEF Grp3, TestEv, TestFlags, Negate, Multiply, Divide, DivideError, Intcall,
     Grp5, IncDecEv, CallEv, NearCall, CallMp, FarCall, JmpEv, JmpMp, GoTo, PushEv, PushValue
<1>3. Aaa \/ Aas \/ Daa \/ Das \/ Aam \/ AamError \/ Aad \/ Cbw \/ Cwd \/ SetFlag => ini' = ini
  BY DEF Aaa, Aas, Daa, Das, Aam, AamError, Aad, Cbw, Cwd, SetFlag, DecimalResult, SetReg, Intcall
<1>4. Mov \/ MovSeg \/ Lea \/ LoadPointer \/ Xlat \/ Xchg \/ In \/ Out \/ Nop \/ Wait \/ Esc
        => ini' = ini
  BY DEF Mov, MovSeg, Lea, LoadPointer, Xlat, Xchg, In, Out, Nop, Wait, Esc, SetSeg, SetReg
<1>5. Push \/ PushSeg \/ Pop \/ PopEv \/ PopSeg \/ Pushf \/ Popf => ini' = ini
  BY DEF Push, PushSeg, PushValue, Pop, PopEv, PopSeg, Pushf, Popf, SetSeg
<1>6. Jcc \/ Jmp \/ JmpFar \/ Loop \/ Jcxz => ini' = ini
  BY DEF Jcc, Jmp, JmpFar, Loop, Jcxz, GoTo
<1>7. Call \/ CallFar \/ Ret \/ RetN \/ Retf \/ RetfN \/ IntN \/ Int3 \/ Into \/ Iret => ini' = ini
  BY DEF Call, NearCall, CallFar, FarCall, Ret, RetN, Retf, RetfN, IntN, Int3, Into, Intcall, Iret
<1>8. StringSpent \/ Movs \/ Stos \/ Lods \/ Cmps \/ Scas => ini' = ini
  BY DEF StringSpent, Movs, Stos, Lods, Cmps, CompareStep, Scas
<1> QED
  BY <1>1, <1>2, <1>3, <1>4, <1>5, <1>6, <1>7, <1>8 DEF Next

LEMMA NothingFilled ==
  ASSUME \E loads \in Loads : ini \in loads, NEW n \in Nat
  PROVE  Filled(n, n) = ini.mem
<1>1. ini.mem \in [0 .. MarkAt -> 0 .. Byte - 1] /\ Paragraph \in Nat
  BY Loaded
<1>2. ASSUME NEW x \in 0 .. MarkAt  PROVE ~(n <= x - 2 * Paragraph /\ x - 2 * Paragraph < n)
  BY <1>1
<1>3. Filled(n, n) = [x \in 0 .. MarkAt |-> ini.mem[x]]
  BY <1>2 DEF Filled
<1> QED
  BY <1>1, <1>3

LEMMA StringsInit == Init => StringInv
<1> SUFFICES ASSUME Init  PROVE StringInv
  OBVIOUS
<1>1. /\ \E loads \in Loads : ini \in loads
      /\ regs = ini.regs /\ mem = ini.mem /\ ip = ini.ip /\ segs = ini.seg
      /\ stack = << >> /\ calls = << >>
  BY DEF Init
<1>2. flags \in Flags /\ flags.df = 0
  BY DEF Init, Flags
<1> SUFFICES ASSUME job \in StringJobs
             PROVE  /\ CpuTypeOK /\ Handling
                    /\ GuestSegs = Segments /\ GuestStack = << >> /\ GuestCalls = << >>
                    /\ StringState(GuestIp, GuestRegs, GuestFlags, mem)
  BY <1>1 DEF StringInv
<1>3. /\ WellLoaded(ini) /\ Count \in 0 .. Word - 1 /\ Word \in Nat \ {0}
      /\ ini.regs \in RegFile /\ ini.seg = Segments
  BY <1>1, Loaded, Widths
<1>4. ip = 12
  BY <1>1, <1>3 DEF WellLoaded, Entry, Handlers
<1>5. CpuTypeOK
  <2>1. segs \in Selectors
    BY <1>1, <1>3 DEF Segments, Selectors
  <2> QED
    BY <1>1, <1>2, <1>3, <1>4, <2>1 DEF CpuTypeOK
<1>6. ~Interrupted /\ Handling
  BY <1>1 DEF Interrupted, Handling
<1>7. /\ ini.regs["si"] = (IF job = "movsd" THEN (Count - 1) % Word ELSE 0)
      /\ ini.regs["di"] = (IF job = "movsd" THEN (Count - 1) % Word ELSE 0)
      /\ ElementSize \in 1 .. 2
  BY <1>1, StringBounds
<1>8. Filled(0, 0) = ini.mem /\ Filled(Count, Count) = ini.mem
  BY <1>1, <1>3, NothingFilled
<1>9. /\ 0 \in 0 .. Count /\ Count - 0 = Count /\ 0 * ElementSize = 0 /\ Count - 0 + 0 = Count
      /\ 0 + 0 = 0 /\ 0 - 0 = 0 /\ (Count - 1) - 0 = Count - 1
  BY <1>3, <1>7
<1>10. regs.cx = Count
  BY <1>1 DEF Count
<1>11. Looked(flags, 0)
  BY DEF Looked
<1>12. /\ Flag(ip \in {13, 14}) = 0 /\ Flag(ip = 15) = 0 /\ Flag(ip = 14) = 0
       /\ Flag(ip \in {14, 15}) = 0
  BY <1>4 DEF Flag
<1>13. StringState(ip, regs, flags, mem)
  <2>1. job \in Moves => Moving(ip, regs, flags, mem, 0)
    BY <1>1, <1>2, <1>4, <1>7, <1>8, <1>9, <1>10 DEF Moving, Moves
  <2>2. job = "movsd" => MovingDown(ip, regs, flags, mem, 0)
    BY <1>1, <1>2, <1>4, <1>7, <1>8, <1>9, <1>10, <1>12 DEF MovingDown
  <2>3. job = "copy" => Copying(ip, regs, flags, mem, 0)
    BY <1>1, <1>2, <1>4, <1>7, <1>8, <1>9, <1>10, <1>12 DEF Copying
  <2>4. job \in Scans => Searching(ip, regs, flags, mem, 0)
    BY <1>1, <1>2, <1>4, <1>7, <1>9, <1>10, <1>11 DEF Searching, Scans
  <2>5. job \in Loops => SearchingByLoop(ip, regs, flags, mem, 0)
    BY <1>1, <1>2, <1>4, <1>7, <1>9, <1>10, <1>11, <1>12 DEF SearchingByLoop, Loops
  <2> QED
    BY <1>9, <2>1, <2>2, <2>3, <2>4, <2>5 DEF StringState
<1> QED
  BY <1>1, <1>3, <1>5, <1>6, <1>13
     DEF GuestIp, GuestSegs, GuestStack, GuestRegs, GuestFlags, GuestCalls

LEMMA StringsStep == StringInv /\ [Next]_vars => StringInv'
<1> SUFFICES ASSUME StringInv, [Next]_vars  PROVE StringInv'
  OBVIOUS
<1>1. \E loads \in Loads : ini \in loads
  BY DEF StringInv
<1>2. ini' = ini
  BY IniStays DEF vars
<1>3. (\E loads \in Loads : ini \in loads)'
  BY <1>1, <1>2
<1>4. CASE job \notin StringJobs
  BY <1>2, <1>3, <1>4 DEF StringInv, job
<1>5. CASE job \in StringJobs
  <2>1. /\ CpuTypeOK /\ Handling
        /\ GuestSegs = Segments /\ GuestStack = << >> /\ GuestCalls = << >>
        /\ StringState(GuestIp, GuestRegs, GuestFlags, mem)
    BY <1>5 DEF StringInv
  <2>2. HandlerAt
    BY <1>1, <1>5, Loaded, HandlerInFront DEF HandlerAt
  <2>3. SUFFICES /\ CpuTypeOK' /\ Handling'
                 /\ (GuestSegs = Segments)' /\ (GuestStack = << >>)' /\ (GuestCalls = << >>)'
                 /\ StringState(GuestIp, GuestRegs, GuestFlags, mem)'
    BY <1>3 DEF StringInv
  <2>4. ASSUME CpuTypeOK', Handling', UNCHANGED guest
        PROVE  /\ (GuestSegs = Segments)' /\ (GuestStack = << >>)' /\ (GuestCalls = << >>)'
               /\ StringState(GuestIp, GuestRegs, GuestFlags, mem)'
    <3>1. GuestSegs' = GuestSegs /\ GuestStack' = GuestStack /\ GuestCalls' = GuestCalls
      BY <2>4 DEF guest
    <3>2. Segments' = Segments
      BY DEF Segments
    <3>3. StringState(GuestIp, GuestRegs, GuestFlags, mem)'
      BY <2>1, <2>4, SameGuest
    <3> QED
      BY <2>1, <3>1, <3>2, <3>3
  <2>5. CASE CpuTypeOK' /\ Handling' /\ UNCHANGED guest
    BY <2>4, <2>5
  <2>6. CASE Next /\ ~Irq /\ ~Interrupted
    <3>1. segs = Segments /\ stack = << >> /\ StringState(ip, regs, flags, mem)
      BY <2>1, <2>6 DEF GuestSegs, GuestStack, GuestIp, GuestRegs, GuestFlags
    <3>2. /\ Stays /\ ip' \in Int /\ regs' \in RegFile /\ flags' \in Flags
          /\ StringState(ip', regs', flags', mem')
      <4>1. PICK k \in 0 .. Count :
              /\ job \in Moves => Moving(ip, regs, flags, mem, k)
              /\ job = "movsd" => MovingDown(ip, regs, flags, mem, k)
              /\ job = "copy" => Copying(ip, regs, flags, mem, k)
              /\ job \in Scans => Searching(ip, regs, flags, mem, k)
              /\ job \in Loops => SearchingByLoop(ip, regs, flags, mem, k)
        BY <3>1 DEF StringState
      <4>2. CASE job \in Moves
        <5>1. /\ Stays /\ ip' \in Int /\ regs' \in RegFile /\ flags' \in Flags
              /\ \E n \in 0 .. Count : Moving(ip', regs', flags', mem', n)
          BY <1>1, <2>1, <2>6, <3>1, <4>1, <4>2, MovingStep
        <5> QED
          BY <4>2, <5>1 DEF StringState, Moves, Scans, Loops
      <4>3. CASE job = "movsd"
        <5>1. /\ Stays /\ ip' \in Int /\ regs' \in RegFile /\ flags' \in Flags
              /\ \E n \in 0 .. Count : MovingDown(ip', regs', flags', mem', n)
          BY <1>1, <2>1, <2>6, <3>1, <4>1, <4>3, MovingDownStep
        <5> QED
          BY <4>3, <5>1 DEF StringState, Moves, Scans, Loops
      <4>4. CASE job = "copy"
        <5>1. /\ Stays /\ ip' \in Int /\ regs' \in RegFile /\ flags' \in Flags
              /\ \E n \in 0 .. Count : Copying(ip', regs', flags', mem', n)
          BY <1>1, <2>1, <2>6, <3>1, <4>1, <4>4, CopyingStep
        <5> QED
          BY <4>4, <5>1 DEF StringState, Moves, Scans, Loops
      <4>5. CASE job \in Scans
        <5>1. /\ Stays /\ ip' \in Int /\ regs' \in RegFile /\ flags' \in Flags
              /\ \E n \in 0 .. Count : Searching(ip', regs', flags', mem', n)
          BY <1>1, <2>1, <2>6, <3>1, <4>1, <4>5, SearchingStep
        <5> QED
          BY <4>5, <5>1 DEF StringState, Moves, Scans, Loops
      <4>6. CASE job \in Loops
        <5>1. /\ Stays /\ ip' \in Int /\ regs' \in RegFile /\ flags' \in Flags
              /\ \E n \in 0 .. Count : SearchingByLoop(ip', regs', flags', mem', n)
          BY <1>1, <2>1, <2>6, <3>1, <4>1, <4>6, SearchingByLoopStep
        <5> QED
          BY <4>6, <5>1 DEF StringState, Moves, Scans, Loops
      <4> QED
        BY <1>5, <4>2, <4>3, <4>4, <4>5, <4>6 DEF StringJobs, Moves, Scans, Loops
    <3> QED
      BY <2>1, <2>6, <3>1, <3>2, NextGuest DEF Stays
  <2> QED
    BY <2>1, <2>2, <2>5, <2>6, GuestMoves
<1> QED
  BY <1>4, <1>5

-----------------------------------------------------------------------------
(* The routine has come to its end *)

LEMMA FirstHit ==
  ASSUME NEW n \in Nat, NEW stop \in SUBSET (0 .. n - 1), NEW k \in 0 .. n,
         \A i \in 0 .. k - 2 : i \notin stop,
         k = n \/ (k > 0 /\ k - 1 \in stop)
  PROVE  /\ k = (IF stop = {} THEN n ELSE Min(stop) + 1)
         /\ k > 0 => (k - 1 \in stop <=> stop # {})
<1>1. CASE stop = {}
  BY <1>1
<1>2. CASE stop # {}
  <2>1. k > 0 /\ k - 1 \in stop
    <3>1. PICK i \in stop : TRUE
      BY <1>2
    <3>2. i \in 0 .. n - 1 /\ i \notin 0 .. k - 2
      OBVIOUS
    <3> QED
      BY <3>1, <3>2
  <2>2. \A y \in stop : k - 1 <= y
    <3>1. TAKE y \in stop
    <3>2. y \in 0 .. n - 1 /\ y \notin 0 .. k - 2
      OBVIOUS
    <3> QED
      BY <3>2
  <2>3. Min(stop) \in stop /\ \A y \in stop : Min(stop) <= y
    BY <2>1, <2>2 DEF Min
  <2>4. Min(stop) = k - 1
    <3>1. Min(stop) <= k - 1 /\ k - 1 <= Min(stop)
      BY <2>1, <2>2, <2>3
    <3>2. Min(stop) \in 0 .. n - 1
      BY <2>3, Zenon
    <3> QED
      BY <3>1, <3>2
  <2> QED
    BY <1>2, <2>1, <2>4
<1> QED
  BY <1>1, <1>2

\* A guest at its end is not interrupted.
LEMMA EndAlone ==
  ASSUME CpuTypeOK, Handling, stack = << >>
  PROVE  ~Interrupted
<1>1. SUFFICES ASSUME Interrupted  PROVE FALSE
  OBVIOUS
<1> DEFINE c == calls[1]
           w == <<c.ip, c.segs.cs, MakeFlagsWord(c.flags)>> \o c.stack
<1>2. c \in Frame
  BY <1>1 DEF Interrupted, CpuTypeOK
<1>3. w \in Seq(Int) /\ Len(w) = Len(c.stack) + 3 /\ Len(c.stack) \in Nat
  <2>1. c.ip \in Int /\ c.segs.cs \in Int /\ MakeFlagsWord(c.flags) \in Int /\ c.stack \in Seq(Int)
    BY <1>2, FlagsWordTyped DEF Frame, Selectors
  <2> QED
    BY <2>1, ThreeOnTop
<1>4. stack = w \/ stack = <<c.regs["ax"]>> \o w
  BY <1>1 DEF Handling, Interruption
<1>5. c.regs["ax"] \in Int
  BY <1>2, Widths DEF Frame, RegFile, Reg
<1> HIDE DEF c, w
<1>6. w # << >>
  BY <1>3
<1>7. <<c.regs["ax"]>> \o w # << >>
  BY <1>3, <1>5, OneOnTop
<1> QED
  BY <1>4, <1>6, <1>7

\* It stands at HLT.
LEMMA AtEnd ==
  ASSUME StringInv, Done, job \in StringJobs
  PROVE  /\ \E loads \in Loads : ini \in loads
         /\ ~Interrupted /\ code[ip] = Halt /\ StringState(ip, regs, flags, mem)
<1>1. /\ \E loads \in Loads : ini \in loads
      /\ CpuTypeOK /\ Handling /\ GuestSegs = Segments
      /\ StringState(GuestIp, GuestRegs, GuestFlags, mem)
  BY DEF StringInv
<1>2. ~Interrupted
  BY <1>1, EndAlone DEF Done
<1>3. segs = Segments /\ StringState(ip, regs, flags, mem)
  BY <1>1, <1>2 DEF GuestSegs, GuestIp, GuestRegs, GuestFlags
<1>4. I = code[ip]
  BY <1>1, <1>3, Loaded, InFront DEF CpuTypeOK
<1> QED
  BY <1>1, <1>2, <1>3, <1>4 DEF Done

LEMMA FilledIsWritten ==
  ASSUME \E loads \in Loads : ini \in loads, NEW hi \in Nat, mem = Filled(0, hi)
  PROVE  /\ \A x \in DOMAIN mem :
              LET i == x - ini.seg.es * Paragraph
              IN  mem[x] = IF i \in 0 .. hi - 1 THEN NewByte(i) ELSE ini.mem[x]
         /\ \A i \in 0 .. hi - 1 : Element("ds", ByteSign, i) = ini.mem[i]
<1>1. Paragraph \in Nat /\ MarkAt = 4 * Paragraph /\ ini.seg.es = 2 /\ ini.seg["ds"] = 0
  BY Loaded DEF Segments
<1>2. DOMAIN mem = 0 .. MarkAt
  BY DEF Filled
<1>3. ASSUME NEW x \in 0 .. MarkAt
      PROVE  mem[x] = IF x - ini.seg.es * Paragraph \in 0 .. hi - 1
                      THEN NewByte(x - ini.seg.es * Paragraph) ELSE ini.mem[x]
  <2>1. x - ini.seg.es * Paragraph = x - 2 * Paragraph /\ x - 2 * Paragraph \in Int
    BY <1>1
  <2>2. (0 <= x - 2 * Paragraph /\ x - 2 * Paragraph < hi) <=> x - 2 * Paragraph \in 0 .. hi - 1
    BY <2>1
  <2> QED
    BY <2>1, <2>2 DEF Filled
<1>4. ASSUME NEW i \in 0 .. hi - 1  PROVE Element("ds", ByteSign, i) = ini.mem[i]
  <2>1. 0 * Paragraph + i = i
    BY <1>1
  <2> QED
    BY <1>1, <2>1 DEF Element
<1> QED
  BY <1>2, <1>3, <1>4

LEMMA MovesDone ==
  ASSUME StringInv, Done, job \in Moves
  PROVE  /\ regs.cx = 0
         /\ job = "movsb" => Written(Count, LAMBDA i : Element("ds", ByteSign, i))
                             /\ regs.si = Count /\ regs.di = Count
         /\ job = "movsw" => Written(2 * Count, LAMBDA i : Element("ds", ByteSign, i))
         /\ job = "stosb" => Written(Count, LAMBDA i : Al0)
         /\ job = "stosw" => Written(2 * Count, LAMBDA i : IF i % 2 = 0 THEN Al0 ELSE Ah0)
<1>1. job \in StringJobs /\ "movsd" \notin Moves /\ "copy" \notin Moves
      /\ job \notin Scans /\ job \notin Loops
  BY DEF StringJobs, Moves, Scans, Loops
<1>2. /\ \E loads \in Loads : ini \in loads
      /\ code[ip] = Halt /\ StringState(ip, regs, flags, mem)
  BY <1>1, AtEnd
<1>3. WellLoaded(ini) /\ Count \in Nat /\ ElementSize \in 1 .. 2
  BY <1>1, <1>2, Loaded, StringBounds
<1>4. PICK k \in 0 .. Count : Moving(ip, regs, flags, mem, k)
  BY <1>2 DEF StringState
<1>5. code[12] # Halt
  <2>1. \E op \in {"movs", "stos"}, w \in {b8, b16} : code[12] = Str(op, w, 1)
    BY <1>3, TwoInFront, StringRoutines DEF Moves
  <2>2. code[12].op # "jmp" /\ Halt.op = "jmp"
    BY <2>1 DEF Str, Halt, To, I0, I1, I2
  <2> QED
    BY <2>2
<1>6. k = Count /\ Count - Count = 0
  BY <1>2, <1>3, <1>4, <1>5 DEF Moving
<1> DEFINE hi == Count * ElementSize
<1>7. hi \in Nat /\ hi = IF job \in OfWords THEN 2 * Count ELSE Count
  BY <1>3 DEF ElementSize
<1>8. /\ regs.cx = 0 /\ regs.di = hi /\ (job \in {"movsb", "movsw"} => regs.si = hi)
      /\ mem = Filled(0, hi)
  BY <1>4, <1>6 DEF Moving
<1> HIDE DEF hi
<1>9. /\ \A x \in DOMAIN mem :
           LET i == x - ini.seg.es * Paragraph
           IN  mem[x] = IF i \in 0 .. hi - 1 THEN NewByte(i) ELSE ini.mem[x]
      /\ \A i \in 0 .. hi - 1 : Element("ds", ByteSign, i) = ini.mem[i]
  BY <1>2, <1>7, <1>8, FilledIsWritten
<1>10. job = "movsb" => /\ Written(Count, LAMBDA i : Element("ds", ByteSign, i))
                        /\ regs.si = Count /\ regs.di = Count
  BY <1>7, <1>8, <1>9 DEF Written, NewByte, OfWords
<1>11. job = "movsw" => Written(2 * Count, LAMBDA i : Element("ds", ByteSign, i))
  BY <1>7, <1>9 DEF Written, NewByte, OfWords
<1>12. job = "stosb" => Written(Count, LAMBDA i : Al0)
  BY <1>7, <1>9 DEF Written, NewByte, OfWords
<1>13. job = "stosw" => Written(2 * Count, LAMBDA i : IF i % 2 = 0 THEN Al0 ELSE Ah0)
  BY <1>7, <1>9 DEF Written, NewByte, OfWords
<1> QED
  BY <1>8, <1>10, <1>11, <1>12, <1>13

LEMMA MovingDownDone ==
  ASSUME StringInv, Done, job = "movsd"
  PROVE  /\ regs.cx = 0 /\ Written(Count, LAMBDA i : Element("ds", ByteSign, i))
         /\ regs.si = Word - 1 /\ regs.di = Word - 1 /\ flags.df = 0
<1>1. job \in StringJobs
  BY DEF StringJobs
<1>2. /\ \E loads \in Loads : ini \in loads
      /\ code[ip] = Halt /\ StringState(ip, regs, flags, mem)
  BY <1>1, AtEnd
<1>3. WellLoaded(ini) /\ Count \in Nat /\ Word \in Nat \ {0}
  BY <1>2, Loaded, Widths
<1>4. PICK k \in 0 .. Count : MovingDown(ip, regs, flags, mem, k)
  BY <1>2 DEF StringState
<1>5. code[12] # Halt /\ code[13] # Halt /\ code[14] # Halt
  <2>1. code[12] = I0("std") /\ code[13] = Str("movs", b8, 1) /\ code[14] = I0("cld")
    BY <1>3, FourInFront, StringRoutines
  <2>2. code[12].op # "jmp" /\ code[13].op # "jmp" /\ code[14].op # "jmp" /\ Halt.op = "jmp"
    BY <2>1 DEF Str, Halt, To, I0, I1, I2
  <2> QED
    BY <2>2
<1>6. ip = 15 /\ k = Count
  BY <1>2, <1>4, <1>5 DEF MovingDown
<1>7. Count - Count = 0 /\ ((Count - 1) - Count) % Word = Word - 1
  <2>1. (Count - 1) - Count = -1 /\ (-1) % Word = Word - 1
    BY <1>3
  <2> QED
    BY <1>3, <2>1
<1>8. /\ regs.cx = 0 /\ regs.si = Word - 1 /\ regs.di = Word - 1
      /\ flags.df = 0 /\ mem = Filled(0, Count)
  BY <1>4, <1>6, <1>7 DEF MovingDown, Flag
<1>9. /\ \A x \in DOMAIN mem :
           LET i == x - ini.seg.es * Paragraph
           IN  mem[x] = IF i \in 0 .. Count - 1 THEN NewByte(i) ELSE ini.mem[x]
      /\ \A i \in 0 .. Count - 1 : Element("ds", ByteSign, i) = ini.mem[i]
  BY <1>2, <1>3, <1>8, FilledIsWritten
<1>10. Written(Count, LAMBDA i : Element("ds", ByteSign, i))
  BY <1>9 DEF Written, NewByte
<1> QED
  BY <1>8, <1>10

LEMMA CopyingDone ==
  ASSUME StringInv, Done, job = "copy"
  PROVE  /\ regs.cx = 0 /\ Written(Count, LAMBDA i : Element("ds", ByteSign, i))
         /\ regs.si = Count /\ regs.di = Count
<1>1. job \in StringJobs
  BY DEF StringJobs
<1>2. /\ \E loads \in Loads : ini \in loads
      /\ code[ip] = Halt /\ StringState(ip, regs, flags, mem)
  BY <1>1, AtEnd
<1>3. WellLoaded(ini) /\ Count \in Nat
  BY <1>2, Loaded
<1>4. PICK k \in 0 .. Count : Copying(ip, regs, flags, mem, k)
  BY <1>2 DEF StringState
<1>5. code[12] # Halt /\ code[13] # Halt /\ code[14] # Halt /\ code[15] # Halt
  <2>1. /\ code[12] = To("jcxz", 3) /\ code[13] = Str("lods", b8, 0) /\ code[14] = Str("stos", b8, 0)
        /\ code[15] = To("loop", -3)
    BY <1>3, FiveInFront, StringRoutines
  <2>2. /\ code[12].op # "jmp" /\ code[13].op # "jmp" /\ code[14].op # "jmp" /\ code[15].op # "jmp"
        /\ Halt.op = "jmp"
    BY <2>1 DEF Str, Halt, To, I0, I1, I2
  <2> QED
    BY <2>2
<1>6. ip = 16 /\ k = Count
  BY <1>2, <1>4, <1>5 DEF Copying
<1>7. Count - Count + 0 = 0 /\ Count + 0 = Count
  BY <1>3
<1>8. regs.cx = 0 /\ regs.si = Count /\ regs.di = Count /\ mem = Filled(0, Count)
  <2>1. Flag(ip = 15) = 0 /\ Flag(ip = 14) = 0
    BY <1>6 DEF Flag
  <2> QED
    BY <1>4, <1>6, <1>7, <2>1 DEF Copying
<1>9. /\ \A x \in DOMAIN mem :
           LET i == x - ini.seg.es * Paragraph
           IN  mem[x] = IF i \in 0 .. Count - 1 THEN NewByte(i) ELSE ini.mem[x]
      /\ \A i \in 0 .. Count - 1 : Element("ds", ByteSign, i) = ini.mem[i]
  BY <1>2, <1>3, <1>8, FilledIsWritten
<1>10. Written(Count, LAMBDA i : Element("ds", ByteSign, i))
  BY <1>9 DEF Written, NewByte
<1> QED
  BY <1>8, <1>10

\* Where a search is when it has come to its end.
LEMMA SearchDone ==
  ASSUME StringInv, Done, job \in Scans \cup Loops
  PROVE  LET stop == {i \in 0 .. Count - 1 : Hit(i)}
             k == IF stop = {} THEN Count ELSE Min(stop) + 1
         IN  /\ regs.cx = Count - k /\ regs.di = k * ElementSize
             /\ regs.si = IF job \in {"cmpsb", "cmpsw"} THEN k * ElementSize ELSE ini.regs.si
             /\ Count > 0 => flags.zf = IF stop = {} THEN 1 - HitZf ELSE HitZf
<1> DEFINE stop == {i \in 0 .. Count - 1 : Hit(i)}
<1>1. job \in StringJobs
  BY DEF StringJobs, Scans, Loops
<1>2. /\ \E loads \in Loads : ini \in loads
      /\ code[ip] = Halt /\ StringState(ip, regs, flags, mem)
  BY <1>1, AtEnd
<1>3. WellLoaded(ini) /\ Count \in Nat /\ Halt.op = "jmp"
  BY <1>2, Loaded DEF Halt, To, I0, I1, I2
<1>4. PICK k \in 0 .. Count :
        /\ k = Count \/ (k > 0 /\ Hit(k - 1))
        /\ regs.cx = Count - k /\ regs.di = k * ElementSize
        /\ regs.si = IF job \in {"cmpsb", "cmpsw"} THEN k * ElementSize ELSE ini.regs.si
        /\ Looked(flags, k)
  <2>1. CASE job \in Scans
    <3>1. PICK k \in 0 .. Count : Searching(ip, regs, flags, mem, k)
      BY <1>2, <2>1 DEF StringState
    <3>2. code[12] # Halt
      <4>1. \E op \in {"cmps", "scas"}, w \in {b8, b16}, rep \in 1 .. 2 : code[12] = Str(op, w, rep)
        BY <1>3, <2>1, TwoInFront, StringRoutines DEF Scans
      <4>2. code[12].op # "jmp"
        BY <4>1 DEF Str, I1, I2
      <4> QED
        BY <1>3, <4>2
    <3> QED
      BY <1>2, <3>1, <3>2 DEF Searching
  <2>2. CASE job \in Loops
    <3>1. PICK k \in 0 .. Count : SearchingByLoop(ip, regs, flags, mem, k)
      BY <1>2, <2>2 DEF StringState
    <3>2. code[12] # Halt /\ code[13] # Halt /\ code[14] # Halt /\ code[15] # Halt
      <4>1. PICK kind \in {"loopz", "loopnz"} : Routines[job] = Scan(kind)
        BY <2>2, StringRoutines DEF Loops
      <4>2. Routines[job] = << To("jcxz", 3), ToEs(I2("cmp", b8, R("al"), Mem("no", "di", 0))),
                               I2("lea", b16, R("di"), Mem("no", "di", 1)), To(kind, -3), Halt >>
        BY <4>1 DEF Scan
      <4>3. /\ code[12] = To("jcxz", 3)
            /\ code[13] = ToEs(I2("cmp", b8, R("al"), Mem("no", "di", 0)))
            /\ code[14] = I2("lea", b16, R("di"), Mem("no", "di", 1))
            /\ code[15] = To(kind, -3)
        BY <1>3, <4>2, FiveInFront
      <4>4. /\ code[12].op # "jmp" /\ code[13].op # "jmp" /\ code[14].op # "jmp"
            /\ code[15].op # "jmp"
        BY <4>3 DEF To, ToEs, I0, I1, I2
      <4> QED
        BY <1>3, <4>4
    <3>3. ip = 16
      BY <1>2, <3>1, <3>2 DEF SearchingByLoop
    <3>4. Flag(ip \in {14, 15}) = 0 /\ Flag(ip = 14) = 0 /\ Count - k + 0 = Count - k
          /\ k - 0 = k /\ k * ElementSize = k /\ job \notin {"cmpsb", "cmpsw"}
      BY <1>3, <2>2, <3>3 DEF Flag, ElementSize, OfWords, Loops
    <3> QED
      BY <3>1, <3>3, <3>4 DEF SearchingByLoop
  <2> QED
    BY <2>1, <2>2
<1>5. /\ k = (IF stop = {} THEN Count ELSE Min(stop) + 1)
      /\ k > 0 => (Hit(k - 1) <=> stop # {})
  <2>1. /\ stop \in SUBSET (0 .. Count - 1)
        /\ \A i \in 0 .. k - 2 : i \notin stop
        /\ k = Count \/ (k > 0 /\ k - 1 \in stop)
        /\ k > 0 => (Hit(k - 1) <=> k - 1 \in stop)
    BY <1>3, <1>4 DEF Looked
  <2> HIDE DEF stop
  <2> QED
    BY <1>3, <2>1, FirstHit
<1>6. Count > 0 => k > 0
  BY <1>3, <1>4
<1>7. Count > 0 => flags.zf = IF stop = {} THEN 1 - HitZf ELSE HitZf
  BY <1>4, <1>5, <1>6 DEF Looked
<1> QED
  BY <1>4, <1>5, <1>7

LEMMA StringsDone == StringInv => StringsComplete
<1> SUFFICES ASSUME StringInv, Done  PROVE StringsComplete
  BY DEF StringsComplete
<1>1. job \in Moves => 
         /\ regs.cx = 0
         /\ job = "movsb" => Written(Count, LAMBDA i : Element("ds", ByteSign, i))
                             /\ regs.si = Count /\ regs.di = Count
         /\ job = "movsw" => Written(2 * Count, LAMBDA i : Element("ds", ByteSign, i))
         /\ job = "stosb" => Written(Count, LAMBDA i : Al0)
         /\ job = "stosw" => Written(2 * Count, LAMBDA i : IF i % 2 = 0 THEN Al0 ELSE Ah0)
  BY MovesDone
<1>2. job = "movsd" =>
         /\ regs.cx = 0 /\ Written(Count, LAMBDA i : Element("ds", ByteSign, i))
         /\ regs.si = Word - 1 /\ regs.di = Word - 1 /\ flags.df = 0
  BY MovingDownDone
<1>3. job = "copy" =>
         /\ regs.cx = 0 /\ Written(Count, LAMBDA i : Element("ds", ByteSign, i))
         /\ regs.si = Count /\ regs.di = Count
  BY CopyingDone
<1> DEFINE n == ini.regs.cx
           differ(w) == {i \in 0 .. n - 1 : Element("ds", w, i) # Element("es", w, i)}
           found(w, v) == {i \in 0 .. n - 1 : Element("es", w, i) = v}
<1>4. ASSUME job \in Scans \cup Loops,
             NEW w, NEW stop, NEW zf \in 0 .. 1, NEW p,
             w = ElementWidth, stop = {i \in 0 .. n - 1 : Hit(i)}, zf = HitZf,
             p = IF job \in {"cmpsb", "cmpsw"} THEN {"si", "di"} ELSE {"di"}
      PROVE  Searched(w, stop, zf, p)
  <2> DEFINE k == IF stop = {} THEN n ELSE Min(stop) + 1
  <2>1. /\ regs.cx = n - k /\ regs.di = k * ElementSize
        /\ regs.si = (IF job \in {"cmpsb", "cmpsw"} THEN k * ElementSize ELSE ini.regs.si)
        /\ n > 0 => flags.zf = IF stop = {} THEN 1 - zf ELSE zf
    BY <1>4, SearchDone DEF Count
  <2>2. Size(w) = ElementSize
    BY <1>4, Widths DEF Size, ElementSize, ElementWidth
  <2> HIDE DEF k
  <2>3. \A r \in {"si", "di"} : regs[r] = IF r \in p THEN k * Size(w) ELSE ini.regs[r]
    BY <1>4, <2>1, <2>2
  <2> QED
    BY <2>1, <2>3 DEF Searched, k
<1>5. job = "cmpsb" => Searched(ByteSign, differ(ByteSign), 0, {"si", "di"})
  <2> SUFFICES ASSUME job = "cmpsb"  PROVE Searched(ByteSign, differ(ByteSign), 0, {"si", "di"})
    OBVIOUS
  <2>1. ElementWidth = ByteSign /\ HitZf = 0 /\ job \in Scans \cup Loops
    BY DEF ElementWidth, HitZf, OfWords, Scans
  <2>2. differ(ByteSign) = {i \in 0 .. n - 1 : Hit(i)}
    BY <2>1 DEF Hit
  <2> QED
    BY <1>4, <2>1, <2>2
<1>6. job = "cmpsw" => Searched(WordSign, differ(WordSign), 0, {"si", "di"})
  <2> SUFFICES ASSUME job = "cmpsw"  PROVE Searched(WordSign, differ(WordSign), 0, {"si", "di"})
    OBVIOUS
  <2>1. ElementWidth = WordSign /\ HitZf = 0 /\ job \in Scans \cup Loops
    BY DEF ElementWidth, HitZf, OfWords, Scans
  <2>2. differ(WordSign) = {i \in 0 .. n - 1 : Hit(i)}
    BY <2>1 DEF Hit
  <2> QED
    BY <1>4, <2>1, <2>2
<1>7. job \in {"scasb", "scanne"} => Searched(ByteSign, found(ByteSign, Al0), 1, {"di"})
  <2> SUFFICES ASSUME job \in {"scasb", "scanne"}
               PROVE  Searched(ByteSign, found(ByteSign, Al0), 1, {"di"})
    OBVIOUS
  <2>1. ElementWidth = ByteSign /\ HitZf = 1 /\ job \in Scans \cup Loops
    BY DEF ElementWidth, HitZf, OfWords, Scans, Loops
  <2>2. found(ByteSign, Al0) = {i \in 0 .. n - 1 : Hit(i)}
    BY <2>1 DEF Hit
  <2> QED
    BY <1>4, <2>1, <2>2
<1>8. job = "scasw" => Searched(WordSign, found(WordSign, ini.regs.ax), 1, {"di"})
  <2> SUFFICES ASSUME job = "scasw"
               PROVE  Searched(WordSign, found(WordSign, ini.regs.ax), 1, {"di"})
    OBVIOUS
  <2>1. ElementWidth = WordSign /\ HitZf = 1 /\ job \in Scans \cup Loops
    BY DEF ElementWidth, HitZf, OfWords, Scans
  <2>2. found(WordSign, ini.regs.ax) = {i \in 0 .. n - 1 : Hit(i)}
    BY <2>1 DEF Hit
  <2> QED
    BY <1>4, <2>1, <2>2
<1>9. job = "scane" => Searched(ByteSign, (0 .. n - 1) \ found(ByteSign, Al0), 0, {"di"})
  <2> SUFFICES ASSUME job = "scane"
               PROVE  Searched(ByteSign, (0 .. n - 1) \ found(ByteSign, Al0), 0, {"di"})
    OBVIOUS
  <2>1. ElementWidth = ByteSign /\ HitZf = 0 /\ job \in Scans \cup Loops
    BY DEF ElementWidth, HitZf, OfWords, Loops
  <2>2. (0 .. n - 1) \ found(ByteSign, Al0) = {i \in 0 .. n - 1 : Hit(i)}
    BY <2>1 DEF Hit
  <2> QED
    BY <1>4, <2>1, <2>2
<1> QED
  BY <1>1, <1>2, <1>3, <1>5, <1>6, <1>7, <1>8, <1>9 DEF StringsComplete, Moves, Count

(* For strings of any length, any contents and any sizes of a byte and a    *)
(* segment, with an interrupt in front of any iteration, a repeated string  *)
(* instruction has done what it should when its routine ends.               *)
THEOREM StringsAreComplete == Spec => []StringsComplete
<1>1. Init => StringInv
  BY StringsInit
<1>2. StringInv /\ [Next]_vars => StringInv'
  BY StringsStep
<1>3. StringInv => StringsComplete
  BY StringsDone
<1> QED
  BY <1>1, <1>2, <1>3, PTL DEF Spec

-----------------------------------------------------------------------------
(* Registers, their halves, and pairs of them *)

LEMMA ReadHalves ==
  ASSUME regs \in RegFile
  PROVE  /\ GetReg("ax") = regs["ax"] /\ GetReg("bx") = regs["bx"] /\ GetReg("dx") = regs["dx"]
         /\ GetReg("al") = regs["ax"] % Byte /\ GetReg("ah") = regs["ax"] \div Byte
         /\ GetReg("bl") = regs["bx"] % Byte
         /\ \A r \in Reg : regs[r] \in 0 .. Word - 1
         /\ regs["ax"] \div Byte \in 0 .. Byte - 1 /\ regs["ax"] % Byte \in 0 .. Byte - 1
         /\ regs["ax"] = (regs["ax"] \div Byte) * Byte + (regs["ax"] % Byte)
         /\ regs["bx"] % Byte \in 0 .. Byte - 1
<1>1. /\ \A r \in Reg : regs[r] \in 0 .. Word - 1
      /\ Byte \in Nat \ {0} /\ Word = Byte * Byte
  BY Widths DEF RegFile
<1>2. /\ regs["ax"] \in 0 .. Word - 1 /\ regs["bx"] \in 0 .. Word - 1
  BY <1>1 DEF Reg
<1>3. ASSUME NEW x \in 0 .. Word - 1
      PROVE  /\ x \div 1 = x /\ x % Byte \in 0 .. Byte - 1 /\ x \div Byte \in 0 .. Byte - 1
             /\ x = (x \div Byte) * Byte + (x % Byte) /\ (x \div Byte) % Byte = x \div Byte
  <2>1. x % Byte \in 0 .. Byte - 1 /\ x \div Byte \in 0 .. Byte - 1
        /\ x = (x % Byte) + Byte * (x \div Byte)
    BY <1>1, Halves
  <2> DEFINE q == x \div Byte
             m == x % Byte
  <2> HIDE DEF q, m
  <2>2. q * Byte = Byte * q
    BY <1>1, <2>1 DEF q
  <2>3. q % Byte = q
    BY <1>1, <2>1 DEF q
  <2>4. x \div 1 = x
    BY <1>1
  <2> QED
    BY <1>1, <2>1, <2>2, <2>3, <2>4 DEF q, m
<1>4. /\ GetReg("ax") = regs["ax"] /\ GetReg("bx") = regs["bx"] /\ GetReg("dx") = regs["dx"]
  BY DEF GetReg, Reg
<1>5. /\ GetReg("al") = (regs["ax"] \div 1) % Byte /\ GetReg("ah") = (regs["ax"] \div Byte) % Byte
      /\ GetReg("bl") = (regs["bx"] \div 1) % Byte
  BY DEF GetReg, Reg, Half
<1> QED
  BY <1>1, <1>2, <1>3, <1>4, <1>5

LEMMA PutHigh ==
  ASSUME NEW rs \in RegFile, NEW hi \in 0 .. Byte - 1
  PROVE  /\ PutReg(rs, "ah", hi) = [rs EXCEPT !["ax"] = hi * Byte + (rs["ax"] % Byte)]
         /\ rs["ax"] % Byte \in 0 .. Byte - 1
<1> DEFINE x == rs["ax"]
           q == x \div Byte
           m == x % Byte
<1>1. x \in 0 .. Word - 1 /\ Byte \in Nat \ {0} /\ Word = Byte * Byte
  BY Widths DEF RegFile, Reg
<1>2. m \in 0 .. Byte - 1 /\ q \in 0 .. Byte - 1 /\ x = m + Byte * q /\ q % Byte = q
  <2> HIDE DEF x
  <2>1. m \in 0 .. Byte - 1 /\ q \in 0 .. Byte - 1 /\ x = m + Byte * q
    BY <1>1, Halves
  <2> HIDE DEF q
  <2>2. q % Byte = q
    BY <1>1, <2>1
  <2> QED
    BY <2>1, <2>2
<1>3. PutReg(rs, "ah", hi) = [rs EXCEPT !["ax"] = x + (hi - (q % Byte)) * Byte]
  BY DEF PutReg, Reg, Half
<1>4. x + (hi - (q % Byte)) * Byte = hi * Byte + m
  <2> HIDE DEF x, q, m
  <2>1. q \in Int /\ m \in Int /\ hi \in Int /\ Byte \in Int /\ x = m + Byte * q /\ q % Byte = q
    BY <1>1, <1>2
  <2>2. (hi - q) * Byte = hi * Byte - Byte * q
    <3> HIDE <1>1, <1>2
    <3> QED
      BY <2>1
  <2>3. hi * Byte \in Int /\ Byte * q \in Int
    BY <2>1
  <2>4. x + (hi - (q % Byte)) * Byte = x + (hi * Byte - Byte * q)
    BY <2>1, <2>2, Zenon
  <2> QED
    BY <2>1, <2>3, <2>4
<1> QED
  BY <1>2, <1>3, <1>4

LEMMA HalvesOf ==
  ASSUME NEW hi \in 0 .. Byte - 1, NEW lo \in 0 .. Byte - 1
  PROVE  /\ hi * Byte + lo \in 0 .. Word - 1
         /\ (hi * Byte + lo) % Byte = lo /\ (hi * Byte + lo) \div Byte = hi
<1>1. Byte \in Nat \ {0} /\ Word = Byte * Byte
  BY Widths
<1>2. hi * Byte + lo \in 0 .. Word - 1
  <2>1. hi * Byte >= 0 /\ hi * Byte <= (Byte - 1) * Byte /\ hi * Byte \in Int
    BY <1>1
  <2>2. (Byte - 1) * Byte = Byte * Byte - Byte
    BY <1>1
  <2> QED
    BY <1>1, <2>1, <2>2
<1>3. (hi * Byte + lo) % Byte = lo /\ (hi * Byte + lo) \div Byte = hi
  <2>1. hi \in Int /\ Byte \in Nat \ {0} /\ lo \in 0 .. Byte - 1
    BY <1>1
  <2> HIDE <1>1
  <2> QED
    BY <2>1, Reassembled, Zenon
<1> QED
  BY <1>2, <1>3

LEMMA PutHalves ==
  ASSUME NEW rs \in RegFile, NEW hi \in 0 .. Byte - 1, NEW lo \in 0 .. Byte - 1
  PROVE  LET r == PutReg(PutReg(rs, "ah", hi), "al", lo)
         IN  /\ r \in RegFile /\ r = [rs EXCEPT !["ax"] = hi * Byte + lo]
             /\ r["ax"] = hi * Byte + lo /\ r["ax"] % Byte = lo /\ r["ax"] \div Byte = hi
             /\ r["bx"] = rs["bx"]
<1> DEFINE x == rs["ax"]
           m == x % Byte
           y == hi * Byte + m
           s == [rs EXCEPT !["ax"] = y]
<1>1. Byte \in Nat \ {0}
  BY Widths
<1>2. PutReg(rs, "ah", hi) = s /\ m \in 0 .. Byte - 1
  BY PutHigh
<1>5. y \in Int /\ y \div 1 = y /\ y % Byte = m
  <2> HIDE DEF m
  <2>1. y \in Int
    BY <1>1, <1>2
  <2>2. y % Byte = m
    <3>1. hi \in Int /\ Byte \in Nat \ {0} /\ m \in 0 .. Byte - 1
      BY <1>1, <1>2
    <3> QED
      BY <3>1, Reassembled
  <2> HIDE DEF y
  <2> QED
    BY <2>1, <2>2
<1>6. PutReg(rs, "ah", hi) = s /\ s["ax"] = y
  BY <1>2 DEF RegFile, Reg
<1>7. PutReg(s, "al", lo) = [s EXCEPT !["ax"] = y + (lo - ((y \div 1) % Byte)) * 1]
  <2>1. s["ax"] = y
    BY <1>6
  <2> HIDE DEF s, y
  <2> QED
    BY <2>1 DEF PutReg, Reg, Half
<1>8. y + (lo - ((y \div 1) % Byte)) * 1 = hi * Byte + lo
  <2>1. y + (lo - m) * 1 = hi * Byte + lo
    <3> HIDE DEF m
    <3>1. hi * Byte \in Int
      BY <1>1
    <3> QED
      BY <1>2, <3>1
  <2> HIDE DEF y, m
  <2> QED
    BY <1>5, <2>1
<1>9. PutReg(s, "al", lo) = [rs EXCEPT !["ax"] = hi * Byte + lo]
  <2> HIDE DEF y
  <2> QED
    BY <1>7, <1>8
<1>10. /\ hi * Byte + lo \in 0 .. Word - 1
       /\ (hi * Byte + lo) % Byte = lo /\ (hi * Byte + lo) \div Byte = hi
  BY HalvesOf
<1> HIDE DEF x, y, s
<1> QED
  BY <1>6, <1>9, <1>10 DEF RegFile, Reg

LEMMA PutWords ==
  ASSUME NEW rs \in RegFile, NEW hi \in 0 .. Word - 1, NEW lo \in 0 .. Word - 1
  PROVE  LET r == PutReg(PutReg(rs, "dx", hi), "ax", lo)
         IN  r \in RegFile /\ r["ax"] = lo /\ r["dx"] = hi /\ r["bx"] = rs["bx"]
  BY DEF PutReg, RegFile, Reg

-----------------------------------------------------------------------------
(* What the instructions of the divisions do *)

LEMMA MulMultiplies ==
  ASSUME Next, ~Irq, I.op \in {"mul", "imul"}
  PROVE  LET r == IF I.op = "mul" THEN OpMul(flags, I.w, Value(I.d), GetReg(Lo))
                  ELSE OpImul(flags, I.w, GetReg(Lo), Value(I.d))
         IN  /\ Stays /\ mem' = mem /\ ip' = ip + 1 /\ flags' = r.f
             /\ regs' = PutReg(PutReg(regs, Hi, r.hi), Lo, r.lo)
<1>1. Multiply
  BY Dispatch
<1> QED
  BY <1>1 DEF Multiply, PutDouble, Is, Proceed, fixed, Stays

\* A divide error: the guest goes on at instruction 6, in the segment of the
\* destination strings.
DivideTrap ==
  /\ stack' = <<ip + 1, segs.cs, MakeFlagsWord(flags)>> \o stack
  /\ ip' = 6 - 2 * Paragraph /\ segs' = [segs EXCEPT !.cs = 2] /\ flags' = [flags EXCEPT !.ifl = 0]
  /\ calls' = <<[ip |-> ip + 1, segs |-> segs, stack |-> stack, irq |-> FALSE,
                 regs |-> regs, flags |-> flags]>> \o calls
  /\ UNCHANGED <<ini, regs, mem>>

LEMMA Traps ==
  ASSUME Intcall("divide", ip + 1)
  PROVE  DivideTrap
<1>1. Vectors["divide"].ip = 6 - 2 * Paragraph /\ Vectors["divide"].cs = 2
  <2>1. Vectors["divide"] = FarAt(2, 6)
    BY RoutineAssumption DEF HandlerOf
  <2> QED
    BY <2>1 DEF FarAt
<1>2. ("divide" = "irq") = FALSE
  OBVIOUS
<1> QED
  BY <1>1, <1>2 DEF Intcall, Enter, Pushed, DivideTrap

LEMMA DivDivides ==
  ASSUME Next, ~Irq, I.op \in {"div", "idiv"}
  PROVE  \/ /\ ~Division.error /\ Stays /\ ip' = ip + 1 /\ UNCHANGED <<flags, mem>>
            /\ regs' = PutReg(PutReg(regs, Hi, Division.hi), Lo, Division.lo)
         \/ Division.error /\ DivideTrap
<1>1. Divide \/ DivideError
  BY Dispatch
<1>2. CASE Divide
  <2> HIDE DEF Division
  <2> QED
    BY <1>2 DEF Divide, PutDouble, Proceed, fixed, Stays
<1>3. CASE DivideError
  BY <1>3, Traps DEF DivideError
<1> QED
  BY <1>1, <1>2, <1>3

LEMMA AamTraps ==
  ASSUME Next, ~Irq, I.op = "aam", I.base = 0
  PROVE  DivideTrap
<1>1. Aam \/ AamError
  BY Dispatch
<1> QED
  BY <1>1, Traps DEF Aam, AamError

LEMMA AadAdjusts ==
  ASSUME Next, ~Irq, I.op = "aad"
  PROVE  /\ Stays /\ mem' = mem /\ ip' = ip + 1
         /\ regs' = [regs EXCEPT !["ax"] = OpAad(flags, regs.ax, I.base).v]
         /\ flags' = OpAad(flags, regs.ax, I.base).f
<1>1. Aad
  BY Dispatch
<1> QED
  BY <1>1 DEF Aad, DecimalResult, PutReg, Reg, Proceed, fixed, Stays

LEMMA Extends ==
  ASSUME Next, ~Irq, I.op \in {"cbw", "cwd"}
  PROVE  /\ Stays /\ UNCHANGED <<flags, mem>> /\ ip' = ip + 1
         /\ regs' = IF I.op = "cbw"
                    THEN PutReg(regs, "ah", IF Bit(GetReg("al"), ByteSign) = 1 THEN Byte - 1 ELSE 0)
                    ELSE PutReg(regs, "dx", IF Bit(GetReg("ah"), ByteSign) = 1 THEN Word - 1 ELSE 0)
<1>1. Cbw \/ Cwd
  BY Dispatch
<1> QED
  BY <1>1 DEF Cbw, Cwd, Is, SetReg, Proceed, fixed, Stays

\* The first instruction of the handler of divide errors and overflows.
LEMMA TrapMarks ==
  ASSUME Next, ~Irq, I = I2("mov", b8, At(MarkAt), N(1)), segs.ds = 0
  PROVE  /\ Stays /\ UNCHANGED <<regs, flags>> /\ ip' = ip + 1
         /\ mem' = WriteMem(ByteSign, MarkAt, 1)
<1>1. /\ I.op = "mov" /\ I.w = ByteSign /\ I.d = At(MarkAt) /\ I.s = N(1) /\ I.over = "no"
  BY DEF I2, b8
<1>2. Mov
  BY <1>1, Dispatch
<1>3. Value(I.s) = 1 /\ I.d.k = "mem"
  BY <1>1 DEF Value, N, At, Mem
<1>4. EA(I.d) = MarkAt
  <2>1. MarkAt \in 0 .. Word - 1 /\ Paragraph \in Nat
    BY RoutineAssumption, Widths DEF MarkAt
  <2>2. MarkAt % Word = MarkAt
    BY <2>1, Widths
  <2>3. OffsetIn(regs, I.d) = (0 + 0 + MarkAt) % Word
    BY <1>1 DEF OffsetIn, At, Mem
  <2>4. 0 + 0 + MarkAt = MarkAt /\ MarkAt + 0 * Paragraph = MarkAt
    BY <2>1
  <2>5. SegOf(I.d.b) = "ds"
    BY <1>1 DEF SegOf, At, Mem
  <2>6. EA(I.d) = OffsetIn(regs, I.d) + segs["ds"] * Paragraph
    BY <2>5 DEF EA, EAIn
  <2> QED
    BY <2>2, <2>3, <2>4, <2>6
<1> QED
  BY <1>1, <1>2, <1>3, <1>4 DEF Mov, Store, Proceed, fixed, Stays

-----------------------------------------------------------------------------
(* Quotients and remainders of signed numbers *)

LEMMA SignedResidue ==
  ASSUME NEW h \in Nat \ {0}, NEW x \in -h .. h - 1
  PROVE  x % (2 * h) \in Operand(h) /\ Signed(h, x % (2 * h)) = x
<1>1. CASE x >= 0
  <2>1. x % (2 * h) = x
    BY <1>1
  <2> QED
    BY <1>1, <2>1 DEF Operand, Signed
<1>2. CASE x < 0
  <2>1. x = (-1) * (2 * h) + (x + 2 * h) /\ x + 2 * h \in 0 .. 2 * h - 1 /\ 2 * h \in Nat \ {0}
    BY <1>2
  <2>2. ((-1) * (2 * h) + (x + 2 * h)) % (2 * h) = x + 2 * h
    BY <2>1, Reassembled
  <2>3. x % (2 * h) = x + 2 * h
    BY <2>1, <2>2, Zenon
  <2> QED
    BY <1>2, <2>3 DEF Operand, Signed
<1> QED
  BY <1>1, <1>2

LEMMA Magnitudes ==
  ASSUME NEW h \in Nat \ {0}, NEW x \in -h .. h
  PROVE  /\ Magnitude(x) \in 0 .. h /\ x = (IF x < 0 THEN -Magnitude(x) ELSE Magnitude(x))
         /\ x = 0 <=> Magnitude(x) = 0
  BY DEF Magnitude

\* What IDIV gives when the magnitudes' quotient fits.
LEMMA IdivGives ==
  ASSUME NEW h \in Nat \ {0}, NEW n \in -(2 * h * h) .. (2 * h * h) - 1,
         NEW d \in Int, NEW divisor, divisor # 0,
         Magnitude(n) \div Magnitude(d) \in Int, Magnitude(n) \div Magnitude(d) < 2 * h
  PROVE  LET q == Magnitude(n) \div Magnitude(d)
             r == Magnitude(n) % Magnitude(d)
         IN  IdivBy(h, n % (2 * (2 * h * h)), divisor, d) =
               IF (n < 0) # (d < 0) THEN Quotient(h, -q, -r) ELSE Quotient(h, q, r)
<1> DEFINE w == 2 * h * h
           q == Magnitude(n) \div Magnitude(d)
<1>1. w \in Nat \ {0}
  OBVIOUS
<1> HIDE DEF w
<1>2. n \in -w .. w - 1
  BY DEF w
<1>3. Signed(w, n % (2 * w)) = n
  BY <1>1, <1>2, SignedResidue
<1>4. ~(q >= 2 * h)
  <2>1. q \in Int /\ q < 2 * h
    OBVIOUS
  <2> HIDE DEF q
  <2> QED
    BY <2>1
<1> QED
  BY <1>3, <1>4 DEF IdivBy, w

\* IDIV of any width, of a sign-extended operand by a divisor taken for what it
\* is: no divide error, the truncated quotient, and the truncated remainder,
\* negated when the divisor is negative.  The most negative number by -1, whose
\* quotient has no place, is left out.
THEOREM IdivExact ==
  ASSUME NEW h \in Nat \ {0}, NEW a \in -h .. h - 1, NEW d \in -h .. h, d # 0,
         ~(a = -h /\ d = -1), NEW divisor, divisor # 0
  PROVE  LET res == IdivBy(h, a % (2 * (2 * h * h)), divisor, d)
         IN  /\ ~res.error /\ res.lo \in Operand(h) /\ res.hi \in Operand(h)
             /\ Signed(h, res.lo) = Truncated(a, d).q
             /\ Signed(h, res.hi) = Truncated(a, d).r * (IF d < 0 THEN -1 ELSE 1)
<1> DEFINE A == Magnitude(a)
           D == Magnitude(d)
           q == A \div D
           r == A % D
           negative == (a < 0) # (d < 0)
           t == IF negative THEN -q ELSE q
           u == IF negative THEN -r ELSE r
<1>1. /\ A \in 0 .. h /\ a = (IF a < 0 THEN -A ELSE A)
      /\ D \in 1 .. h /\ d = (IF d < 0 THEN -D ELSE D)
  <2>1. a \in -h .. h
    OBVIOUS
  <2>2. A \in 0 .. h /\ a = (IF a < 0 THEN -A ELSE A)
    BY <2>1, Magnitudes, Zenon
  <2>3. D \in 0 .. h /\ d = (IF d < 0 THEN -D ELSE D) /\ (d = 0 <=> D = 0)
    BY Magnitudes, Zenon
  <2> HIDE DEF A, D
  <2>4. D # 0
    BY <2>3
  <2>5. D \in 1 .. h
    BY <2>3, <2>4
  <2> QED
    BY <2>2, <2>3, <2>5
<1> HIDE DEF A, D
<1>2. q \in Int /\ r \in 0 .. D - 1 /\ A = D * q + r
  BY <1>1, Quotients
<1> HIDE DEF q, r
<1>3. q \in 0 .. A /\ D * q \in Int
  <2>1. q >= 0
    <3>1. q < 0 => D * (q + 1) <= 0
      BY <1>1, <1>2
    <3>2. D * (q + 1) = D * q + D
      BY <1>1, <1>2
    <3>3. D * q \in Int
      BY <1>1, <1>2
    <3> QED
      BY <1>1, <1>2, <3>1, <3>2, <3>3
  <2>2. q <= D * q
    BY <1>1, <1>2, <2>1
  <2>3. D * q \in Int
    BY <1>1, <1>2
  <2> QED
    BY <1>1, <1>2, <2>1, <2>2, <2>3
<1>4. t \in -h .. h - 1
  <2>1. CASE q < h
    BY <1>3, <2>1
  <2>2. CASE q = h
    <3>1. A = h /\ a = -h
      BY <1>1, <1>3, <2>2
    <3>2. D = 1
      <4>1. CASE D >= 2
        <5>1. D * q >= 2 * q
          BY <1>1, <1>3, <4>1
        <5> QED
          BY <1>1, <1>2, <1>3, <2>2, <3>1, <5>1
      <4> QED
        BY <1>1, <4>1
    <3>3. d = 1
      BY <1>1, <3>1, <3>2
    <3>4. negative
      BY <3>1, <3>3
    <3> QED
      BY <2>2, <3>4
  <2> QED
    BY <1>1, <1>3, <2>1, <2>2
<1>5. u \in -h .. h - 1
  BY <1>1, <1>2
<1>6. IdivBy(h, a % (2 * (2 * h * h)), divisor, d) =
        IF negative THEN Quotient(h, -q, -r) ELSE Quotient(h, q, r)
  <2>1. a \in -(2 * h * h) .. (2 * h * h) - 1
    <3>1. h * h >= h /\ h * h \in Int
      OBVIOUS
    <3>2. 2 * h * h = 2 * (h * h)
      OBVIOUS
    <3> QED
      BY <3>1, <3>2
  <2>2. q < 2 * h /\ q \in Nat /\ r \in Nat /\ d \in Int
    BY <1>1, <1>2, <1>3
  <2>3. q = Magnitude(a) \div Magnitude(d) /\ r = Magnitude(a) % Magnitude(d)
    BY DEF q, r, A, D
  <2>4. /\ Magnitude(a) \div Magnitude(d) \in Int /\ Magnitude(a) \div Magnitude(d) < 2 * h
        /\ d \in Int
    BY <2>2, <2>3
  <2>5. IdivBy(h, a % (2 * (2 * h * h)), divisor, d) =
          IF negative THEN Quotient(h, -(Magnitude(a) \div Magnitude(d)), -(Magnitude(a) % Magnitude(d)))
          ELSE Quotient(h, Magnitude(a) \div Magnitude(d), Magnitude(a) % Magnitude(d))
    BY <2>1, <2>4, IdivGives, Zenon
  <2> QED
    BY <2>3, <2>5, Zenon
<1> DEFINE res == IdivBy(h, a % (2 * (2 * h * h)), divisor, d)
<1>7. ~res.error /\ res.lo = t % (2 * h) /\ res.hi = u % (2 * h)
  BY <1>6 DEF Quotient
<1> HIDE DEF res, t, u
<1>8. /\ t % (2 * h) \in Operand(h) /\ Signed(h, t % (2 * h)) = t
      /\ u % (2 * h) \in Operand(h) /\ Signed(h, u % (2 * h)) = u
  BY <1>4, <1>5, SignedResidue
<1>9. Truncated(a, d).q = t
  BY DEF Truncated, t, q, A, D
<1>10. Truncated(a, d).r = a - t * d
  BY DEF Truncated, t, q, A, D
<1>11. u = (a - t * d) * (IF d < 0 THEN -1 ELSE 1)
  <2>1. t * d = IF a < 0 THEN -(D * q) ELSE D * q
    <3>1. (-q) * (-D) = D * q /\ (-q) * D = -(D * q) /\ q * (-D) = -(D * q) /\ q * D = D * q
      BY <1>1, <1>2
    <3>2. CASE d < 0
      <4>1. d = -D
        BY <1>1, <3>2
      <4> QED
        BY <3>1, <3>2, <4>1 DEF t
    <3>3. CASE ~(d < 0)
      <4>1. d = D
        BY <1>1, <3>3
      <4> QED
        BY <3>1, <3>3, <4>1 DEF t
    <3> QED
      BY <3>2, <3>3
  <2>2. a - t * d = IF a < 0 THEN -r ELSE r
    <3>1. D * q \in Int /\ r \in Int /\ A = D * q + r /\ a = (IF a < 0 THEN -A ELSE A)
      BY <1>1, <1>2, <1>3
    <3> QED
      BY <2>1, <3>1
  <2>3. r \in Int
    BY <1>2
  <2>4. CASE d < 0
    BY <2>2, <2>3, <2>4 DEF u
  <2>5. CASE ~(d < 0)
    BY <2>2, <2>3, <2>5 DEF u
  <2> QED
    BY <2>4, <2>5
<1> QED
  BY <1>7, <1>8, <1>9, <1>10, <1>11, Zenon DEF res

\* Zero has no sign.
LEMMA NoSign == \A x \in Int : x = 0 => -x = 0
<1>1. ASSUME NEW x \in Int, x = 0  PROVE -x = 0
  <2>1. x <= 0 /\ x >= 0
    BY <1>1
  <2>2. -x <= 0 /\ -x >= 0 /\ -x \in Int
    <3> HIDE <1>1
    <3> QED
      BY <2>1
  <2> DEFINE y == -x
  <2>3. y <= 0 /\ y >= 0 /\ y \in Int
    BY <2>2
  <2> HIDE DEF y
  <2>4. y = 0
    BY <2>3
  <2> QED
    BY <2>4 DEF y
<1> QED
  BY <1>1

\* Division undoes multiplication.
LEMMA SignedUndone ==
  ASSUME NEW h \in Nat \ {0}, NEW a \in -h .. h - 1, NEW d \in -h .. h, d # 0,
         NEW divisor, divisor # 0
  PROVE  LET res == IdivBy(h, (a * d) % (2 * (2 * h * h)), divisor, d)
         IN  ~res.error /\ res.lo = a % (2 * h) /\ res.hi = 0
<1> DEFINE A == Magnitude(a)
           D == Magnitude(d)
           n == a * d
<1>1. /\ A \in 0 .. h /\ a = (IF a < 0 THEN -A ELSE A)
      /\ D \in 1 .. h /\ d = (IF d < 0 THEN -D ELSE D)
      /\ a = 0 <=> A = 0
  <2>1. a \in -h .. h
    OBVIOUS
  <2> QED
    BY <2>1, Magnitudes
<1>2. /\ A * D \in Nat /\ A * D <= h * h /\ h * h \in Nat /\ h * h >= 1
      /\ A * D = 0 <=> A = 0
  <2>1. A * D >= 0 /\ A * D <= A * h /\ A * h <= h * h
    BY <1>1
  <2>2. A * D \in Int /\ A * h \in Int /\ h * h \in Int
    BY <1>1
  <2>3. h * h >= 1
    OBVIOUS
  <2>4. A # 0 => A * D # 0
    BY <1>1
  <2>5. A = 0 => A * D = 0
    BY <1>1
  <2> QED
    BY <2>1, <2>2, <2>3, <2>4, <2>5
<1>3. n = IF (a < 0) # (d < 0) THEN -(A * D) ELSE A * D
  <2> HIDE DEF A, D
  <2>1. A \in Int /\ D \in Int
    BY <1>1
  <2>2. (-A) * (-D) = A * D /\ (-A) * D = -(A * D) /\ A * (-D) = -(A * D)
    BY <2>1
  <2>3. (a = A \/ a = -A) /\ (d = D \/ d = -D) /\ (a < 0 => a = -A) /\ (~(a < 0) => a = A)
        /\ (d < 0 => d = -D) /\ (~(d < 0) => d = D)
    BY <1>1
  <2> QED
    BY <2>2, <2>3
<1> HIDE DEF A, D, n
<1>4. Magnitude(n) = A * D
  BY <1>2, <1>3 DEF Magnitude
<1>5. Magnitude(n) \div D = A /\ Magnitude(n) % D = 0
  <2>1. (A * D + 0) % D = 0 /\ (A * D + 0) \div D = A
    <3>1. D \in Nat \ {0} /\ A \in Int /\ 0 \in 0 .. D - 1
      BY <1>1
    <3> QED
      BY <3>1, Reassembled
  <2>2. A * D + 0 = A * D
    BY <1>2
  <2> QED
    BY <1>4, <2>1, <2>2
<1>6. n \in -(2 * h * h) .. (2 * h * h) - 1
  <2>1. 2 * h * h = 2 * (h * h)
    OBVIOUS
  <2> QED
    BY <1>2, <1>3, <2>1
<1>7. IdivBy(h, n % (2 * (2 * h * h)), divisor, d) =
        IF (n < 0) # (d < 0) THEN Quotient(h, -A, -0) ELSE Quotient(h, A, 0)
  <2>1. A \in Nat /\ 0 \in Nat /\ A < 2 * h /\ d \in Int
    BY <1>1
  <2>2. A = Magnitude(n) \div Magnitude(d) /\ 0 = Magnitude(n) % Magnitude(d)
    BY <1>5 DEF D
  <2>3. /\ Magnitude(n) \div Magnitude(d) \in Int /\ Magnitude(n) \div Magnitude(d) < 2 * h
        /\ d \in Int
    BY <2>1, <2>2
  <2>4. IdivBy(h, n % (2 * (2 * h * h)), divisor, d) =
          IF (n < 0) # (d < 0)
          THEN Quotient(h, -(Magnitude(n) \div Magnitude(d)), -(Magnitude(n) % Magnitude(d)))
          ELSE Quotient(h, Magnitude(n) \div Magnitude(d), Magnitude(n) % Magnitude(d))
    BY <1>6, <2>3, IdivGives, Zenon
  <2> QED
    BY <2>2, <2>4, Zenon
<1>8. (IF (n < 0) # (d < 0) THEN -A ELSE A) = a
  <2>1. CASE A = 0
    <3>1. a = 0
      BY <1>1, <2>1
    <3>2. -A = 0
      <4>1. A \in Int
        BY <1>1
      <4> QED
        BY <2>1, <4>1, NoSign, Zenon
    <3> QED
      BY <2>1, <3>1, <3>2, Zenon
  <2>2. CASE A # 0
    <3>1. n < 0 <=> (a < 0) # (d < 0)
      BY <1>2, <1>3, <2>2
    <3> QED
      BY <1>1, <3>1
  <2> QED
    BY <2>1, <2>2
<1>9. 0 % (2 * h) = 0
  <2>1. 2 * h \in Nat \ {0} /\ 0 \in Int /\ 0 \in 0 .. 2 * h - 1 /\ 0 * (2 * h) + 0 = 0
    OBVIOUS
  <2>2. (0 * (2 * h) + 0) % (2 * h) = 0
    BY <2>1, Reassembled
  <2> QED
    BY <2>1, <2>2, Zenon
<1>10. -0 = 0
  <2>1. 0 \in Int /\ 0 = 0
    OBVIOUS
  <2> QED
    BY <2>1, NoSign, Zenon
<1> DEFINE res == IdivBy(h, n % (2 * (2 * h * h)), divisor, d)
<1>11. /\ res = Quotient(h, IF (n < 0) # (d < 0) THEN -A ELSE A, 0)
  <2> DEFINE neg == (n < 0) # (d < 0)
  <2> HIDE DEF neg
  <2> QED
    BY <1>7, <1>10 DEF neg
<1>12. res = Quotient(h, a, 0)
  BY <1>8, <1>11, Zenon
<1>13. ~res.error /\ res.lo = a % (2 * h) /\ res.hi = 0
  BY <1>9, <1>12 DEF Quotient
<1> QED
  BY <1>13 DEF n

-----------------------------------------------------------------------------
(* The divisions: each comes to one DIV, IDIV or AAM, of a dividend that    *)
(* what comes before it has left in the accumulator.                        *)

DivisionJobs ==
  {"div", "div16", "idiv", "idiv16", "mul", "mul16", "imul", "imul16", "aad", "aamzero"}
Wide     == job \in {"div16", "idiv16", "mul16", "imul16"}
W        == IF Wide THEN WordSign ELSE ByteSign
DivideAt == IF job \in {"div", "div16", "aamzero"} THEN 12 ELSE 13

LowOf(rs)  == IF Wide THEN rs.ax ELSE rs.ax % Byte
HighOf(rs) == IF Wide THEN rs.dx ELSE rs.ax \div Byte
Number(rs) == HighOf(rs) * (2 * W) + LowOf(rs)

Left     == IF Wide THEN ini.regs.ax ELSE Al0
Divisor  == IF Wide THEN ini.regs.bx ELSE Bl0
InDouble(x) == x % (2 * (2 * W * W))
Dividend ==
  CASE job \in {"mul", "mul16"} -> Left * Divisor
    [] job \in {"imul", "imul16"} -> InDouble(Signed(W, Left) * Signed(W, Divisor))
    [] job \in {"idiv", "idiv16"} -> InDouble(Signed(W, Left))
    [] job = "aad" -> (Digits * Ah0 + Al0) % Byte
    [] OTHER -> Number(ini.regs)
Outcome ==
  IF job = "aamzero" THEN DivError
  ELSE IF job \in {"idiv", "idiv16", "imul", "imul16"} THEN OpIdiv(W, Dividend, Divisor)
  ELSE OpDiv(W, Dividend, Divisor)

\* CF still tells whether MUL has used the high half.
CarryOfMul(f) == job = "mul" => f.cf = Flag(Al0 * Bl0 >= Byte)

DivisionState(p, rs, f, m) ==
  \/ p = 12 /\ rs = ini.regs /\ m = ini.mem
  \/ /\ p = 13 /\ DivideAt = 13
     /\ Number(rs) = Dividend /\ rs.bx = ini.regs.bx /\ m = ini.mem /\ CarryOfMul(f)
  \/ /\ p = DivideAt + 1 /\ CarryOfMul(f)
     /\ IF Outcome.error THEN m[MarkAt] = 1 /\ (DivideAt = 12 => rs = ini.regs)
        ELSE m = ini.mem /\ LowOf(rs) = Outcome.lo /\ HighOf(rs) = Outcome.hi

\* In the handler of a divide error, which no request interrupts.
Trapped ==
  /\ Outcome.error /\ segs = [Segments EXCEPT !.cs = 2] /\ flags.ifl = 0
  /\ calls # << >> /\ ~calls[1].irq /\ Tail(calls) = << >>
  /\ \E g \in Flags : CarryOfMul(g) /\ stack = <<DivideAt + 1, 0, MakeFlagsWord(g)>> \o << >>
  /\ DivideAt = 12 => regs = ini.regs
  /\ \/ ip = 6 - 2 * Paragraph /\ mem = ini.mem
     \/ ip = 7 - 2 * Paragraph /\ mem[MarkAt] = 1

\* The inductive invariant of the divisions.
DivisionInv ==
  /\ \E loads \in Loads : ini \in loads
  /\ job \in DivisionJobs =>
       /\ CpuTypeOK /\ Handling
       /\ \/ Trapped
          \/ /\ GuestSegs = Segments /\ GuestStack = << >> /\ GuestCalls = << >>
             /\ DivisionState(GuestIp, GuestRegs, GuestFlags, mem)

\* The flags stay flags.
LEMMA SzpTyped ==
  ASSUME NEW f \in Flags, NEW h \in Nat \ {0}, NEW v \in Nat
  PROVE  FlagSzp(f, h, v) \in Flags
<1>1. Bit(v, h) \in 0 .. 1
  <2>1. v \div h \in Int
    OBVIOUS
  <2> QED
    BY <2>1 DEF Bit
<1>2. Flag(v = 0) \in 0 .. 1 /\ Parity(v % Byte) \in 0 .. 1
  BY DEF Flag, Parity
<1> QED
  BY <1>1, <1>2 DEF FlagSzp, Flags

LEMMA MulTyped ==
  ASSUME NEW f \in Flags, NEW h \in Nat \ {0}, NEW a \in Int, NEW b \in Int
  PROVE  OpMul(f, h, a, b).f \in Flags /\ OpImul(f, h, a, b).f \in Flags
<1>1. ASSUME NEW g \in Flags, NEW hi  PROVE FlagMul(g, hi) \in Flags
  <2>1. Flag(hi # 0) \in 0 .. 1 /\ 0 \in 0 .. 1
    BY DEF Flag
  <2> QED
    BY <2>1 DEF FlagMul, Flags
<1>2. FlagSzp(f, h, Double(h, a * b).lo) \in Flags
  <2> DEFINE p == a * b
             lo == p % (2 * h)
  <2>1. p \in Int /\ 2 * h \in Nat \ {0}
    OBVIOUS
  <2>2. lo \in Nat
    <3> HIDE DEF p
    <3> QED
      BY <2>1
  <2>3. Double(h, p).lo = lo
    BY DEF Double
  <2> HIDE DEF p, lo
  <2>4. FlagSzp(f, h, lo) \in Flags
    BY <2>2, SzpTyped
  <2> QED
    BY <2>3, <2>4 DEF p
<1> QED
  BY <1>1, <1>2 DEF OpMul, OpImul

LEMMA AadTyped ==
  ASSUME NEW f \in Flags, NEW ax \in Nat
  PROVE  LET r == OpAad(f, ax, Digits)
         IN  r.f \in Flags /\ r.v = ((ax \div Byte) * Digits + (ax % Byte)) % Byte
                           /\ r.v \in 0 .. Byte - 1
<1> DEFINE n == (ax \div Byte) * Digits + (ax % Byte)
           x == n % Byte
<1>1. Byte \in Nat \ {0} /\ WordSign \in Nat \ {0} /\ Digits \in Int
  BY Widths, CpuAluAssumption
<1>2. n \in Int
  <2>1. ax \div Byte \in Int /\ ax % Byte \in Int
    BY <1>1
  <2> QED
    BY <1>1, <2>1
<1> HIDE DEF n
<1>3. x \in 0 .. Byte - 1
  BY <1>1, <1>2
<1> HIDE DEF x
<1>4. FlagSzp(f, WordSign, x) \in Flags
  BY <1>1, <1>3, SzpTyped
<1>5. [FlagSzp(f, WordSign, x) EXCEPT !.sf = 0] \in Flags
  BY <1>4 DEF Flags
<1>6. OpAad(f, ax, Digits) = [v |-> x, f |-> [FlagSzp(f, WordSign, x) EXCEPT !.sf = 0]]
  BY DEF OpAad, x, n
<1> QED
  BY <1>3, <1>5, <1>6 DEF x, n

-----------------------------------------------------------------------------
(* The routines of the divisions *)

\* The division of a routine, and what comes before it.
DivideOp ==
  IF job = "aamzero" THEN [I0("aam") EXCEPT !.base = 0]
  ELSE I1(IF job \in {"idiv", "idiv16", "imul", "imul16"} THEN "idiv" ELSE "div",
          W, R(IF Wide THEN "bx" ELSE "bl"))
PrepareOp ==
  CASE job = "idiv" -> I0("cbw")
    [] job = "idiv16" -> I0("cwd")
    [] job = "aad" -> I0("aad")
    [] OTHER -> I1(IF job \in {"imul", "imul16"} THEN "imul" ELSE "mul",
                   W, R(IF Wide THEN "bx" ELSE "bl"))

LEMMA DivisionRoutine ==
  ASSUME job \in DivisionJobs
  PROVE  Routines[job] = IF DivideAt = 12 THEN <<DivideOp, Halt>> ELSE <<PrepareOp, DivideOp, Halt>>
<1>1. CASE job \in {"div", "div16", "aamzero"}
  <2>1. DivideAt = 12
    BY <1>1 DEF DivideAt
  <2>2. CASE job = "div"
    BY <2>1, <2>2 DEF DivideOp, Wide, W, Routines, b8
  <2>3. CASE job = "div16"
    BY <2>1, <2>3 DEF DivideOp, Wide, W, Routines, b16
  <2>4. CASE job = "aamzero"
    BY <2>1, <2>4 DEF DivideOp, Routines
  <2> QED
    BY <1>1, <2>2, <2>3, <2>4
<1>2. CASE job \in {"idiv", "mul", "imul", "aad"}
  <2>1. DivideAt # 12 /\ ~Wide /\ W = b8
    BY <1>2 DEF DivideAt, Wide, W, b8
  <2>2. CASE job = "idiv"
    BY <2>1, <2>2 DEF DivideOp, PrepareOp, Routines
  <2>3. CASE job = "mul"
    BY <2>1, <2>3 DEF DivideOp, PrepareOp, Routines
  <2>4. CASE job = "imul"
    BY <2>1, <2>4 DEF DivideOp, PrepareOp, Routines
  <2>5. CASE job = "aad"
    BY <2>1, <2>5 DEF DivideOp, PrepareOp, Routines
  <2> QED
    BY <1>2, <2>2, <2>3, <2>4, <2>5
<1>3. CASE job \in {"idiv16", "mul16", "imul16"}
  <2>1. DivideAt # 12 /\ Wide /\ W = b16
    BY <1>3 DEF DivideAt, Wide, W, b16
  <2>2. CASE job = "idiv16"
    BY <2>1, <2>2 DEF DivideOp, PrepareOp, Routines
  <2>3. CASE job = "mul16"
    BY <2>1, <2>3 DEF DivideOp, PrepareOp, Routines
  <2>4. CASE job = "imul16"
    BY <2>1, <2>4 DEF DivideOp, PrepareOp, Routines
  <2> QED
    BY <1>3, <2>2, <2>3, <2>4
<1> QED
  BY <1>1, <1>2, <1>3 DEF DivisionJobs

LEMMA DivisionCode ==
  ASSUME WellLoaded(ini), job \in DivisionJobs
  PROVE  /\ DivideAt \in 12 .. 13 /\ code[DivideAt] = DivideOp /\ code[DivideAt + 1] = Halt
         /\ DivideAt = 13 => code[12] = PrepareOp
         /\ HandlerAt /\ code[6] = I2("mov", b8, At(MarkAt), N(1)) /\ code[7] = I0("iret")
<1>1. code = Handlers \o Routines[job] /\ DivideAt \in 12 .. 13
  BY DEF WellLoaded, job, code, DivideAt
<1>2. Handlers[6] = I2("mov", b8, At(MarkAt), N(1)) /\ Handlers[7] = I0("iret")
  BY DEF Handlers
<1> DEFINE Coded == /\ code[DivideAt] = DivideOp /\ code[DivideAt + 1] = Halt
                    /\ DivideAt = 13 => code[12] = PrepareOp
                    /\ HandlerAt /\ code[6] = Handlers[6] /\ code[7] = Handlers[7]
<1>3. ASSUME DivideAt = 12  PROVE Coded
  <2>1. Routines[job] = <<DivideOp, Halt>>
    BY <1>3, DivisionRoutine
  <2>2. <<DivideOp, Halt>> \in Seq({DivideOp, Halt}) /\ Len(<<DivideOp, Halt>>) = 2
    OBVIOUS
  <2>3. /\ \A k \in 1 .. 2 : code[11 + k] = <<DivideOp, Halt>>[k]
        /\ \A k \in 1 .. 11 : code[k] = Handlers[k]
    BY <1>1, <2>1, <2>2, CodeOf, Zenon
  <2>4. code[12] = DivideOp /\ code[13] = Halt
    BY <2>3
  <2>5. code[6] = Handlers[6] /\ code[7] = Handlers[7] /\ HandlerAt
    BY <2>3 DEF HandlerAt
  <2> QED
    BY <1>3, <2>4, <2>5
<1>4. ASSUME DivideAt = 13  PROVE Coded
  <2>1. Routines[job] = <<PrepareOp, DivideOp, Halt>>
    BY <1>4, DivisionRoutine
  <2>2. /\ <<PrepareOp, DivideOp, Halt>> \in Seq({PrepareOp, DivideOp, Halt})
        /\ Len(<<PrepareOp, DivideOp, Halt>>) = 3
    OBVIOUS
  <2>3. /\ \A k \in 1 .. 3 : code[11 + k] = <<PrepareOp, DivideOp, Halt>>[k]
        /\ \A k \in 1 .. 11 : code[k] = Handlers[k]
    BY <1>1, <2>1, <2>2, CodeOf, Zenon
  <2>4. code[12] = PrepareOp /\ code[13] = DivideOp /\ code[14] = Halt
    BY <2>3
  <2>5. code[6] = Handlers[6] /\ code[7] = Handlers[7] /\ HandlerAt
    BY <2>3 DEF HandlerAt
  <2> QED
    BY <1>4, <2>4, <2>5
<1>5. DivideAt \in {12, 13}
  BY <1>1
<1> QED
  BY <1>1, <1>2, <1>3, <1>4, <1>5

-----------------------------------------------------------------------------
(* Operands of the divisions *)

LEMMA WidthOf ==
  /\ W \in Nat \ {0} /\ (W = ByteSign <=> ~Wide)
  /\ ~Wide => 2 * W = Byte
  /\ Wide => 2 * W = Word
BY Widths DEF W

LEMMA Operands ==
  ASSUME \E loads \in Loads : ini \in loads
  PROVE  /\ Al0 \in 0 .. Byte - 1 /\ Ah0 \in 0 .. Byte - 1 /\ Bl0 \in 0 .. Byte - 1
         /\ ini.regs["ax"] \in 0 .. Word - 1 /\ ini.regs["bx"] \in 0 .. Word - 1
         /\ ini.regs["dx"] \in 0 .. Word - 1
         /\ Left \in Operand(W) /\ Divisor \in Operand(W)
<1>1. ini.regs \in RegFile /\ Word = Byte * Byte /\ Byte \in Nat \ {0}
  BY Loaded, Widths
<1>2. /\ ini.regs["ax"] \in 0 .. Word - 1 /\ ini.regs["bx"] \in 0 .. Word - 1
      /\ ini.regs["dx"] \in 0 .. Word - 1
  BY <1>1 DEF RegFile, Reg
<1>3. ASSUME NEW x \in 0 .. Word - 1  PROVE x % Byte \in 0 .. Byte - 1 /\ x \div Byte \in 0 .. Byte - 1
  BY <1>1, Halves
<1>4. Al0 \in 0 .. Byte - 1 /\ Ah0 \in 0 .. Byte - 1 /\ Bl0 \in 0 .. Byte - 1
  BY <1>2, <1>3 DEF Al0, Ah0, Bl0
<1>5. Left \in 0 .. 2 * W - 1 /\ Divisor \in 0 .. 2 * W - 1
  <2> HIDE DEF Al0, Bl0
  <2> QED
    BY <1>2, <1>4, WidthOf DEF Left, Divisor
<1> QED
  BY <1>2, <1>4, <1>5 DEF Operand

LEMMA Residues ==
  ASSUME NEW x \in Int
  PROVE  InDouble(x) \in 0 .. 2 * (2 * W * W) - 1
<1> DEFINE d == 2 * (2 * W * W)
<1>1. d \in Nat \ {0}
  BY WidthOf
<1> HIDE DEF d
<1>2. x % d \in 0 .. d - 1
  BY <1>1
<1> QED
  BY <1>2 DEF InDouble, d

LEMMA SignedTyped ==
  ASSUME NEW h \in Nat \ {0}, NEW a \in Operand(h)
  PROVE  Signed(h, a) \in -h .. h - 1 /\ (Signed(h, a) = 0 <=> a = 0) /\ Signed(h, a) % (2 * h) = a
<1>1. Signed(h, a) \in -h .. h - 1 /\ (Signed(h, a) = 0 <=> a = 0)
  BY DEF Operand, Signed
<1>2. a \in 0 .. 2 * h - 1 /\ 2 * h \in Nat \ {0}
  BY DEF Operand
<1>3. CASE a >= h
  <2>1. Signed(h, a) = (-1) * (2 * h) + a
    BY <1>2, <1>3 DEF Signed
  <2>2. ((-1) * (2 * h) + a) % (2 * h) = a
    BY <1>2, Reassembled
  <2> QED
    BY <1>1, <2>1, <2>2
<1>4. CASE ~(a >= h)
  <2>1. Signed(h, a) = a /\ a % (2 * h) = a
    BY <1>2, <1>4 DEF Signed
  <2> QED
    BY <1>1, <2>1
<1> QED
  BY <1>2, <1>3, <1>4

LEMMA DividendTyped ==
  ASSUME \E loads \in Loads : ini \in loads, job \in DivisionJobs
  PROVE  Dividend \in Nat
<1>1. Left \in Operand(W) /\ Divisor \in Operand(W) /\ W \in Nat \ {0}
  BY Operands, WidthOf
<1>2. Left * Divisor \in Nat
  BY <1>1 DEF Operand
<1>3. Signed(W, Left) \in Int /\ Signed(W, Divisor) \in Int
  <2>1. Signed(W, Left) \in -W .. W - 1 /\ Signed(W, Divisor) \in -W .. W - 1
    BY <1>1, SignedTyped
  <2> QED
    BY <1>1, <2>1
<1>4. InDouble(Signed(W, Left)) \in Nat /\ InDouble(Signed(W, Left) * Signed(W, Divisor)) \in Nat
  <2>1. Signed(W, Left) * Signed(W, Divisor) \in Int
    BY <1>3
  <2>2. /\ InDouble(Signed(W, Left)) \in 0 .. 2 * (2 * W * W) - 1
        /\ InDouble(Signed(W, Left) * Signed(W, Divisor)) \in 0 .. 2 * (2 * W * W) - 1
    BY <1>3, <2>1, Residues
  <2> QED
    BY <2>2
<1>5. (Digits * Ah0 + Al0) % Byte \in Nat
  <2>1. Digits * Ah0 + Al0 \in Int
    BY Operands, CpuAluAssumption, Widths
  <2> QED
    BY <2>1, Widths
<1>6. Number(ini.regs) \in Nat
  <2>1. LowOf(ini.regs) \in Nat /\ HighOf(ini.regs) \in Nat
    <3>1. CASE Wide
      BY <3>1, Operands DEF LowOf, HighOf
    <3>2. CASE ~Wide
      BY <3>2, Operands DEF LowOf, HighOf, Al0, Ah0
    <3> QED
      BY <3>1, <3>2
  <2> QED
    BY <1>1, <2>1 DEF Number
<1> QED
  BY <1>2, <1>4, <1>5, <1>6, Zenon DEF Dividend

\* What IDIV divides by.
IdivDivisor == IF Wide THEN Signed(WordSign, Divisor) ELSE Divisor

LEMMA IdivOf ==
  ASSUME \E loads \in Loads : ini \in loads, job \in {"idiv", "idiv16", "imul", "imul16"}
  PROVE  /\ Outcome = IdivBy(W, Dividend, Divisor, IdivDivisor)
         /\ IdivDivisor \in Int /\ (IdivDivisor = 0 <=> Divisor = 0)
<1>1. Divisor \in Operand(W) /\ W \in Nat \ {0} /\ (W = ByteSign <=> ~Wide)
  BY Operands, WidthOf
<1>2. Outcome = OpIdiv(W, Dividend, Divisor)
  BY DEF Outcome
<1>3. CASE Wide
  <2>1. W = WordSign /\ W # ByteSign
    BY <1>1, <1>3 DEF W
  <2>2. Signed(W, Divisor) \in -W .. W - 1 /\ (Signed(W, Divisor) = 0 <=> Divisor = 0)
    BY <1>1, SignedTyped
  <2>3. IdivDivisor = Signed(W, Divisor)
    BY <1>3, <2>1 DEF IdivDivisor
  <2>4. Outcome = IdivBy(W, Dividend, Divisor, IdivDivisor)
    BY <1>2, <2>1, <2>3 DEF OpIdiv, OpIdiv16
  <2> QED
    BY <1>1, <2>2, <2>3, <2>4
<1>4. CASE ~Wide
  <2>1. W = ByteSign
    BY <1>1, <1>4
  <2>2. IdivDivisor = Divisor
    BY <1>4 DEF IdivDivisor
  <2>3. Outcome = IdivBy(W, Dividend, Divisor, IdivDivisor)
    BY <1>2, <2>1, <2>2 DEF OpIdiv, OpIdiv8
  <2> QED
    BY <1>1, <2>2, <2>3 DEF Operand
<1> QED
  BY <1>3, <1>4

LEMMA OutcomeTyped ==
  ASSUME \E loads \in Loads : ini \in loads, job \in DivisionJobs, ~Outcome.error
  PROVE  Outcome.lo \in Operand(W) /\ Outcome.hi \in Operand(W)
<1>1. Divisor \in Operand(W) /\ W \in Nat \ {0} /\ Dividend \in Nat
  BY Operands, WidthOf, DividendTyped
<1>2. CASE job \in {"idiv", "idiv16", "imul", "imul16"}
  <2> DEFINE n == Signed(2 * W * W, Dividend)
             q == Magnitude(n) \div Magnitude(IdivDivisor)
             r == Magnitude(n) % Magnitude(IdivDivisor)
  <2>1. Outcome = IdivBy(W, Dividend, Divisor, IdivDivisor)
        /\ IdivDivisor \in Int /\ (IdivDivisor = 0 <=> Divisor = 0)
    BY <1>2, IdivOf
  <2>2. Divisor # 0
    BY <2>1 DEF IdivBy, DivError
  <2>3. q \in Int /\ r \in Int
    <3>1. n \in Int
      BY <1>1 DEF Signed
    <3>2. Magnitude(n) \in Int /\ Magnitude(IdivDivisor) \in Nat \ {0}
      <4> HIDE DEF n
      <4> QED
        BY <2>1, <2>2, <3>1 DEF Magnitude
    <3> HIDE DEF n
    <3> QED
      BY <3>2
  <2>4. Outcome = Quotient(W, q, r) \/ Outcome = Quotient(W, -q, -r)
    BY <2>1, <2>2 DEF IdivBy, DivError
  <2> HIDE DEF q, r
  <2>5. \A x \in Int : (x % (2 * W)) \in 0 .. 2 * W - 1
    BY <1>1
  <2>6. -q \in Int /\ -r \in Int
    BY <2>3
  <2> QED
    BY <2>3, <2>4, <2>5, <2>6 DEF Quotient, Operand
<1>3. CASE job \notin {"idiv", "idiv16", "imul", "imul16"}
  <2>1. Outcome = OpDiv(W, Dividend, Divisor)
    BY <1>3 DEF Outcome, DivError
  <2>2. Outcome.lo \in Operand(W) /\ Outcome.hi \in 0 .. Divisor - 1
    BY <1>1, <2>1, DivExact, Zenon
  <2> QED
    BY <1>1, <2>2 DEF Operand
<1> QED
  BY <1>2, <1>3

-----------------------------------------------------------------------------
(* The steps of the divisions *)

\* The halves of the accumulator that instructions of width W use.
LEMMA Accumulator ==
  ASSUME regs \in RegFile, I.w = W
  PROVE  /\ GetReg(Hi) = HighOf(regs) /\ GetReg(Lo) = LowOf(regs)
         /\ HighOf(regs) \in Operand(W) /\ LowOf(regs) \in Operand(W)
         /\ (IF Wide THEN GetReg("bx") ELSE GetReg("bl")) =
              (IF Wide THEN regs["bx"] ELSE regs["bx"] % Byte)
         /\ \A hi, lo \in Operand(W) :
              LET r == PutReg(PutReg(regs, Hi, hi), Lo, lo)
              IN  r \in RegFile /\ LowOf(r) = lo /\ HighOf(r) = hi /\ r.bx = regs.bx
<1>1. CASE Wide
  <2>1. I.w # ByteSign /\ Hi = "dx" /\ Lo = "ax" /\ Operand(W) = 0 .. Word - 1
    BY <1>1, WidthOf DEF Hi, Lo, Operand
  <2>2. /\ GetReg("ax") = regs["ax"] /\ GetReg("bx") = regs["bx"] /\ GetReg("dx") = regs["dx"]
        /\ regs["ax"] \in 0 .. Word - 1 /\ regs["dx"] \in 0 .. Word - 1
    BY ReadHalves DEF Reg
  <2>3. \A hi, lo \in 0 .. Word - 1 :
              LET r == PutReg(PutReg(regs, "dx", hi), "ax", lo)
              IN  r \in RegFile /\ r["ax"] = lo /\ r["dx"] = hi /\ r["bx"] = regs["bx"]
    BY PutWords
  <2> QED
    BY <1>1, <2>1, <2>2, <2>3 DEF LowOf, HighOf
<1>2. CASE ~Wide
  <2>1. I.w = ByteSign /\ Hi = "ah" /\ Lo = "al" /\ Operand(W) = 0 .. Byte - 1
    BY <1>2, WidthOf DEF Hi, Lo, Operand
  <2>2. /\ GetReg("al") = regs["ax"] % Byte /\ GetReg("ah") = regs["ax"] \div Byte
        /\ GetReg("bl") = regs["bx"] % Byte
        /\ regs["ax"] \div Byte \in 0 .. Byte - 1 /\ regs["ax"] % Byte \in 0 .. Byte - 1
    BY ReadHalves
  <2>3. \A hi, lo \in 0 .. Byte - 1 :
              LET r == PutReg(PutReg(regs, "ah", hi), "al", lo)
              IN  r \in RegFile /\ r["ax"] % Byte = lo /\ r["ax"] \div Byte = hi
                  /\ r["bx"] = regs["bx"]
    BY PutHalves
  <2> QED
    BY <1>2, <2>1, <2>2, <2>3 DEF LowOf, HighOf
<1> QED
  BY <1>1, <1>2

LEMMA DivisionIsOutcome ==
  ASSUME \E loads \in Loads : ini \in loads, job \in DivisionJobs, job # "aamzero",
         I = DivideOp, regs \in RegFile, Number(regs) = Dividend, regs.bx = ini.regs.bx
  PROVE  I.op \in {"div", "idiv"} /\ I.w = W /\ Division = Outcome
<1>1. /\ I.op = (IF job \in {"idiv", "idiv16", "imul", "imul16"} THEN "idiv" ELSE "div")
      /\ I.w = W /\ I.d = R(IF Wide THEN "bx" ELSE "bl")
  BY DEF DivideOp, I1, I2
<1>2. Value(I.d) = Divisor
  <2>1. Value(I.d) = IF Wide THEN GetReg("bx") ELSE GetReg("bl")
    BY <1>1 DEF Value, R
  <2> QED
    BY <1>1, <2>1, Accumulator DEF Divisor, Bl0
<1>3. GetReg(Hi) * 2 * I.w + GetReg(Lo) = Dividend
  <2>1. GetReg(Hi) = HighOf(regs) /\ GetReg(Lo) = LowOf(regs) /\ HighOf(regs) \in Int /\ W \in Int
    BY <1>1, Accumulator, WidthOf DEF Operand
  <2>2. HighOf(regs) * 2 * W = HighOf(regs) * (2 * W)
    BY <2>1
  <2> QED
    BY <1>1, <2>1, <2>2 DEF Number
<1>4. Division = IF I.op = "div" THEN OpDiv(I.w, Dividend, Divisor) ELSE OpIdiv(I.w, Dividend, Divisor)
  BY <1>2, <1>3 DEF Division, Is
<1>5. Outcome = IF job \in {"idiv", "idiv16", "imul", "imul16"} THEN OpIdiv(W, Dividend, Divisor)
                ELSE OpDiv(W, Dividend, Divisor)
  BY DEF Outcome
<1> QED
  BY <1>1, <1>4, <1>5

\* The division itself: it is done, or it traps.
LEMMA DivideStep ==
  ASSUME \E loads \in Loads : ini \in loads, job \in DivisionJobs,
         CpuTypeOK, Next, ~Irq, segs = Segments, stack = << >>, calls = << >>,
         ip = DivideAt, Number(regs) = Dividend, regs.bx = ini.regs.bx,
         DivideAt = 12 => regs = ini.regs, mem = ini.mem, CarryOfMul(flags)
  PROVE  \/ /\ Stays /\ ip' = DivideAt + 1 /\ regs' \in RegFile /\ flags' = flags /\ mem' = ini.mem
            /\ ~Outcome.error /\ LowOf(regs') = Outcome.lo /\ HighOf(regs') = Outcome.hi
         \/ Outcome.error /\ DivideTrap
<1>1. /\ regs \in RegFile /\ I = DivideOp
  <2>1. Paragraph \in Nat /\ DivideAt \in 12 .. 13 /\ code[DivideAt] = DivideOp
    BY Loaded, DivisionCode
  <2> QED
    BY <2>1, InFront DEF CpuTypeOK
<1>2. CASE job = "aamzero"
  <2>1. I.op = "aam" /\ I.base = 0
    BY <1>1, <1>2 DEF DivideOp, I0, I1, I2
  <2>2. Outcome.error
    BY <1>2 DEF Outcome, DivError
  <2> QED
    BY <2>1, <2>2, AamTraps
<1>3. CASE job # "aamzero"
  <2>1. I.op \in {"div", "idiv"} /\ I.w = W /\ Division = Outcome
    BY <1>1, <1>3, DivisionIsOutcome
  <2>2. CASE /\ ~Division.error /\ Stays /\ ip' = ip + 1 /\ UNCHANGED <<flags, mem>>
             /\ regs' = PutReg(PutReg(regs, Hi, Division.hi), Lo, Division.lo)
    <3>1. ~Outcome.error /\ Outcome.lo \in Operand(W) /\ Outcome.hi \in Operand(W)
      BY <2>1, <2>2, OutcomeTyped
    <3>2. regs' = PutReg(PutReg(regs, Hi, Outcome.hi), Lo, Outcome.lo)
      BY <2>1, <2>2, Zenon
    <3> DEFINE r == PutReg(PutReg(regs, Hi, Outcome.hi), Lo, Outcome.lo)
    <3>3. r \in RegFile /\ LowOf(r) = Outcome.lo /\ HighOf(r) = Outcome.hi
      BY <1>1, <2>1, <3>1, Accumulator
    <3> QED
      BY <2>2, <3>1, <3>2, <3>3
  <2>3. CASE Division.error /\ DivideTrap
    BY <2>1, <2>3
  <2> QED
    BY <2>1, <2>2, <2>3, DivDivides
<1> QED
  BY <1>2, <1>3

\* A number with its sign extended.
LEMMA SignExtended ==
  ASSUME NEW h \in Nat \ {0}, NEW a \in Operand(h)
  PROVE  (IF a >= h THEN 2 * h - 1 ELSE 0) * (2 * h) + a = Signed(h, a) % (2 * (2 * h * h))
<1> DEFINE d == 2 * (2 * h * h)
<1>1. a \in 0 .. 2 * h - 1 /\ d \in Nat \ {0}
  BY DEF Operand
<1>2. d = (2 * h) * (2 * h) /\ 2 * h <= (2 * h) * (2 * h)
  <2>1. 2 * h \in Nat \ {0}
    OBVIOUS
  <2>2. d = 4 * (h * h) /\ (2 * h) * (2 * h) = 4 * (h * h)
    OBVIOUS
  <2> HIDE DEF d
  <2> QED
    BY <2>1, <2>2
<1> HIDE DEF d
<1>3. CASE a >= h
  <2>1. (2 * h - 1) * (2 * h) + a = d - 2 * h + a
    BY <1>1, <1>2
  <2> DEFINE v == d - 2 * h + a
  <2>2. v \in 0 .. d - 1 /\ Signed(h, a) = (-1) * d + v
    BY <1>1, <1>2, <1>3 DEF Signed
  <2> HIDE DEF v
  <2>3. ((-1) * d + v) % d = v
    BY <1>1, <2>2, Reassembled
  <2> QED
    BY <1>3, <2>1, <2>2, <2>3 DEF d, v
<1>4. CASE ~(a >= h)
  <2>1. Signed(h, a) = a /\ a \in 0 .. d - 1
    BY <1>1, <1>2, <1>4 DEF Signed
  <2>2. a % d = a
    BY <1>1, <2>1
  <2>3. 0 * (2 * h) + a = a
    BY <1>1
  <2> QED
    BY <1>4, <2>1, <2>2, <2>3 DEF d
<1> QED
  BY <1>3, <1>4

\* The residue of a number from its signed value.
LEMMA FromSigned ==
  ASSUME NEW w \in Nat \ {0}, NEW n \in 0 .. 2 * w - 1
  PROVE  n = Signed(w, n) % (2 * w)
<1>1. n \in Operand(w)
  BY DEF Operand
<1> QED
  BY <1>1, SignedTyped

\* Two halves are less than the square of their size.
LEMMA TwoHalves ==
  ASSUME NEW h \in Nat \ {0}, NEW hi \in Operand(h), NEW lo \in Operand(h)
  PROVE  hi * (2 * h) + lo \in 0 .. 2 * (2 * h * h) - 1
<1> DEFINE d == 2 * h
<1>1. d \in Nat \ {0} /\ hi \in 0 .. d - 1 /\ lo \in 0 .. d - 1
  BY DEF Operand
<1>2. 2 * (2 * h * h) = d * d
  <2>1. 2 * (2 * h * h) = 4 * (h * h) /\ (2 * h) * (2 * h) = 4 * (h * h)
    OBVIOUS
  <2> QED
    BY <2>1
<1> HIDE DEF d
<1>3. hi * d >= 0 /\ hi * d <= (d - 1) * d /\ hi * d \in Int /\ (d - 1) * d = d * d - d /\ d * d \in Int
  BY <1>1
<1>4. hi * d + lo \in 0 .. d * d - 1
  BY <1>1, <1>3
<1> QED
  BY <1>2, <1>4 DEF d

LEMMA PrepareMultiplies ==
  ASSUME \E loads \in Loads : ini \in loads, job \in {"mul", "mul16", "imul", "imul16"},
         regs = ini.regs, regs \in RegFile, flags \in Flags, Next, ~Irq, I = PrepareOp
  PROVE  /\ Stays /\ mem' = mem /\ ip' = ip + 1 /\ regs' \in RegFile /\ flags' \in Flags
         /\ Number(regs') = Dividend /\ regs'.bx = ini.regs.bx /\ CarryOfMul(flags')
<1> DEFINE r == IF I.op = "mul" THEN OpMul(flags, I.w, Value(I.d), GetReg(Lo))
                ELSE OpImul(flags, I.w, GetReg(Lo), Value(I.d))
           rs == PutReg(PutReg(regs, Hi, r.hi), Lo, r.lo)
<1>1. /\ I.op = (IF job \in {"imul", "imul16"} THEN "imul" ELSE "mul")
      /\ I.w = W /\ I.d = R(IF Wide THEN "bx" ELSE "bl")
  BY DEF PrepareOp, I1, I2
<1>2. /\ Stays /\ mem' = mem /\ ip' = ip + 1 /\ flags' = r.f /\ regs' = rs
  BY <1>1, MulMultiplies
<1>3. Value(I.d) = Divisor /\ GetReg(Lo) = Left
  <2>1. Value(I.d) = IF Wide THEN GetReg("bx") ELSE GetReg("bl")
    BY <1>1 DEF Value, R
  <2> QED
    BY <1>1, <2>1, Accumulator DEF Divisor, Bl0, Left, Al0, LowOf
<1>4. /\ Left \in Operand(W) /\ Divisor \in Operand(W) /\ W \in Nat \ {0}
      /\ Left \in Int /\ Divisor \in Int
  BY Operands, WidthOf DEF Operand
<1>5. /\ r.lo \in Operand(W) /\ r.hi \in Operand(W) /\ r.f \in Flags
      /\ r.hi * (2 * W) + r.lo = Dividend /\ CarryOfMul(r.f)
  <2>1. CASE job \in {"mul", "mul16"}
    <3>1. r = OpMul(flags, W, Divisor, Left)
      BY <1>1, <1>3, <2>1
    <3>2. /\ r.lo \in Operand(W) /\ r.hi \in Operand(W)
          /\ 2 * W * r.hi + r.lo = Divisor * Left
          /\ r.f.cf = Flag(Divisor * Left >= 2 * W)
      <4> DEFINE s == OpMul(flags, W, Divisor, Left)
      <4>1. /\ s.lo \in Operand(W) /\ s.hi \in Operand(W)
            /\ 2 * W * s.hi + s.lo = Divisor * Left
            /\ s.f.cf = Flag(Divisor * Left >= 2 * W)
        BY <1>4, MulExact
      <4>2. r = s
        BY <3>1
      <4> HIDE DEF r, s
      <4> QED
        BY <4>1, <4>2, Zenon
    <3>3. r.f \in Flags
      BY <1>4, <3>1, MulTyped, Zenon
    <3>4. Divisor * Left = Left * Divisor /\ Dividend = Left * Divisor
      BY <1>4, <2>1 DEF Dividend
    <3>5. 2 * W * r.hi = r.hi * (2 * W)
      <4> HIDE DEF r
      <4>1. r.hi \in Int
        BY <3>2 DEF Operand
      <4> QED
        BY <1>4, <4>1
    <3>6. CarryOfMul(r.f)
      <4>1. job = "mul" => Left = Al0 /\ Divisor = Bl0 /\ 2 * W = Byte
        BY WidthOf DEF Left, Divisor, Wide
      <4> HIDE DEF r
      <4> QED
        BY <3>2, <3>4, <4>1 DEF CarryOfMul
    <3> HIDE DEF r
    <3> QED
      BY <3>2, <3>3, <3>4, <3>5, <3>6
  <2>2. CASE job \in {"imul", "imul16"}
    <3>1. r = OpImul(flags, W, Left, Divisor)
      BY <1>1, <1>3, <2>2
    <3>2. /\ r.lo \in Operand(W) /\ r.hi \in Operand(W)
          /\ Signed(2 * W * W, 2 * W * r.hi + r.lo) = Signed(W, Left) * Signed(W, Divisor)
      <4> DEFINE s == OpImul(flags, W, Left, Divisor)
      <4>1. /\ s.lo \in Operand(W) /\ s.hi \in Operand(W)
            /\ Signed(2 * W * W, 2 * W * s.hi + s.lo) = Signed(W, Left) * Signed(W, Divisor)
        BY <1>4, ImulExact
      <4>2. r = s
        BY <3>1
      <4> HIDE DEF r, s
      <4> QED
        BY <4>1, <4>2, Zenon
    <3>3. r.f \in Flags
      BY <1>4, <3>1, MulTyped, Zenon
    <3> DEFINE n == r.hi * (2 * W) + r.lo
    <3>4. Dividend = InDouble(Signed(W, Left) * Signed(W, Divisor))
      BY <2>2 DEF Dividend
    <3>5. 2 * W * r.hi + r.lo = n
      <4> HIDE DEF r
      <4>1. r.hi \in Int
        BY <3>2 DEF Operand
      <4>2. 2 * W * r.hi = r.hi * (2 * W)
        BY <1>4, <4>1
      <4> QED
        BY <4>2
    <3>6. n \in 0 .. 2 * (2 * W * W) - 1
      BY <1>4, <3>2, TwoHalves
    <3> HIDE DEF r, n
    <3>7. n = Signed(2 * W * W, n) % (2 * (2 * W * W))
      <4>1. 2 * W * W \in Nat \ {0}
        BY <1>4
      <4> QED
        BY <3>6, <4>1, FromSigned
    <3>8. n = Dividend
      BY <3>2, <3>4, <3>5, <3>7 DEF InDouble
    <3>9. CarryOfMul(r.f)
      BY <2>2 DEF CarryOfMul
    <3> QED
      BY <3>2, <3>3, <3>8, <3>9 DEF n
  <2> QED
    BY <2>1, <2>2
<1> HIDE DEF r
<1>6. rs \in RegFile /\ LowOf(rs) = r.lo /\ HighOf(rs) = r.hi /\ rs.bx = regs.bx
  BY <1>1, <1>5, Accumulator
<1> HIDE DEF rs
<1> QED
  BY <1>2, <1>5, <1>6 DEF Number

LEMMA PrepareExtends ==
  ASSUME \E loads \in Loads : ini \in loads, job \in {"idiv", "idiv16"},
         regs = ini.regs, regs \in RegFile, flags \in Flags, Next, ~Irq, I = PrepareOp
  PROVE  /\ Stays /\ mem' = mem /\ ip' = ip + 1 /\ regs' \in RegFile /\ flags' \in Flags
         /\ Number(regs') = Dividend /\ regs'.bx = ini.regs.bx /\ CarryOfMul(flags')
<1>1. I.op = IF job = "idiv" THEN "cbw" ELSE "cwd"
  BY DEF PrepareOp, I0, I1, I2
<1>2. /\ Stays /\ UNCHANGED <<flags, mem>> /\ ip' = ip + 1
      /\ regs' = IF I.op = "cbw"
                 THEN PutReg(regs, "ah", IF Bit(GetReg("al"), ByteSign) = 1 THEN Byte - 1 ELSE 0)
                 ELSE PutReg(regs, "dx", IF Bit(GetReg("ah"), ByteSign) = 1 THEN Word - 1 ELSE 0)
  BY <1>1, Extends
<1>3. CarryOfMul(flags') /\ flags' \in Flags
  BY <1>2 DEF CarryOfMul
<1> DEFINE hi == IF Left >= W THEN 2 * W - 1 ELSE 0
<1>4. hi * (2 * W) + Left = Dividend /\ hi \in Operand(W)
  <2>1. Left \in Operand(W) /\ W \in Nat \ {0}
    BY Operands, WidthOf
  <2>2. hi * (2 * W) + Left = Signed(W, Left) % (2 * (2 * W * W))
    BY <2>1, SignExtended
  <2>3. Dividend = InDouble(Signed(W, Left))
    BY DEF Dividend
  <2> QED
    BY <2>1, <2>2, <2>3 DEF InDouble, Operand
<1>5. CASE job = "idiv"
  <2>1. /\ ~Wide /\ W = ByteSign /\ 2 * W = Byte /\ Left = Al0
    BY <1>5, WidthOf DEF Wide, Left
  <2>2. GetReg("al") = Al0 /\ Al0 \in Operand(ByteSign) /\ ByteSign \in Nat \ {0}
    BY Operands, ReadHalves, Widths DEF Al0, Operand
  <2>3. Bit(GetReg("al"), ByteSign) = IF Left >= W THEN 1 ELSE 0
    BY <2>1, <2>2, SignBit
  <2>4. regs' = PutReg(regs, "ah", hi)
    BY <1>1, <1>2, <1>5, <2>1, <2>3
  <2> HIDE DEF hi
  <2>5. hi \in 0 .. Byte - 1
    BY <1>4, <2>1 DEF Operand
  <2>6. /\ regs' = [regs EXCEPT !["ax"] = hi * Byte + (regs["ax"] % Byte)]
        /\ regs["ax"] % Byte \in 0 .. Byte - 1
    BY <2>4, <2>5, PutHigh
  <2>7. regs["ax"] % Byte = Al0
    BY DEF Al0
  <2>8. /\ hi * Byte + Al0 \in 0 .. Word - 1
        /\ (hi * Byte + Al0) % Byte = Al0 /\ (hi * Byte + Al0) \div Byte = hi
    BY <2>5, <2>6, <2>7, HalvesOf
  <2>9. /\ regs' \in RegFile /\ regs'["ax"] = hi * Byte + Al0 /\ regs'["bx"] = regs["bx"]
    BY <2>6, <2>7, <2>8 DEF RegFile, Reg
  <2>10. LowOf(regs') = Al0 /\ HighOf(regs') = hi
    BY <2>1, <2>8, <2>9 DEF LowOf, HighOf
  <2> QED
    BY <1>2, <1>3, <1>4, <2>1, <2>9, <2>10 DEF Number
<1>6. CASE job = "idiv16"
  <2>1. /\ Wide /\ W = WordSign /\ 2 * W = Word /\ Left = ini.regs["ax"]
    BY <1>6, WidthOf DEF Wide, Left, W
  <2> DEFINE x == ini.regs["ax"]
  <2>2. GetReg("ah") = x \div Byte /\ x \div Byte \in Operand(ByteSign) /\ x \in 0 .. Word - 1
    BY Operands, ReadHalves, Widths DEF Operand
  <2>3. x \div Byte >= ByteSign <=> x >= WordSign
    <3> HIDE DEF x
    <3>0. x \in Int /\ Byte \in Nat \ {0} /\ ByteSign \in Int
      BY <2>2, Widths
    <3>1. x \div Byte \in Int /\ x % Byte \in 0 .. Byte - 1 /\ x = Byte * (x \div Byte) + (x % Byte)
      BY <3>0, Quotients
    <3>2. x \div Byte >= ByteSign <=> Byte * (x \div Byte) + (x % Byte) >= Byte * ByteSign
      BY <3>0, <3>1, QuotientBound, Zenon
    <3>3. Byte * ByteSign = WordSign
      BY Widths DEF WordSign
    <3> QED
      BY <3>1, <3>2, <3>3
  <2>4. Bit(GetReg("ah"), ByteSign) = IF Left >= W THEN 1 ELSE 0
    <3>1. Bit(x \div Byte, ByteSign) = IF x \div Byte >= ByteSign THEN 1 ELSE 0
      BY <2>2, Widths, SignBit
    <3> QED
      BY <2>1, <2>2, <2>3, <3>1
  <2>5. regs' = PutReg(regs, "dx", hi)
    BY <1>1, <1>2, <1>6, <2>1, <2>4
  <2> HIDE DEF hi
  <2>6. hi \in 0 .. Word - 1
    BY <1>4, <2>1 DEF Operand
  <2>7. /\ regs' \in RegFile /\ regs'["ax"] = regs["ax"] /\ regs'["dx"] = hi
        /\ regs'["bx"] = regs["bx"]
    BY <2>5, <2>6 DEF PutReg, RegFile, Reg
  <2>8. LowOf(regs') = Left /\ HighOf(regs') = hi
    BY <2>1, <2>7 DEF LowOf, HighOf
  <2> QED
    BY <1>2, <1>3, <1>4, <2>1, <2>7, <2>8 DEF Number
<1> QED
  BY <1>5, <1>6

LEMMA PrepareAdjusts ==
  ASSUME \E loads \in Loads : ini \in loads, job = "aad",
         regs = ini.regs, regs \in RegFile, flags \in Flags, Next, ~Irq, I = PrepareOp
  PROVE  /\ Stays /\ mem' = mem /\ ip' = ip + 1 /\ regs' \in RegFile /\ flags' \in Flags
         /\ Number(regs') = Dividend /\ regs'.bx = ini.regs.bx /\ CarryOfMul(flags')
<1>1. I.op = "aad" /\ I.base = Digits
  BY DEF PrepareOp, I0, I1, I2
<1> DEFINE r == OpAad(flags, regs.ax, Digits)
<1>2. /\ Stays /\ mem' = mem /\ ip' = ip + 1 /\ regs' = [regs EXCEPT !["ax"] = r.v]
      /\ flags' = r.f
  BY <1>1, AadAdjusts
<1>3. /\ r.f \in Flags /\ r.v = (Ah0 * Digits + Al0) % Byte /\ r.v \in 0 .. Byte - 1
  <2>1. regs.ax \in Nat
    BY Operands
  <2>2. /\ r.f \in Flags /\ r.v = ((regs.ax \div Byte) * Digits + (regs.ax % Byte)) % Byte
        /\ r.v \in 0 .. Byte - 1
    BY <2>1, AadTyped
  <2> HIDE DEF r
  <2> QED
    BY <2>2 DEF Ah0, Al0
<1> HIDE DEF r
<1>4. r.v = Dividend
  <2>1. Ah0 * Digits = Digits * Ah0
    BY Operands, CpuAluAssumption
  <2> QED
    BY <1>3, <2>1 DEF Dividend
<1>5. r.v \in 0 .. Word - 1 /\ r.v % Byte = r.v /\ r.v \div Byte = 0
  <2> DEFINE v == r.v
  <2>1. Byte \in Nat \ {0} /\ Byte <= Word
    <3>1. Byte \in Nat \ {0} /\ Word = Byte * Byte
      BY Widths
    <3> QED
      BY <3>1
  <2>2. v \in 0 .. Byte - 1
    BY <1>3
  <2> HIDE DEF v
  <2>3. v % Byte = v /\ v \div Byte = 0 /\ v \in 0 .. Word - 1
    <3>1. v % Byte = v
      BY <2>1, <2>2
    <3>2. v \div Byte = 0
      BY <2>1, <2>2
    <3> QED
      BY <2>1, <2>2, <3>1, <3>2, Widths
  <2> QED
    BY <2>3 DEF v
<1>6. regs' \in RegFile /\ regs'["ax"] = r.v /\ regs'["bx"] = regs["bx"]
  BY <1>2, <1>5 DEF RegFile, Reg
<1>7. LowOf(regs') = r.v /\ HighOf(regs') = 0
  BY <1>5, <1>6 DEF LowOf, HighOf, Wide
<1>8. Number(regs') = r.v
  <2>1. 0 * (2 * W) = 0 /\ r.v \in Int
    BY <1>5, WidthOf
  <2> QED
    BY <1>7, <2>1 DEF Number
<1>9. CarryOfMul(flags')
  BY DEF CarryOfMul
<1> QED
  BY <1>2, <1>3, <1>4, <1>6, <1>8, <1>9

-----------------------------------------------------------------------------
(* The invariant of the divisions holds *)

\* What is said of a division depends on the load, which no step changes.
LEMMA SameDivision ==
  ASSUME ini' = ini
  PROVE  /\ job' = job /\ W' = W /\ DivideAt' = DivideAt /\ Dividend' = Dividend /\ Outcome' = Outcome
         /\ \A rs : LowOf(rs)' = LowOf(rs) /\ HighOf(rs)' = HighOf(rs)
         /\ \A f : CarryOfMul(f)' <=> CarryOfMul(f)
<1>1. job' = job /\ ini.regs' = ini.regs
  BY DEF job
<1>2. Wide' = Wide /\ DivideAt' = DivideAt /\ Al0' = Al0 /\ Ah0' = Ah0 /\ Bl0' = Bl0
  BY <1>1 DEF Wide, DivideAt, Al0, Ah0, Bl0
<1>3. W' = W /\ Left' = Left /\ Divisor' = Divisor
  BY <1>1, <1>2 DEF W, Left, Divisor
<1>4. \A rs : LowOf(rs)' = LowOf(rs) /\ HighOf(rs)' = HighOf(rs)
  BY <1>2 DEF LowOf, HighOf
<1>5. Number(ini.regs)' = Number(ini.regs) /\ \A x : InDouble(x)' = InDouble(x)
  BY <1>1, <1>2, <1>3 DEF Number, InDouble, LowOf, HighOf
<1>6. Dividend' = Dividend
  BY <1>1, <1>2, <1>3, <1>5 DEF Dividend, InDouble
<1>7. Outcome' = Outcome
  BY <1>1, <1>3, <1>6 DEF Outcome
<1>8. \A f : CarryOfMul(f)' <=> CarryOfMul(f)
  BY <1>1, <1>2 DEF CarryOfMul
<1> QED
  BY <1>1, <1>2, <1>3, <1>4, <1>6, <1>7, <1>8

\* The state of a division seen from the state before a step.
LEMMA NextDivision ==
  ASSUME ini' = ini, NEW p, NEW rs, NEW f, NEW m,
         GuestIp' = p, GuestRegs' = rs, GuestFlags' = f, mem' = m, DivisionState(p, rs, f, m)
  PROVE  DivisionState(GuestIp, GuestRegs, GuestFlags, mem)'
<1> HIDE DEF GuestIp, GuestRegs, GuestFlags
<1> QED
  BY SameDivision DEF DivisionState, Number

LEMMA TrapBegins ==
  ASSUME \E loads \in Loads : ini \in loads, job \in DivisionJobs,
         CpuTypeOK, segs = Segments, stack = << >>, calls = << >>,
         ip = DivideAt, DivideAt = 12 => regs = ini.regs, mem = ini.mem, CarryOfMul(flags),
         Outcome.error, DivideTrap
  PROVE  CpuTypeOK' /\ Handling' /\ Trapped'
<1> DEFINE c == [ip |-> ip + 1, segs |-> segs, stack |-> stack, irq |-> FALSE,
                 regs |-> regs, flags |-> flags]
           w == MakeFlagsWord(flags)
<1>1. /\ stack' = <<ip + 1, segs.cs, w>> \o stack
      /\ ip' = 6 - 2 * Paragraph /\ segs' = [segs EXCEPT !.cs = 2]
      /\ flags' = [flags EXCEPT !.ifl = 0] /\ calls' = <<c>> \o calls
      /\ UNCHANGED <<ini, regs, mem>>
  BY DEF DivideTrap
<1>2. /\ ip + 1 \in Int /\ segs.cs = 0 /\ segs.cs \in Int /\ w \in Int /\ stack \in Seq(Int)
      /\ ip + 1 = DivideAt + 1 /\ Paragraph \in Int /\ flags \in Flags
  BY FlagsWordTyped, Loaded DEF CpuTypeOK, Segments
<1>3. c \in Frame /\ ~c.irq
  BY <1>2 DEF CpuTypeOK, Frame
<1> HIDE DEF c, w
<1>4. /\ calls' \in Seq(Frame) /\ Len(calls') = Len(calls) + 1 /\ calls' # << >>
      /\ calls'[1] = c /\ Tail(calls') = calls
  BY <1>1, <1>3, OneOnTop DEF CpuTypeOK
<1>5. stack' \in Seq(Int)
  BY <1>1, <1>2, ThreeOnTop
<1>6. CpuTypeOK'
  <2>1. segs' \in Selectors
    BY <1>1 DEF CpuTypeOK, Selectors
  <2>2. flags' \in Flags
    BY <1>1, <1>2 DEF Flags
  <2>3. ip' \in Int /\ regs' \in RegFile
    BY <1>1, <1>2 DEF CpuTypeOK
  <2> QED
    BY <1>4, <1>5, <2>1, <2>2, <2>3 DEF CpuTypeOK
<1>7. Handling'
  <2>1. Len(calls') = 1
    BY <1>4
  <2>2. ~Interrupted'
    BY <1>3, <1>4 DEF Interrupted
  <2> QED
    BY <2>1, <2>2 DEF Handling
<1>8. Trapped'
  <2>1. segs' = [Segments EXCEPT !.cs = 2]' /\ flags'.ifl = 0
    BY <1>1, <1>2 DEF Segments, Flags
  <2>2. CarryOfMul(flags) /\ stack' = <<DivideAt + 1, 0, w>> \o << >>
    BY <1>1, <1>2
  <2>3. /\ Outcome' = Outcome /\ DivideAt' = DivideAt /\ \A f : CarryOfMul(f)' <=> CarryOfMul(f)
    BY <1>1, SameDivision
  <2>4. (\E g \in Flags : CarryOfMul(g) /\ stack = <<DivideAt + 1, 0, MakeFlagsWord(g)>> \o << >>)'
    BY <1>2, <2>2, <2>3 DEF w
  <2> QED
    BY <1>1, <1>3, <1>4, <2>1, <2>3, <2>4 DEF Trapped
<1> QED
  BY <1>6, <1>7, <1>8

LEMMA TrapStep ==
  ASSUME \E loads \in Loads : ini \in loads, job \in DivisionJobs, CpuTypeOK, Trapped, Next
  PROVE  /\ CpuTypeOK' /\ Handling'
         /\ \/ Trapped'
            \/ /\ (GuestSegs = Segments)' /\ (GuestStack = << >>)' /\ (GuestCalls = << >>)'
               /\ DivisionState(GuestIp, GuestRegs, GuestFlags, mem)'
<1>1. /\ Outcome.error /\ segs = [Segments EXCEPT !.cs = 2] /\ flags.ifl = 0
      /\ calls # << >> /\ ~calls[1].irq /\ Tail(calls) = << >>
      /\ DivideAt = 12 => regs = ini.regs
      /\ \/ ip = 6 - 2 * Paragraph /\ mem = ini.mem
         \/ ip = 7 - 2 * Paragraph /\ mem[MarkAt] = 1
  BY DEF Trapped
<1>2. PICK g \in Flags : CarryOfMul(g) /\ stack = <<DivideAt + 1, 0, MakeFlagsWord(g)>> \o << >>
  BY DEF Trapped
<1>3. /\ DivideAt \in 12 .. 13 /\ code[6] = I2("mov", b8, At(MarkAt), N(1)) /\ code[7] = I0("iret")
      /\ Paragraph \in Nat \ {0} /\ MarkAt \in 0 .. MarkAt /\ MarkAt < Word
      /\ ini.mem \in [0 .. MarkAt -> 0 .. Byte - 1]
  BY Loaded, DivisionCode
<1>4. ~Irq /\ ini' = ini /\ segs.ds = 0 /\ segs.cs = 2
  BY <1>1, IniStays, Requested DEF Segments
<1>5. /\ Outcome' = Outcome /\ DivideAt' = DivideAt /\ \A f : CarryOfMul(f)' <=> CarryOfMul(f)
  BY <1>4, SameDivision
<1>6. CASE ip = 6 - 2 * Paragraph /\ mem = ini.mem
  <2>1. I = I2("mov", b8, At(MarkAt), N(1))
    <3>1. 2 * Paragraph + ip = 6
      BY <1>3, <1>6
    <3> QED
      BY <1>3, <1>4, <3>1 DEF I
  <2>2. /\ Stays /\ UNCHANGED <<regs, flags>> /\ ip' = ip + 1
        /\ mem' = WriteMem(ByteSign, MarkAt, 1)
    BY <1>4, <2>1, TrapMarks
  <2>3. mem'[MarkAt] = 1 /\ ip' = 7 - 2 * Paragraph /\ ip' \in Int
    <3>1. 1 % Byte = 1
      BY Widths
    <3>2. MarkAt \in DOMAIN mem
      BY <1>3, <1>6
    <3>3. mem'[MarkAt] = 1
      BY <2>2, <3>1, <3>2 DEF WriteMem
    <3> QED
      BY <1>3, <1>6, <2>2, <3>3
  <2>4. CpuTypeOK' /\ Handling'
    <3>1. calls' = calls /\ ~Interrupted' /\ Len(calls') = 1
      <4>1. calls \in Seq(Frame) /\ Len(Tail(calls)) = 0
        BY <1>1 DEF CpuTypeOK
      <4> QED
        BY <1>1, <2>2, <4>1 DEF Stays, Interrupted
    <3> QED
      BY <2>2, <2>3, <3>1 DEF CpuTypeOK, Handling, Stays
  <2>5. Trapped'
    <3>1. segs' = [Segments EXCEPT !.cs = 2]' /\ calls' = calls /\ stack' = stack
      BY <1>1, <2>2 DEF Segments, Stays
    <3>2. (\E f \in Flags : CarryOfMul(f) /\ stack = <<DivideAt + 1, 0, MakeFlagsWord(f)>> \o << >>)'
      BY <1>2, <1>5, <3>1
    <3> QED
      BY <1>1, <1>4, <1>5, <2>2, <2>3, <3>1, <3>2 DEF Trapped
  <2> QED
    BY <2>4, <2>5
<1>7. CASE ip = 7 - 2 * Paragraph /\ mem[MarkAt] = 1
  <2>1. I = I0("iret")
    <3>1. 2 * Paragraph + ip = 7
      BY <1>3, <1>7
    <3> QED
      BY <1>3, <1>4, <3>1 DEF I
  <2>2. /\ ip' = Head(stack) /\ segs' = [segs EXCEPT !.cs = stack[2]]
        /\ flags' = DecodeFlagsWord(stack[3]) /\ stack' = Below(stack, 3) /\ calls' = Tail(calls)
        /\ UNCHANGED <<ini, regs, mem>>
    BY <1>4, <2>1, IretBack
  <2>3. /\ Head(stack) = DivideAt + 1 /\ stack[2] = 0 /\ stack[3] = MakeFlagsWord(g)
        /\ Below(stack, 3) = << >>
    <3> DEFINE a == DivideAt + 1
               z == 0
               w == MakeFlagsWord(g)
               e == << >>
               t == <<a, z, w>> \o e
    <3> DEFINE T == {a, z, w}
    <3>1. a \in T /\ z \in T /\ w \in T /\ e \in Seq(T)
      OBVIOUS
    <3>2. stack = t
      BY <1>2
    <3> HIDE DEF a, z, w, e, T
    <3>3. Head(t) = a /\ t[2] = z /\ t[3] = w /\ Below(t, 3) = e
      BY <3>1, ThreeOnTop
    <3> HIDE DEF t
    <3>4. Head(stack) = a /\ stack[2] = z /\ stack[3] = w /\ Below(stack, 3) = e
      BY <3>2, <3>3, Zenon
    <3> QED
      BY <3>4 DEF a, z, w, e
  <2>4. /\ ip' = DivideAt + 1 /\ segs' = Segments' /\ flags' = g /\ stack' = << >> /\ calls' = << >>
    BY <1>1, <2>2, <2>3, FlagsWordKeeps DEF Segments
  <2>5. CpuTypeOK' /\ Handling' /\ ~Interrupted'
    <3>1. segs' \in Selectors /\ ip' \in Int
      BY <1>3, <2>4 DEF Selectors, Segments
    <3>2. stack' \in Seq(Int) /\ calls' \in Seq(Frame) /\ Len(calls') = 0 /\ calls' = << >>
      BY <2>4
    <3>3. regs' \in RegFile /\ flags' \in Flags
      BY <2>2, <2>4 DEF CpuTypeOK
    <3>4. ~Interrupted'
      BY <3>2 DEF Interrupted
    <3>5. Handling'
      BY <3>2, <3>4 DEF Handling
    <3> QED
      BY <3>1, <3>2, <3>3, <3>4, <3>5 DEF CpuTypeOK
  <2>6. /\ (GuestSegs = Segments)' /\ (GuestStack = << >>)' /\ (GuestCalls = << >>)'
        /\ GuestIp' = DivideAt + 1 /\ GuestRegs' = regs /\ GuestFlags' = g
    BY <2>2, <2>4, <2>5 DEF GuestSegs, GuestStack, GuestCalls, GuestIp, GuestRegs, GuestFlags
  <2>7. DivisionState(DivideAt + 1, regs, g, mem)
    BY <1>1, <1>2, <1>7 DEF DivisionState
  <2>8. DivisionState(GuestIp, GuestRegs, GuestFlags, mem)'
    BY <1>4, <2>2, <2>6, <2>7, NextDivision
  <2> QED
    BY <2>5, <2>6, <2>8
<1> QED
  BY <1>1, <1>6, <1>7

LEMMA DivisionsInit == Init => DivisionInv
<1> SUFFICES ASSUME Init  PROVE DivisionInv
  OBVIOUS
<1>1. /\ \E loads \in Loads : ini \in loads
      /\ regs = ini.regs /\ mem = ini.mem /\ ip = ini.ip /\ segs = ini.seg
      /\ stack = << >> /\ calls = << >>
  BY DEF Init
<1>2. flags \in Flags
  BY DEF Init, Flags
<1>3. WellLoaded(ini) /\ ini.regs \in RegFile /\ ini.seg = Segments
  BY <1>1, Loaded
<1>4. ip = 12
  BY <1>1, <1>3 DEF WellLoaded, Entry, Handlers
<1>5. CpuTypeOK
  <2>1. segs \in Selectors
    BY <1>1, <1>3 DEF Segments, Selectors
  <2> QED
    BY <1>1, <1>2, <1>3, <1>4, <2>1 DEF CpuTypeOK
<1>6. ~Interrupted /\ Handling
  BY <1>1 DEF Interrupted, Handling
<1>7. DivisionState(ip, regs, flags, mem)
  BY <1>1, <1>4 DEF DivisionState
<1>8. /\ GuestSegs = Segments /\ GuestStack = << >> /\ GuestCalls = << >>
      /\ GuestIp = ip /\ GuestRegs = regs /\ GuestFlags = flags
  BY <1>1, <1>3, <1>6 DEF GuestIp, GuestSegs, GuestStack, GuestRegs, GuestFlags, GuestCalls
<1>9. DivisionState(GuestIp, GuestRegs, GuestFlags, mem)
  BY <1>7, <1>8
<1> QED
  BY <1>1, <1>5, <1>6, <1>8, <1>9 DEF DivisionInv

\* A step of the guest between its interrupts, outside the handler of errors.
LEMMA DivisionGoesOn ==
  ASSUME \E loads \in Loads : ini \in loads, job \in DivisionJobs, CpuTypeOK,
         segs = Segments, stack = << >>, calls = << >>, Next, ~Irq,
         DivisionState(ip, regs, flags, mem)
  PROVE  \/ /\ Stays /\ ip' \in Int /\ regs' \in RegFile /\ flags' \in Flags
            /\ DivisionState(ip', regs', flags', mem')
         \/ CpuTypeOK' /\ Handling' /\ Trapped'
<1>1. /\ regs \in RegFile /\ flags \in Flags /\ ip \in Int /\ Paragraph \in Nat
      /\ DivideAt \in 12 .. 13 /\ code[DivideAt + 1] = Halt
      /\ DivideAt = 13 => code[12] = PrepareOp
  BY Loaded, DivisionCode DEF CpuTypeOK
<1>2. I = code[ip]
  BY <1>1, InFront
<1>3. ASSUME ip = DivideAt, Number(regs) = Dividend, regs.bx = ini.regs.bx,
             DivideAt = 12 => regs = ini.regs, mem = ini.mem, CarryOfMul(flags)
      PROVE  \/ /\ Stays /\ ip' \in Int /\ regs' \in RegFile /\ flags' \in Flags
                /\ DivisionState(ip', regs', flags', mem')
             \/ CpuTypeOK' /\ Handling' /\ Trapped'
  <2>1. CASE /\ Stays /\ ip' = DivideAt + 1 /\ regs' \in RegFile /\ flags' = flags /\ mem' = ini.mem
             /\ ~Outcome.error /\ LowOf(regs') = Outcome.lo /\ HighOf(regs') = Outcome.hi
    <3>1. DivisionState(ip', regs', flags', mem')
      BY <1>3, <2>1 DEF DivisionState
    <3> QED
      BY <1>1, <2>1, <3>1
  <2>2. CASE Outcome.error /\ DivideTrap
    BY <1>3, <2>2, TrapBegins
  <2> QED
    BY <1>3, <2>1, <2>2, DivideStep
<1>4. CASE ip = 12 /\ regs = ini.regs /\ mem = ini.mem
  <2>1. CASE DivideAt = 12
    <3>1. job \in {"div", "div16", "aamzero"}
      BY <2>1 DEF DivideAt
    <3>2. Dividend = Number(ini.regs) /\ CarryOfMul(flags)
      BY <3>1 DEF Dividend, CarryOfMul
    <3> QED
      BY <1>3, <1>4, <2>1, <3>2
  <2>2. CASE DivideAt = 13
    <3>1. job \in {"mul", "mul16", "imul", "imul16", "idiv", "idiv16", "aad"} /\ I = PrepareOp
      BY <1>1, <1>2, <1>4, <2>2 DEF DivideAt, DivisionJobs
    <3>2. /\ Stays /\ mem' = mem /\ ip' = ip + 1 /\ regs' \in RegFile /\ flags' \in Flags
          /\ Number(regs') = Dividend /\ regs'.bx = ini.regs.bx /\ CarryOfMul(flags')
      BY <1>1, <1>4, <3>1, PrepareMultiplies, PrepareExtends, PrepareAdjusts
    <3>3. DivisionState(ip', regs', flags', mem')
      BY <1>4, <2>2, <3>2 DEF DivisionState
    <3> QED
      BY <1>1, <3>2, <3>3
  <2> QED
    BY <1>1, <2>1, <2>2
<1>5. CASE /\ ip = 13 /\ DivideAt = 13
           /\ Number(regs) = Dividend /\ regs.bx = ini.regs.bx /\ mem = ini.mem /\ CarryOfMul(flags)
  BY <1>3, <1>5
<1>6. CASE ip = DivideAt + 1
  <2>1. Stays /\ UNCHANGED <<ip, regs, flags, mem>>
    BY <1>1, <1>2, <1>6, HaltStays
  <2>2. DivisionState(ip', regs', flags', mem')
    BY <2>1
  <2> QED
    BY <1>1, <2>1, <2>2
<1> QED
  BY <1>4, <1>5, <1>6 DEF DivisionState

LEMMA DivisionsStep == DivisionInv /\ [Next]_vars => DivisionInv'
<1> SUFFICES ASSUME DivisionInv, [Next]_vars  PROVE DivisionInv'
  OBVIOUS
<1>1. \E loads \in Loads : ini \in loads
  BY DEF DivisionInv
<1>2. ini' = ini
  BY IniStays DEF vars
<1>3. (\E loads \in Loads : ini \in loads)'
  BY <1>1, <1>2
<1>4. CASE job \notin DivisionJobs
  BY <1>2, <1>3, <1>4 DEF DivisionInv, job
<1>5. CASE job \in DivisionJobs
  <2>1. CpuTypeOK /\ Handling
    BY <1>5 DEF DivisionInv
  <2>2. SUFFICES /\ CpuTypeOK' /\ Handling'
                 /\ \/ Trapped'
                    \/ /\ (GuestSegs = Segments)' /\ (GuestStack = << >>)' /\ (GuestCalls = << >>)'
                       /\ DivisionState(GuestIp, GuestRegs, GuestFlags, mem)'
    BY <1>3 DEF DivisionInv
  <2>3. CASE Trapped
    <3>1. CASE UNCHANGED vars
      <4>1. CpuTypeOK' /\ Handling'
        BY <2>1, <3>1 DEF vars, CpuTypeOK, Handling, Interrupted
      <4>2. /\ Outcome' = Outcome /\ DivideAt' = DivideAt /\ \A f : CarryOfMul(f)' <=> CarryOfMul(f)
            /\ Segments' = Segments
        BY <1>2, SameDivision DEF Segments
      <4>3. Trapped'
        BY <2>3, <3>1, <4>2 DEF vars, Trapped
      <4> QED
        BY <4>1, <4>3
    <3>2. CASE Next
      BY <1>1, <1>5, <2>1, <2>3, <3>2, TrapStep
    <3> QED
      BY <3>1, <3>2
  <2>4. CASE ~Trapped
    <3>1. /\ GuestSegs = Segments /\ GuestStack = << >> /\ GuestCalls = << >>
          /\ DivisionState(GuestIp, GuestRegs, GuestFlags, mem) /\ HandlerAt
      BY <1>1, <1>5, <2>4, Loaded, DivisionCode DEF DivisionInv
    <3>2. CASE CpuTypeOK' /\ Handling' /\ UNCHANGED guest
      <4>1. /\ GuestSegs' = GuestSegs /\ GuestStack' = GuestStack /\ GuestCalls' = GuestCalls
            /\ GuestIp' = GuestIp /\ GuestRegs' = GuestRegs /\ GuestFlags' = GuestFlags
            /\ mem' = mem /\ Segments' = Segments
        BY <3>2 DEF guest, Segments
      <4>2. DivisionState(GuestIp, GuestRegs, GuestFlags, mem)'
        BY <1>2, <3>1, <4>1, NextDivision
      <4> QED
        BY <3>1, <3>2, <4>1, <4>2
    <3>3. CASE Next /\ ~Irq /\ ~Interrupted
      <4>1. /\ segs = Segments /\ stack = << >> /\ calls = << >>
            /\ DivisionState(ip, regs, flags, mem)
        BY <3>1, <3>3 DEF GuestSegs, GuestStack, GuestCalls, GuestIp, GuestRegs, GuestFlags
      <4>2. CASE /\ Stays /\ ip' \in Int /\ regs' \in RegFile /\ flags' \in Flags
                 /\ DivisionState(ip', regs', flags', mem')
        <5>1. /\ CpuTypeOK' /\ Handling'
              /\ (GuestSegs = Segments)' /\ (GuestStack = << >>)' /\ (GuestCalls = << >>)'
              /\ GuestIp' = ip' /\ GuestRegs' = regs' /\ GuestFlags' = flags'
          BY <2>1, <3>1, <3>3, <4>1, <4>2, GuestAlone DEF Stays
        <5>2. DivisionState(GuestIp, GuestRegs, GuestFlags, mem)'
          BY <1>2, <4>2, <5>1, NextDivision
        <5> QED
          BY <5>1, <5>2
      <4>3. CASE CpuTypeOK' /\ Handling' /\ Trapped'
        BY <4>3
      <4> QED
        BY <1>1, <1>5, <2>1, <3>3, <4>1, <4>2, <4>3, DivisionGoesOn
    <3> QED
      BY <2>1, <3>1, <3>2, <3>3, GuestMoves
  <2> QED
    BY <2>3, <2>4
<1> QED
  BY <1>4, <1>5

-----------------------------------------------------------------------------
(* The divisions at their end *)

LEMMA DivisionEnd ==
  ASSUME DivisionInv, Done, job \in DivisionJobs
  PROVE  /\ \E loads \in Loads : ini \in loads
         /\ regs \in RegFile /\ CarryOfMul(flags)
         /\ IF Outcome.error THEN Marked /\ (DivideAt = 12 => regs = ini.regs)
            ELSE ~Marked /\ LowOf(regs) = Outcome.lo /\ HighOf(regs) = Outcome.hi
<1>1. (\E loads \in Loads : ini \in loads) /\ CpuTypeOK /\ Handling
  BY DEF DivisionInv
<1>2. ~Trapped
  <2>1. SUFFICES ASSUME Trapped  PROVE FALSE
    OBVIOUS
  <2>2. PICK g \in Flags : stack = <<DivideAt + 1, 0, MakeFlagsWord(g)>> \o << >>
    BY <2>1 DEF Trapped
  <2> DEFINE a == DivideAt + 1
             z == 0
             w == MakeFlagsWord(g)
             e == << >>
             t == <<a, z, w>> \o e
  <2> DEFINE T == {a, z, w}
  <2>3. a \in T /\ z \in T /\ w \in T /\ e \in Seq(T) /\ Len(e) = 0
    OBVIOUS
  <2>4. stack = t
    BY <2>2
  <2> HIDE DEF a, z, w, e, T
  <2>5. Len(t) = 3
    <3>1. Len(t) = Len(e) + 3
      BY <2>3, ThreeOnTop
    <3> QED
      BY <2>3, <3>1
  <2> HIDE DEF t
  <2>6. t # << >>
    BY <2>5
  <2> QED
    BY <2>4, <2>6 DEF Done
<1>3. ~Interrupted
  BY <1>1, EndAlone DEF Done
<1>4. /\ segs = Segments /\ DivisionState(ip, regs, flags, mem)
      /\ regs \in RegFile /\ ip \in Int
  BY <1>1, <1>2, <1>3 DEF DivisionInv, CpuTypeOK, GuestSegs, GuestIp, GuestRegs, GuestFlags
<1>5. code[ip] = Halt
  BY <1>1, <1>4, Loaded, InFront DEF Done
<1>6. ip = DivideAt + 1
  <2>1. /\ DivideAt \in 12 .. 13 /\ code[DivideAt] = DivideOp
        /\ DivideAt = 13 => code[12] = PrepareOp
    BY <1>1, Loaded, DivisionCode
  <2>2. Halt.op = "jmp" /\ DivideOp.op # "jmp" /\ PrepareOp.op # "jmp"
    BY DEF Halt, DivideOp, PrepareOp, To, I0, I1, I2
  <2> QED
    BY <1>4, <1>5, <2>1, <2>2 DEF DivisionState
<1>7. /\ CarryOfMul(flags)
      /\ IF Outcome.error THEN mem[MarkAt] = 1 /\ (DivideAt = 12 => regs = ini.regs)
         ELSE mem = ini.mem /\ LowOf(regs) = Outcome.lo /\ HighOf(regs) = Outcome.hi
  <2>1. DivideAt \in 12 .. 13
    BY DEF DivideAt
  <2>2. CASE ip = 12 /\ regs = ini.regs /\ mem = ini.mem
    BY <1>6, <2>1, <2>2
  <2>3. CASE ip = 13 /\ DivideAt = 13
    BY <1>6, <2>3
  <2> QED
    BY <1>4, <2>2, <2>3 DEF DivisionState
<1>8. mem = ini.mem => ~Marked
  <2>1. ini.mem[MarkAt] = 0
    BY <1>1, Loaded DEF WellLoaded
  <2> QED
    BY <2>1 DEF Marked
<1> QED
  BY <1>1, <1>4, <1>7, <1>8 DEF Marked

\* What an unsigned division leaves.
LEMMA OpDivGives ==
  ASSUME NEW h \in Nat \ {0}, NEW n \in Nat, NEW d \in Operand(h)
  PROVE  LET r == OpDiv(h, n, d)
         IN  /\ r.error <=> ~(d # 0 /\ n \div d < 2 * h)
             /\ ~r.error => r.lo * d + r.hi = n /\ r.hi < d /\ r.lo = n \div d /\ r.hi = n % d
<1> DEFINE r == OpDiv(h, n, d)
<1>1. CASE d = 0
  BY <1>1 DEF OpDiv, DivError
<1>2. CASE d # 0
  <2> DEFINE q == n \div d
             m == n % d
  <2>1. d \in Nat \ {0} /\ d < 2 * h
    BY <1>2 DEF Operand
  <2>2. q \in Nat /\ m \in 0 .. d - 1 /\ n = d * q + m
    BY <2>1
  <2>3. r = IF q >= 2 * h THEN DivError ELSE Quotient(h, q, m)
    BY <1>2 DEF OpDiv
  <2> HIDE DEF q, m
  <2>4. CASE q >= 2 * h
    BY <1>2, <2>2, <2>3, <2>4 DEF DivError, q
  <2>5. CASE ~(q >= 2 * h)
    <3>1. q % (2 * h) = q /\ m % (2 * h) = m
      BY <2>1, <2>2, <2>5
    <3>2. r = [error |-> FALSE, lo |-> q, hi |-> m]
      BY <2>3, <2>5, <3>1 DEF Quotient
    <3>3. q < 2 * h /\ q * d + m = n /\ m < d
      BY <2>1, <2>2, <2>5
    <3> HIDE DEF r
    <3>4. r.error = FALSE /\ r.lo = q /\ r.hi = m
      BY <3>2
    <3> QED
      BY <1>2, <3>3, <3>4 DEF q, m, r
  <2> QED
    BY <2>4, <2>5
<1> QED
  BY <1>1, <1>2

\* Division undoes an unsigned multiplication.
LEMMA Undone ==
  ASSUME NEW h \in Nat \ {0}, NEW a \in Operand(h), NEW d \in Operand(h), d # 0
  PROVE  LET r == OpDiv(h, a * d, d)
         IN  ~r.error /\ r.lo = a /\ r.hi = 0
<1>1. a * d \in Nat /\ d \in Nat \ {0} /\ a \in Int /\ a < 2 * h
  BY DEF Operand
<1>2. a * d = a * d + 0 /\ 0 \in 0 .. d - 1
  BY <1>1
<1>3. (a * d) \div d = a /\ (a * d) % d = 0
  BY <1>1, <1>2, Reassembled, Zenon
<1> DEFINE n == a * d
<1> HIDE DEF n
<1>4. /\ OpDiv(h, n, d).error <=> ~(d # 0 /\ n \div d < 2 * h)
      /\ ~OpDiv(h, n, d).error => OpDiv(h, n, d).lo = n \div d /\ OpDiv(h, n, d).hi = n % d
  BY <1>1, OpDivGives DEF n
<1> QED
  BY <1>1, <1>3, <1>4 DEF n

\* DIV, of AX by BL and of DX:AX by BX.
LEMMA DivDone ==
  ASSUME DivisionInv, Done, job \in {"div", "div16"}
  PROVE  LET n == Number(ini.regs)
             d == Divisor
         IN  IF d # 0 /\ n \div d < 2 * W
             THEN ~Marked /\ LowOf(regs) * d + HighOf(regs) = n /\ HighOf(regs) < d
             ELSE Marked /\ regs = ini.regs
<1>1. /\ \E loads \in Loads : ini \in loads
      /\ IF Outcome.error THEN Marked /\ (DivideAt = 12 => regs = ini.regs)
         ELSE ~Marked /\ LowOf(regs) = Outcome.lo /\ HighOf(regs) = Outcome.hi
      /\ job \in DivisionJobs
  BY DivisionEnd DEF DivisionJobs
<1>2. DivideAt = 12 /\ Dividend = Number(ini.regs)
  BY DEF DivideAt, Dividend
<1>3. Number(ini.regs) \in Nat /\ Divisor \in Operand(W) /\ W \in Nat \ {0}
  BY <1>1, <1>2, DividendTyped, Operands, WidthOf
<1> DEFINE n == Number(ini.regs)
           d == Divisor
           r == OpDiv(W, n, d)
<1>4. Outcome = r
  BY <1>2 DEF Outcome
<1>5. /\ r.error <=> ~(d # 0 /\ n \div d < 2 * W)
      /\ ~r.error => r.lo * d + r.hi = n /\ r.hi < d
  BY <1>3, OpDivGives
<1> HIDE DEF n, d, r
<1> QED
  BY <1>1, <1>2, <1>4, <1>5 DEF n, d

\* MUL, and a DIV of what it gives.
LEMMA MulDone ==
  ASSUME DivisionInv, Done, job \in {"mul", "mul16"}
  PROVE  /\ Divisor # 0 => ~Marked /\ LowOf(regs) = Left /\ HighOf(regs) = 0
         /\ CarryOfMul(flags)
<1>1. /\ \E loads \in Loads : ini \in loads
      /\ IF Outcome.error THEN Marked /\ (DivideAt = 12 => regs = ini.regs)
         ELSE ~Marked /\ LowOf(regs) = Outcome.lo /\ HighOf(regs) = Outcome.hi
      /\ CarryOfMul(flags)
  BY DivisionEnd DEF DivisionJobs
<1>2. Outcome = OpDiv(W, Left * Divisor, Divisor)
  BY DEF Outcome, Dividend
<1>3. Left \in Operand(W) /\ Divisor \in Operand(W) /\ W \in Nat \ {0}
  BY <1>1, Operands, WidthOf
<1>4. Divisor # 0 => ~Outcome.error /\ Outcome.lo = Left /\ Outcome.hi = 0
  BY <1>2, <1>3, Undone
<1> QED
  BY <1>1, <1>4

\* IMUL, and an IDIV of what it gives.
LEMMA ImulDone ==
  ASSUME DivisionInv, Done, job \in {"imul", "imul16"},
         IdivDivisor = Signed(W, Divisor), Divisor # 0
  PROVE  ~Marked /\ LowOf(regs) = Left /\ HighOf(regs) = 0
<1>1. /\ \E loads \in Loads : ini \in loads
      /\ IF Outcome.error THEN Marked /\ (DivideAt = 12 => regs = ini.regs)
         ELSE ~Marked /\ LowOf(regs) = Outcome.lo /\ HighOf(regs) = Outcome.hi
  BY DivisionEnd DEF DivisionJobs
<1>2. Left \in Operand(W) /\ Divisor \in Operand(W) /\ W \in Nat \ {0}
  BY <1>1, Operands, WidthOf
<1> DEFINE a == Signed(W, Left)
           d == Signed(W, Divisor)
<1>3. a \in -W .. W - 1 /\ a % (2 * W) = Left /\ d \in -W .. W - 1 /\ d # 0
  BY <1>2, SignedTyped
<1>4. d \in -W .. W
  <2> HIDE DEF d
  <2> QED
    BY <1>2, <1>3
<1>5. Outcome = IdivBy(W, (a * d) % (2 * (2 * W * W)), Divisor, d)
  <2>1. Dividend = InDouble(a * d)
    BY DEF Dividend
  <2>2. Outcome = IdivBy(W, Dividend, Divisor, d)
    BY <1>1, IdivOf
  <2> QED
    BY <2>1, <2>2 DEF InDouble
<1> HIDE DEF a, d
<1>6. ~Outcome.error /\ Outcome.lo = Left /\ Outcome.hi = 0
  BY <1>2, <1>3, <1>4, <1>5, SignedUndone, Zenon
<1> QED
  BY <1>1, <1>6

\* IDIV of a sign-extended operand, when the divisor is taken for what it is.
LEMMA IdivDone ==
  ASSUME DivisionInv, Done, job \in {"idiv", "idiv16"}, IdivDivisor = Signed(W, Divisor)
  PROVE  LET a == Signed(W, Left)
             d == Signed(W, Divisor)
         IN  /\ (d # 0 /\ ~(a = -W /\ d = -1)) =>
                  /\ ~Marked
                  /\ Signed(W, LowOf(regs)) = Truncated(a, d).q
                  /\ Signed(W, HighOf(regs)) = Truncated(a, d).r * (IF d < 0 THEN -1 ELSE 1)
             /\ d = 0 => Marked
<1>1. /\ \E loads \in Loads : ini \in loads
      /\ IF Outcome.error THEN Marked /\ (DivideAt = 12 => regs = ini.regs)
         ELSE ~Marked /\ LowOf(regs) = Outcome.lo /\ HighOf(regs) = Outcome.hi
  BY DivisionEnd DEF DivisionJobs
<1>2. Left \in Operand(W) /\ Divisor \in Operand(W) /\ W \in Nat \ {0}
  BY <1>1, Operands, WidthOf
<1> DEFINE a == Signed(W, Left)
           d == Signed(W, Divisor)
<1>3. a \in -W .. W - 1 /\ d \in -W .. W - 1 /\ (d = 0 <=> Divisor = 0)
  BY <1>2, SignedTyped
<1>4. d \in -W .. W
  <2> HIDE DEF d
  <2> QED
    BY <1>2, <1>3
<1>5. Outcome = IdivBy(W, a % (2 * (2 * W * W)), Divisor, d)
  <2>1. Dividend = InDouble(a)
    BY DEF Dividend
  <2>2. Outcome = IdivBy(W, Dividend, Divisor, d)
    BY <1>1, IdivOf
  <2> QED
    BY <2>1, <2>2 DEF InDouble
<1> HIDE DEF a, d
<1>6. ASSUME d # 0, ~(a = -W /\ d = -1)
      PROVE  /\ ~Outcome.error
             /\ Signed(W, Outcome.lo) = Truncated(a, d).q
             /\ Signed(W, Outcome.hi) = Truncated(a, d).r * (IF d < 0 THEN -1 ELSE 1)
  <2>1. Divisor # 0
    BY <1>3, <1>6
  <2> QED
    BY <1>2, <1>3, <1>4, <1>5, <1>6, <2>1, IdivExact, Zenon
<1>7. d = 0 => Outcome.error
  BY <1>3, <1>5 DEF IdivBy, DivError
<1> QED
  BY <1>1, <1>6, <1>7 DEF a, d

\* AAD, and a DIV of what it gives.
LEMMA AadDone ==
  ASSUME DivisionInv, Done, job = "aad"
  PROVE  LET n == (Digits * Ah0 + Al0) % Byte
         IN  IF Bl0 = 0 THEN Marked
             ELSE ~Marked /\ LowOf(regs) = n \div Bl0 /\ HighOf(regs) = n % Bl0
<1>1. /\ \E loads \in Loads : ini \in loads
      /\ IF Outcome.error THEN Marked /\ (DivideAt = 12 => regs = ini.regs)
         ELSE ~Marked /\ LowOf(regs) = Outcome.lo /\ HighOf(regs) = Outcome.hi
      /\ job \in DivisionJobs
  BY DivisionEnd DEF DivisionJobs
<1>2. Dividend = (Digits * Ah0 + Al0) % Byte /\ Divisor = Bl0 /\ ~Wide
  BY DEF Dividend, Divisor, Wide
<1>3. Dividend \in Nat /\ Divisor \in Operand(W) /\ W \in Nat \ {0} /\ 2 * W = Byte
  BY <1>1, <1>2, DividendTyped, Operands, WidthOf
<1>4. Dividend < Byte
  <2>1. Digits * Ah0 + Al0 \in Int
    BY <1>1, Operands, CpuAluAssumption, Widths
  <2> DEFINE s == Digits * Ah0 + Al0
  <2> HIDE DEF s
  <2>2. (s % Byte) < Byte
    BY <2>1, Widths DEF s
  <2> QED
    BY <1>2, <2>2 DEF s
<1> DEFINE n == Dividend
           d == Divisor
           r == OpDiv(W, n, d)
<1>5. Outcome = r
  BY DEF Outcome
<1>6. /\ r.error <=> ~(d # 0 /\ n \div d < 2 * W)
      /\ ~r.error => r.lo = n \div d /\ r.hi = n % d
  BY <1>3, OpDivGives
<1> HIDE DEF n, d, r
<1>7. d # 0 => n \div d < 2 * W
  <2>1. ASSUME d # 0  PROVE n \div d <= n
    BY <1>3, <2>1 DEF n, d, Operand
  <2>2. ASSUME d # 0  PROVE n \div d \in Int
    BY <1>3, <2>2 DEF n, d, Operand
  <2> QED
    BY <1>3, <1>4, <2>1, <2>2 DEF n
<1> QED
  BY <1>1, <1>2, <1>5, <1>6, <1>7 DEF n, d

LEMMA DivisionsDone == DivisionInv => DivisionExact
<1> SUFFICES ASSUME DivisionInv, Done  PROVE DivisionExact
  BY DEF DivisionExact
<1>1. \E loads \in Loads : ini \in loads
  BY DEF DivisionInv
<1>2. ASSUME job \in DivisionJobs
      PROVE  /\ ~Wide => /\ Al = LowOf(regs) /\ Ah = HighOf(regs)
                         /\ W = b8 /\ Divisor = Bl0 /\ Left = Al0
             /\ Wide => /\ regs.ax = LowOf(regs) /\ regs.dx = HighOf(regs)
                        /\ W = b16 /\ Divisor = ini.regs.bx /\ Left = ini.regs.ax
  <2>1. regs \in RegFile
    BY <1>2, DivisionEnd
  <2>2. GetReg("al") = regs.ax % Byte /\ GetReg("ah") = regs.ax \div Byte
    BY <2>1, ReadHalves
  <2> QED
    BY <2>2 DEF Al, Ah, LowOf, HighOf, W, Divisor, Left, b8, b16
<1> DEFINE al == Signed(b8, Al0)
           bl == Signed(b8, Bl0)
           ax == Signed(b16, ini.regs.ax)
           bx == Signed(b16, ini.regs.bx)
           word == ini.regs.dx * Word + ini.regs.ax
           sized(h, n, d) == d # 0 /\ n \div d < 2 * h
<1>3. job = "div" =>
        IF sized(b8, ini.regs.ax, Bl0)
        THEN ~Marked /\ Al * Bl0 + Ah = ini.regs.ax /\ Ah < Bl0
        ELSE Marked /\ regs.ax = ini.regs.ax
  <2>1. SUFFICES ASSUME job = "div"
                 PROVE  IF sized(b8, ini.regs.ax, Bl0)
                        THEN ~Marked /\ Al * Bl0 + Ah = ini.regs.ax /\ Ah < Bl0
                        ELSE Marked /\ regs.ax = ini.regs.ax
    OBVIOUS
  <2>2. ~Wide /\ job \in DivisionJobs
    BY <2>1 DEF Wide, DivisionJobs
  <2>3. Number(ini.regs) = ini.regs.ax
    <3>1. Number(ini.regs) = (ini.regs.ax \div Byte) * Byte + (ini.regs.ax % Byte)
      BY <2>2, WidthOf DEF Number, LowOf, HighOf
    <3>2. (ini.regs.ax \div Byte) * Byte + (ini.regs.ax % Byte) = ini.regs.ax
      <4> DEFINE v == ini.regs.ax
      <4>1. v \in 0 .. Word - 1
        BY <1>1, Operands
      <4> HIDE DEF v
      <4>2. (v % Byte) \in 0 .. Byte - 1 /\ (v \div Byte) \in 0 .. Byte - 1
            /\ v = (v % Byte) + Byte * (v \div Byte)
        BY <4>1, Halves
      <4> DEFINE q == v \div Byte
                 m == v % Byte
      <4> HIDE DEF q, m
      <4>3. q * Byte + m = m + Byte * q
        BY <4>2, Widths DEF q, m
      <4> QED
        BY <4>2, <4>3 DEF q, m, v
    <3> QED
      BY <3>1, <3>2
  <2>4. LET n == Number(ini.regs)
            d == Divisor
        IN  IF d # 0 /\ n \div d < 2 * W
            THEN ~Marked /\ LowOf(regs) * d + HighOf(regs) = n /\ HighOf(regs) < d
            ELSE Marked /\ regs = ini.regs
    BY <2>1, DivDone
  <2> QED
    BY <1>2, <2>2, <2>3, <2>4
<1>4. job = "div16" =>
        IF sized(b16, word, ini.regs.bx)
        THEN ~Marked /\ regs.ax * ini.regs.bx + regs.dx = word /\ regs.dx < ini.regs.bx
        ELSE Marked /\ regs.ax = ini.regs.ax /\ regs.dx = ini.regs.dx
  <2>1. SUFFICES ASSUME job = "div16"
                 PROVE  IF sized(b16, word, ini.regs.bx)
                        THEN ~Marked /\ regs.ax * ini.regs.bx + regs.dx = word
                             /\ regs.dx < ini.regs.bx
                        ELSE Marked /\ regs.ax = ini.regs.ax /\ regs.dx = ini.regs.dx
    OBVIOUS
  <2>2. Wide /\ job \in DivisionJobs
    BY <2>1 DEF Wide, DivisionJobs
  <2>3. Number(ini.regs) = word
    BY <2>2, WidthOf DEF Number, LowOf, HighOf
  <2>4. LET n == Number(ini.regs)
            d == Divisor
        IN  IF d # 0 /\ n \div d < 2 * W
            THEN ~Marked /\ LowOf(regs) * d + HighOf(regs) = n /\ HighOf(regs) < d
            ELSE Marked /\ regs = ini.regs
    BY <2>1, DivDone
  <2> HIDE DEF word
  <2> QED
    BY <1>2, <2>2, <2>3, <2>4
<1>5. job = "idiv" =>
        /\ bl > 0 => /\ ~Marked
                     /\ Signed(b8, Al) = Truncated(al, bl).q
                     /\ Signed(b8, Ah) = Truncated(al, bl).r
        /\ bl = 0 => Marked
  <2>1. SUFFICES ASSUME job = "idiv"
                 PROVE  /\ bl > 0 => /\ ~Marked
                                     /\ Signed(b8, Al) = Truncated(al, bl).q
                                     /\ Signed(b8, Ah) = Truncated(al, bl).r
                        /\ bl = 0 => Marked
    OBVIOUS
  <2>2. ~Wide /\ job \in DivisionJobs
    BY <2>1 DEF Wide, DivisionJobs
  <2>3. /\ Bl0 \in 0 .. 2 * b8 - 1 /\ Al0 \in 0 .. 2 * b8 - 1 /\ b8 \in Nat \ {0}
        /\ b8 > 1
    BY <1>1, Operands, Widths DEF b8
  <2>4. ASSUME bl >= 0  PROVE IdivDivisor = Signed(W, Divisor)
    <3>1. bl = Bl0
      BY <2>3, <2>4 DEF Signed
    <3> QED
      BY <1>2, <2>2, <3>1 DEF IdivDivisor
  <2>5. bl >= 0 =>
          /\ (bl # 0 /\ ~(al = -b8 /\ bl = -1)) =>
               /\ ~Marked
               /\ Signed(b8, Al) = Truncated(al, bl).q
               /\ Signed(b8, Ah) = Truncated(al, bl).r * (IF bl < 0 THEN -1 ELSE 1)
          /\ bl = 0 => Marked
    BY <1>2, <2>1, <2>2, <2>4, IdivDone
  <2>6. al \in Int /\ bl \in Int
    BY <2>3 DEF Signed
  <2> HIDE DEF al, bl
  <2>7. bl > 0 => bl >= 0 /\ bl # 0 /\ ~(al = -b8 /\ bl = -1) /\ ~(bl < 0)
    BY <2>6
  <2>8. bl > 0 => Truncated(al, bl).r \in Int
    <3>1. SUFFICES ASSUME bl > 0  PROVE Truncated(al, bl).r \in Int
      OBVIOUS
    <3> DEFINE q == Magnitude(al) \div Magnitude(bl)
    <3>2. q \in Int
      <4>1. Magnitude(al) \in Int /\ Magnitude(bl) \in Nat \ {0}
        BY <2>6, <3>1 DEF Magnitude
      <4> QED
        BY <4>1
    <3> HIDE DEF q
    <3>3. Truncated(al, bl).r = al - (IF (al < 0) # (bl < 0) THEN -q ELSE q) * bl
      BY DEF Truncated, q
    <3> QED
      BY <2>6, <3>2, <3>3
  <2>9. bl > 0 => Truncated(al, bl).r * 1 = Truncated(al, bl).r
    BY <2>8
  <2>10. bl = 0 => bl >= 0
    OBVIOUS
  <2> QED
    BY <2>5, <2>7, <2>9, <2>10
<1>6. job = "idiv16" =>
        /\ (bx # 0 /\ ~(bx = -1 /\ ax = -WordSign)) =>
             /\ ~Marked
             /\ Signed(b16, regs.ax) = Truncated(ax, bx).q
             /\ Signed(b16, regs.dx) = Truncated(ax, bx).r * (IF bx < 0 THEN -1 ELSE 1)
        /\ bx = 0 => Marked
  <2>1. SUFFICES ASSUME job = "idiv16"
                 PROVE  /\ (bx # 0 /\ ~(bx = -1 /\ ax = -WordSign)) =>
                             /\ ~Marked
                             /\ Signed(b16, regs.ax) = Truncated(ax, bx).q
                             /\ Signed(b16, regs.dx) =
                                  Truncated(ax, bx).r * (IF bx < 0 THEN -1 ELSE 1)
                        /\ bx = 0 => Marked
    OBVIOUS
  <2>2. Wide /\ job \in DivisionJobs
    BY <2>1 DEF Wide, DivisionJobs
  <2>3. IdivDivisor = Signed(W, Divisor)
    BY <1>2, <2>2 DEF IdivDivisor, b16
  <2>4. /\ (bx # 0 /\ ~(ax = -b16 /\ bx = -1)) =>
             /\ ~Marked
             /\ Signed(b16, regs.ax) = Truncated(ax, bx).q
             /\ Signed(b16, regs.dx) = Truncated(ax, bx).r * (IF bx < 0 THEN -1 ELSE 1)
        /\ bx = 0 => Marked
    BY <1>2, <2>1, <2>2, <2>3, IdivDone
  <2>5. b16 = WordSign
    BY DEF b16
  <2> HIDE DEF ax, bx
  <2> QED
    BY <2>4, <2>5
<1>7. job \in {"mul", "imul"} =>
        /\ (bl > 0 \/ (job = "mul" /\ bl # 0)) => (~Marked /\ Al = Al0 /\ Ah = 0)
        /\ job = "mul" => flags.cf = Flag(Al0 * Bl0 >= Byte)
  <2>1. SUFFICES ASSUME job \in {"mul", "imul"}
                 PROVE  /\ (bl > 0 \/ (job = "mul" /\ bl # 0)) => (~Marked /\ Al = Al0 /\ Ah = 0)
                        /\ job = "mul" => flags.cf = Flag(Al0 * Bl0 >= Byte)
    OBVIOUS
  <2>2. ~Wide /\ job \in DivisionJobs
    BY <2>1 DEF Wide, DivisionJobs
  <2>3. Bl0 \in 0 .. 2 * b8 - 1 /\ b8 \in Nat \ {0}
    BY <1>1, Operands, Widths DEF b8
  <2>4. (bl # 0 <=> Bl0 # 0) /\ (bl > 0 => bl = Bl0 /\ bl # 0)
    BY <2>3 DEF Signed
  <2>5. CASE job = "mul"
    <3>1. /\ Divisor # 0 => ~Marked /\ LowOf(regs) = Left /\ HighOf(regs) = 0
          /\ CarryOfMul(flags)
      BY <2>5, MulDone
    <3> HIDE DEF bl
    <3> QED
      BY <1>2, <2>2, <2>4, <2>5, <3>1 DEF CarryOfMul
  <2>6. CASE job = "imul"
    <3>1. ASSUME bl > 0  PROVE IdivDivisor = Signed(W, Divisor) /\ Divisor # 0
      BY <1>2, <2>2, <2>4, <3>1 DEF IdivDivisor
    <3>2. bl > 0 => ~Marked /\ LowOf(regs) = Left /\ HighOf(regs) = 0
      BY <2>6, <3>1, ImulDone
    <3> HIDE DEF bl
    <3> QED
      BY <1>2, <2>2, <2>6, <3>2
  <2> QED
    BY <2>1, <2>5, <2>6
<1>8. job \in {"mul16", "imul16"} =>
        (ini.regs.bx # 0 => ~Marked /\ regs.ax = ini.regs.ax /\ regs.dx = 0)
  <2>1. SUFFICES ASSUME job \in {"mul16", "imul16"}, ini.regs.bx # 0
                 PROVE  ~Marked /\ regs.ax = ini.regs.ax /\ regs.dx = 0
    OBVIOUS
  <2>2. Wide /\ job \in DivisionJobs
    BY <2>1 DEF Wide, DivisionJobs
  <2>3. Divisor # 0
    BY <1>2, <2>1, <2>2
  <2>4. CASE job = "mul16"
    BY <1>2, <2>2, <2>3, <2>4, MulDone
  <2>5. CASE job = "imul16"
    <3>1. IdivDivisor = Signed(W, Divisor)
      BY <1>2, <2>2 DEF IdivDivisor, b16
    <3> QED
      BY <1>2, <2>2, <2>3, <2>5, <3>1, ImulDone
  <2> QED
    BY <2>1, <2>4, <2>5
<1>9. bx # 0 => ini.regs.bx # 0
  <2>1. ini.regs.bx \in 0 .. 2 * b16 - 1 /\ b16 \in Nat \ {0}
    BY <1>1, Operands, Widths DEF b16
  <2> QED
    BY <2>1 DEF Signed
<1>10. job = "aad" =>
         LET n == (Digits * Ah0 + Al0) % Byte
         IN  IF Bl0 = 0 THEN Marked ELSE ~Marked /\ Al = n \div Bl0 /\ Ah = n % Bl0
  <2>1. SUFFICES ASSUME job = "aad"
                 PROVE  LET n == (Digits * Ah0 + Al0) % Byte
                        IN  IF Bl0 = 0 THEN Marked
                            ELSE ~Marked /\ Al = n \div Bl0 /\ Ah = n % Bl0
    OBVIOUS
  <2>2. ~Wide /\ job \in DivisionJobs
    BY <2>1 DEF Wide, DivisionJobs
  <2> QED
    BY <1>2, <2>1, <2>2, AadDone
<1>11. job = "aamzero" => Marked
  <2>1. SUFFICES ASSUME job = "aamzero"  PROVE Marked
    OBVIOUS
  <2>2. Outcome.error /\ job \in DivisionJobs
    BY <2>1 DEF Outcome, DivError, DivisionJobs
  <2> QED
    BY <2>2, DivisionEnd
<1> HIDE DEF al, bl, ax, bx, word
<1> QED
  BY <1>3, <1>4, <1>5, <1>6, <1>7, <1>8, <1>9, <1>10, <1>11 DEF DivisionExact, al, bl, ax, bx, word

\* Every division of every load gives quotient and remainder, or a divide error
\* when there is none that fits, whatever interrupts come before and after it.
THEOREM DivisionsAreExact == Spec => []DivisionExact
<1>1. Init => DivisionInv
  BY DivisionsInit
<1>2. DivisionInv /\ [Next]_vars => DivisionInv'
  BY DivisionsStep
<1>3. DivisionInv => DivisionExact
  BY DivisionsDone
<1> QED
  BY <1>1, <1>2, <1>3, PTL DEF Spec

-----------------------------------------------------------------------------
(* The comparisons: a guest that compares, moves its flags through the      *)
(* stack and jumps, and one that compares two bytes.                        *)

\* Two bytes order as their high ones, and as the low ones when these are equal.
LEMMA PairsOrder ==
  ASSUME NEW n \in Nat \ {0}, NEW a \in 0 .. n - 1, NEW b \in 0 .. n - 1, NEW x \in Int, NEW y \in Int
  PROVE  a + n * x < b + n * y <=> x < y \/ (x = y /\ a < b)
<1>1. n * x \in Int /\ n * y \in Int
  OBVIOUS
<1>2. CASE x < y
  <2>1. n * (y - x) >= n * 1
    BY <1>2
  <2>2. n * (y - x) = n * y - n * x
    OBVIOUS
  <2> QED
    BY <1>1, <1>2, <2>1, <2>2
<1>3. CASE x = y
  BY <1>1, <1>3
<1>4. CASE y < x
  <2>1. n * (x - y) >= n * 1
    BY <1>4
  <2>2. n * (x - y) = n * x - n * y
    OBVIOUS
  <2> QED
    BY <1>1, <1>4, <2>1, <2>2
<1> QED
  BY <1>2, <1>3, <1>4

\* Every condition of Jcc means what its name says after a CMP (cpu.c, flag_sub8).
LEMMA ConditionsDecide ==
  ASSUME NEW f \in Flags, NEW a \in Operand(ByteSign), NEW b \in Operand(ByteSign)
  PROVE  LET g == FlagSub(f, ByteSign, a, b)
         IN  /\ \A cc \in Conditions : Holds(cc, g) <=> Relation(cc, ByteSign, a, b)
             /\ ~Relation("no", ByteSign, a, b) => g.of = 1
<1> DEFINE h == ByteSign
           g == FlagSub(f, h, a, b)
           v == (a - b) % (2 * h)
           sa == Signed(h, a)
           sb == Signed(h, b)
           over == sa - sb \notin -h .. h - 1
<1>1. h \in Nat \ {0} /\ Byte = 2 * h
  BY Sizes
<1>2. /\ v = IF a < b THEN a - b + 2 * h ELSE a - b
      /\ g.cf = Flag(a < b) /\ g.zf = Flag(v = 0) /\ g.sf = Bit(v, h)
      /\ g.of = Flag(Bit(v, h) # Bit(a, h) /\ Bit(a, h) # Bit(b, h))
  BY <1>1, SubFields
<1>3. v \in Operand(h) /\ a \in Operand(h) /\ b \in Operand(h)
  BY <1>1, <1>2 DEF Operand
<1>4. /\ Bit(v, h) = IF v >= h THEN 1 ELSE 0
      /\ Bit(a, h) = IF a >= h THEN 1 ELSE 0
      /\ Bit(b, h) = IF b >= h THEN 1 ELSE 0
  BY <1>1, <1>3, SignBit
<1>5. g.pf = Parity(v % Byte)
  <2>1. "pf" \in DOMAIN f
    BY DEF Flags
  <2>2. FlagSzp(f, h, v).pf = Parity(v % Byte) /\ DOMAIN FlagSzp(f, h, v) = DOMAIN f
    <3> HIDE DEF v
    <3> QED
      BY <2>1 DEF FlagSzp
  <2> QED
    BY <2>1, <2>2 DEF FlagSub
<1>6. v % Byte = v /\ (a - b) % Byte = v
  <2>1. (a - b) % Byte = v
    BY <1>1, Zenon
  <2> HIDE DEF v
  <2> QED
    BY <1>1, <1>3, <2>1 DEF Operand
<1>7. g.pf \in 0 .. 1
  BY <1>5 DEF Parity, Flag
<1>8. /\ Relation("o", h, a, b) <=> over
      /\ Relation("no", h, a, b) <=> ~over
      /\ Relation("b", h, a, b) <=> a < b
      /\ Relation("ae", h, a, b) <=> a >= b
      /\ Relation("e", h, a, b) <=> a = b
      /\ Relation("ne", h, a, b) <=> a # b
      /\ Relation("be", h, a, b) <=> a <= b
      /\ Relation("a", h, a, b) <=> a > b
  BY DEF Relation
<1>9. /\ Relation("s", h, a, b) <=> v >= h
      /\ Relation("ns", h, a, b) <=> v < h
      /\ Relation("p", h, a, b) <=> Parity((a - b) % Byte) = 1
      /\ Relation("np", h, a, b) <=> Parity((a - b) % Byte) = 0
      /\ Relation("l", h, a, b) <=> sa < sb
      /\ Relation("ge", h, a, b) <=> sa >= sb
      /\ Relation("le", h, a, b) <=> sa <= sb
      /\ Relation("g", h, a, b) <=> sa > sb
  BY DEF Relation
<1>10. /\ Holds("o", g) <=> g.of = 1
       /\ Holds("no", g) <=> g.of = 0
       /\ Holds("b", g) <=> g.cf = 1
       /\ Holds("ae", g) <=> g.cf = 0
       /\ Holds("e", g) <=> g.zf = 1
       /\ Holds("ne", g) <=> g.zf = 0
       /\ Holds("be", g) <=> g.cf = 1 \/ g.zf = 1
       /\ Holds("a", g) <=> g.cf = 0 /\ g.zf = 0
  BY DEF Holds
<1>11. /\ Holds("s", g) <=> g.sf = 1
       /\ Holds("ns", g) <=> g.sf = 0
       /\ Holds("p", g) <=> g.pf = 1
       /\ Holds("np", g) <=> g.pf = 0
       /\ Holds("l", g) <=> g.sf # g.of
       /\ Holds("ge", g) <=> g.sf = g.of
       /\ Holds("le", g) <=> g.sf # g.of \/ g.zf = 1
       /\ Holds("g", g) <=> g.zf = 0 /\ g.sf = g.of
  BY DEF Holds
<1> HIDE DEF g, v, h
<1>12. /\ a \in 0 .. 2 * h - 1 /\ b \in 0 .. 2 * h - 1 /\ v \in 0 .. 2 * h - 1
       /\ h \in Nat \ {0}
  BY <1>1, <1>3 DEF Operand
<1>13. (g.cf = 1 <=> a < b) /\ (g.cf = 0 <=> a >= b)
  BY <1>2, <1>12 DEF Flag
<1>14. (g.zf = 1 <=> a = b) /\ (g.zf = 0 <=> a # b)
  BY <1>2, <1>12 DEF Flag
<1>15. (g.sf = 1 <=> v >= h) /\ (g.sf = 0 <=> v < h)
  BY <1>2, <1>4, <1>12
<1>16. (g.of = 1 <=> over) /\ (g.of = 0 <=> ~over)
  <2>1. g.of = 1 <=> (v >= h) # (a >= h) /\ (a >= h) # (b >= h)
    BY <1>2, <1>4 DEF Flag
  <2>2. g.of \in 0 .. 1
    BY <1>2 DEF Flag
  <2>3. over <=> (v >= h) # (a >= h) /\ (a >= h) # (b >= h)
    BY <1>2, <1>12 DEF Signed
  <2> HIDE DEF over
  <2> QED
    BY <2>1, <2>2, <2>3
<1>17. a = b <=> sa = sb
  BY <1>12 DEF Signed
<1>18. sa \in Int /\ sb \in Int /\ a \in Int /\ b \in Int
  BY <1>12 DEF Signed
<1>19. g.sf # g.of <=> sa < sb
  <2>1. CASE over
    <3>1. g.sf # g.of <=> v < h
      BY <1>12, <1>15, <1>16, <2>1
    <3>2. v < h <=> sa < sb
      BY <1>2, <1>12, <2>1 DEF Signed
    <3> QED
      BY <3>1, <3>2
  <2>2. CASE ~over
    <3>1. g.sf # g.of <=> v >= h
      BY <1>12, <1>15, <1>16, <2>2
    <3>2. v >= h <=> sa < sb
      BY <1>2, <1>12, <2>2 DEF Signed
    <3> QED
      BY <3>1, <3>2
  <2> QED
    BY <2>1, <2>2
<1> HIDE DEF sa, sb, over
<1>20. /\ Holds("o", g) <=> Relation("o", h, a, b)
       /\ Holds("no", g) <=> Relation("no", h, a, b)
       /\ Holds("b", g) <=> Relation("b", h, a, b)
       /\ Holds("ae", g) <=> Relation("ae", h, a, b)
       /\ Holds("e", g) <=> Relation("e", h, a, b)
       /\ Holds("ne", g) <=> Relation("ne", h, a, b)
       /\ Holds("be", g) <=> Relation("be", h, a, b)
       /\ Holds("a", g) <=> Relation("a", h, a, b)
  BY <1>8, <1>10, <1>13, <1>14, <1>16, <1>17, <1>18
<1>21. /\ Holds("s", g) <=> Relation("s", h, a, b)
       /\ Holds("ns", g) <=> Relation("ns", h, a, b)
       /\ Holds("p", g) <=> Relation("p", h, a, b)
       /\ Holds("np", g) <=> Relation("np", h, a, b)
       /\ Holds("l", g) <=> Relation("l", h, a, b)
       /\ Holds("ge", g) <=> Relation("ge", h, a, b)
       /\ Holds("le", g) <=> Relation("le", h, a, b)
       /\ Holds("g", g) <=> Relation("g", h, a, b)
  BY <1>5, <1>6, <1>7, <1>9, <1>11, <1>14, <1>15, <1>17, <1>18, <1>19
<1>22. ~Relation("no", h, a, b) => g.of = 1
  BY <1>8, <1>16
<1> QED
  BY <1>20, <1>21, <1>22 DEF Conditions, ReadOF, g, h

\* Setting OF changes nothing for a condition that does not read it.
LEMMA OverflowUnread ==
  ASSUME NEW g \in Flags
  PROVE  LET f == [g EXCEPT !.of = 1]
         IN  /\ f \in Flags
             /\ \A cc \in Conditions \ ReadOF : Holds(cc, f) <=> Holds(cc, g)
             /\ g.of = 1 => f = g
<1> DEFINE f == [g EXCEPT !.of = 1]
<1>1. f \in Flags /\ (g.of = 1 => f = g)
  BY DEF Flags
<1>2. /\ f.cf = g.cf /\ f.zf = g.zf /\ f.sf = g.sf /\ f.pf = g.pf
  BY DEF Flags
<1> HIDE DEF f
<1>3. \A cc \in {"b", "ae", "e", "ne", "be", "a", "s", "ns", "p", "np"} : Holds(cc, f) <=> Holds(cc, g)
  BY <1>2 DEF Holds
<1>4. Conditions \ ReadOF \subseteq {"b", "ae", "e", "ne", "be", "a", "s", "ns", "p", "np"}
  BY DEF Conditions, ReadOF
<1> QED
  BY <1>1, <1>3, <1>4 DEF f

\* What the instructions of these routines do.
LEMMA CmpRegisters ==
  ASSUME Next, ~Irq, I = I2("cmp", b8, R("al"), R("bl"))
  PROVE  /\ Stays /\ UNCHANGED <<regs, mem>> /\ ip' = ip + 1
         /\ flags' = FlagSub(flags, ByteSign, GetReg("al"), GetReg("bl"))
<1>1. /\ I.op = "cmp" /\ I.w = ByteSign
      /\ I.d.k = "reg" /\ I.d.r = "al" /\ I.s.k = "reg" /\ I.s.r = "bl"
  BY DEF I2, R, b8
<1>2. Compare
  BY <1>1, Dispatch
<1>3. Value(I.d) = GetReg("al") /\ Value(I.s) = GetReg("bl")
  BY <1>1 DEF Value
<1> QED
  BY <1>1, <1>2, <1>3 DEF Compare, OnlyFlags, Proceed, fixed, Stays

LEMMA PushfPushes ==
  ASSUME Next, ~Irq, I = I0("pushf")
  PROVE  /\ stack' = <<MakeFlagsWord([flags EXCEPT !.of = 1])>> \o stack /\ ip' = ip + 1
         /\ UNCHANGED <<ini, segs, calls, regs, flags, mem>>
<1>1. I.op = "pushf"
  BY DEF I0, I1, I2
<1>2. Pushf
  BY <1>1, Dispatch
<1> QED
  BY <1>2 DEF Pushf, Pushed, Proceed, fixed

LEMMA PopfPops ==
  ASSUME Next, ~Irq, I = I0("popf")
  PROVE  /\ flags' = DecodeFlagsWord(Head(stack)) /\ stack' = Below(stack, 1) /\ ip' = ip + 1
         /\ UNCHANGED <<ini, segs, calls, regs, mem>>
<1>1. I.op = "popf"
  BY DEF I0, I1, I2
<1>2. Popf
  BY <1>1, Dispatch
<1> QED
  BY <1>2 DEF Popf, Popped, Proceed, fixed

LEMMA JccGoesOn ==
  ASSUME Next, ~Irq, I = If("l", 0), ip \in Int
  PROVE  Stays /\ ip' = ip + 1 /\ UNCHANGED <<regs, flags, mem>>
<1>1. I.op = "jcc" /\ I.disp = 0
  BY DEF If, I0, I1, I2
<1>2. Jcc
  BY <1>1, Dispatch
<1> QED
  BY <1>1, <1>2 DEF Jcc, Jump, fixed, Stays

\* The operands in memory: at DS:k, and at SS:k through BP.
LEMMA OperandAt ==
  ASSUME segs = Segments, Paragraph \in Nat, NEW k \in 0 .. 1, I.w = ByteSign, I.over = "no",
         I.s.k = "mem", I.s.x = "no", I.s.disp = k
  PROVE  /\ I.s.b = "no" => Value(I.s) = Cell(k)
         /\ I.s.b = "bp" /\ regs["bp"] = 0 => Value(I.s) = Cell(Paragraph + k)
<1>1. k % Word = k
  <2>1. Word = Byte * Byte /\ Byte \in Nat /\ Byte >= 4 /\ Word \in Nat \ {0}
    BY Widths
  <2>2. Byte * Byte >= Byte * 4
    BY <2>1
  <2> QED
    BY <2>1, <2>2
<1>2. ASSUME NEW a, EA(I.s) = a  PROVE Value(I.s) = Cell(a)
  BY <1>2 DEF Value, ReadMem
<1>3. ASSUME I.s.b = "no"  PROVE EA(I.s) = k
  <2>1. OffsetIn(regs, I.s) = (0 + 0 + k) % Word
    BY <1>3 DEF OffsetIn
  <2>2. segs[SegOf(I.s.b)] = 0
    BY <1>3 DEF SegOf, Segments
  <2>3. OffsetIn(regs, I.s) = k
    BY <1>1, <2>1
  <2> QED
    BY <2>2, <2>3 DEF EA, EAIn
<1>4. ASSUME I.s.b = "bp", regs["bp"] = 0  PROVE EA(I.s) = Paragraph + k
  <2>1. OffsetIn(regs, I.s) = (0 + 0 + k) % Word
    BY <1>4 DEF OffsetIn
  <2>2. segs[SegOf(I.s.b)] = 1
    BY <1>4 DEF SegOf, Segments
  <2>3. OffsetIn(regs, I.s) = k
    BY <1>1, <2>1
  <2> QED
    BY <2>2, <2>3 DEF EA, EAIn
<1> QED
  BY <1>2, <1>3, <1>4

LEMMA MovLoads ==
  ASSUME Next, ~Irq, NEW k \in 0 .. 1, I = I2("mov", b8, R("al"), At(k)), segs = Segments,
         Paragraph \in Nat
  PROVE  /\ Stays /\ UNCHANGED <<flags, mem>> /\ ip' = ip + 1
         /\ regs' = PutReg(regs, "al", Cell(k))
<1>1. /\ I.op = "mov" /\ I.w = ByteSign /\ I.over = "no" /\ I.d.k = "reg" /\ I.d.r = "al"
      /\ I.s.k = "mem" /\ I.s.b = "no" /\ I.s.x = "no" /\ I.s.disp = k
  BY DEF I2, R, At, Mem, b8
<1>2. Mov
  BY <1>1, Dispatch
<1>3. Value(I.s) = Cell(k)
  BY <1>1, OperandAt
<1> QED
  BY <1>1, <1>2, <1>3 DEF Mov, Store, Proceed, fixed, Stays

LEMMA CmpAtBp ==
  ASSUME Next, ~Irq, I = I2("cmp", b8, R("al"), Mem("bp", "no", 0)), segs = Segments,
         Paragraph \in Nat, regs["bp"] = 0
  PROVE  /\ Stays /\ UNCHANGED <<regs, mem>> /\ ip' = ip + 1
         /\ flags' = FlagSub(flags, ByteSign, GetReg("al"), Cell(Paragraph))
<1>1. /\ I.op = "cmp" /\ I.w = ByteSign /\ I.over = "no" /\ I.d.k = "reg" /\ I.d.r = "al"
      /\ I.s.k = "mem" /\ I.s.b = "bp" /\ I.s.x = "no" /\ I.s.disp = 0
  BY DEF I2, R, Mem, b8
<1>2. Compare
  BY <1>1, Dispatch
<1>3. Value(I.s) = Cell(Paragraph) /\ Value(I.d) = GetReg("al")
  <2>1. Value(I.s) = Cell(Paragraph + 0)
    BY <1>1, OperandAt
  <2> QED
    BY <1>1, <2>1 DEF Value
<1> QED
  BY <1>1, <1>2, <1>3 DEF Compare, OnlyFlags, Proceed, fixed, Stays

LEMMA SbbAtBp ==
  ASSUME Next, ~Irq, I = I2("sbb", b8, R("al"), Mem("bp", "no", 1)), segs = Segments,
         Paragraph \in Nat, regs["bp"] = 0
  PROVE  LET r == OpSbb(flags, ByteSign, GetReg("al"), Cell(Paragraph + 1))
         IN  /\ Stays /\ mem' = mem /\ ip' = ip + 1
             /\ regs' = PutReg(regs, "al", r.v) /\ flags' = r.f
<1>1. /\ I.op = "sbb" /\ I.w = ByteSign /\ I.over = "no" /\ I.d.k = "reg" /\ I.d.r = "al"
      /\ I.s.k = "mem" /\ I.s.b = "bp" /\ I.s.x = "no" /\ I.s.disp = 1
  BY DEF I2, R, Mem, b8
<1>2. Sbb
  BY <1>1, Dispatch
<1>3. Value(I.s) = Cell(Paragraph + 1)
  BY <1>1, OperandAt
<1>4. Value(I.d) = GetReg("al")
  BY <1>1 DEF Value
<1> QED
  BY <1>1, <1>2, <1>3, <1>4 DEF Sbb, Result, Store, Proceed, fixed, Stays

ComparisonJobs == {"cmp", "cmp2"}

\* The operands of "cmp2".
X0 == ini.mem[0]
X1 == ini.mem[1]
Y0 == ini.mem[Paragraph]
Y1 == ini.mem[Paragraph + 1]

\* The flags of a comparison of AL and BL as loaded, and what PUSHF makes of them.
Compared(g) == \E f \in Flags : g = FlagSub(f, ByteSign, Al0, Bl0)
WithOverflow(g) == [g EXCEPT !.of = 1]

\* Where each routine is, and what its flags tell by then.
InCmp(p, st, rs, f) ==
  \/ p = 12 /\ st = << >> /\ rs = ini.regs
  \/ p = 13 /\ st = << >> /\ Compared(f)
  \/ p = 14 /\ \E g \in Flags : Compared(g) /\ st = <<MakeFlagsWord(WithOverflow(g))>> \o << >>
  \/ p \in {15, 16} /\ st = << >> /\ \E g \in Flags : Compared(g) /\ f = WithOverflow(g)
InCmp2(p, rs, f) ==
  \/ p = 12 /\ rs["bp"] = 0
  \/ p = 13 /\ rs["bp"] = 0 /\ rs["ax"] % Byte = X0
  \/ p = 14 /\ rs["bp"] = 0 /\ f.cf = Flag(Borrows)
  \/ p = 15 /\ rs["bp"] = 0 /\ rs["ax"] % Byte = X1 /\ f.cf = Flag(Borrows)
  \/ p = 16 /\ \E g \in Flags : f = FlagSbb(g, ByteSign, X1, Y1, Flag(Borrows))
ComparisonState(p, st, rs, f, m) ==
  /\ m = ini.mem
  /\ job = "cmp" => InCmp(p, st, rs, f)
  /\ job = "cmp2" => st = << >> /\ InCmp2(p, rs, f)

\* The inductive invariant of the comparisons.
ComparisonInv ==
  /\ \E loads \in Loads : ini \in loads
  /\ job \in ComparisonJobs =>
       /\ CpuTypeOK /\ Handling
       /\ GuestSegs = Segments /\ GuestCalls = << >>
       /\ ComparisonState(GuestIp, GuestStack, GuestRegs, GuestFlags, mem)

LEMMA ComparisonCode ==
  ASSUME WellLoaded(ini), job \in ComparisonJobs
  PROVE  /\ HandlerAt /\ code[16] = Halt
         /\ job = "cmp" => /\ code[12] = I2("cmp", b8, R("al"), R("bl")) /\ code[13] = I0("pushf")
                           /\ code[14] = I0("popf") /\ code[15] = If("l", 0)
         /\ job = "cmp2" => /\ code[12] = I2("mov", b8, R("al"), At(0))
                            /\ code[13] = I2("cmp", b8, R("al"), Mem("bp", "no", 0))
                            /\ code[14] = I2("mov", b8, R("al"), At(1))
                            /\ code[15] = I2("sbb", b8, R("al"), Mem("bp", "no", 1))
<1>1. CASE job = "cmp"
  <2>1. Routines[job] = << I2("cmp", b8, R("al"), R("bl")), I0("pushf"), I0("popf"), If("l", 0), Halt >>
    BY <1>1 DEF Routines
  <2> QED
    BY <1>1, <2>1, FiveInFront DEF HandlerAt
<1>2. CASE job = "cmp2"
  <2>1. Routines[job] = << I2("mov", b8, R("al"), At(0)), I2("cmp", b8, R("al"), Mem("bp", "no", 0)),
                           I2("mov", b8, R("al"), At(1)), I2("sbb", b8, R("al"), Mem("bp", "no", 1)), Halt >>
    BY <1>2 DEF Routines
  <2> QED
    BY <1>2, <2>1, FiveInFront DEF HandlerAt
<1> QED
  BY <1>1, <1>2 DEF ComparisonJobs

\* The operands are bytes.
LEMMA ComparisonOperands ==
  ASSUME \E loads \in Loads : ini \in loads
  PROVE  /\ Al0 \in Operand(ByteSign) /\ Bl0 \in Operand(ByteSign)
         /\ X0 \in Operand(ByteSign) /\ X1 \in Operand(ByteSign)
         /\ Y0 \in Operand(ByteSign) /\ Y1 \in Operand(ByteSign)
         /\ mem = ini.mem => /\ Cell(0) = X0 /\ Cell(1) = X1
                             /\ Cell(Paragraph) = Y0 /\ Cell(Paragraph + 1) = Y1
<1>1. /\ Paragraph \in Nat \ {0} /\ MarkAt = 4 * Paragraph
      /\ ini.mem \in [0 .. MarkAt -> 0 .. Byte - 1] /\ 2 * ByteSign = Byte
  BY Loaded, Sizes
<1>2. 0 \in 0 .. MarkAt /\ 1 \in 0 .. MarkAt /\ Paragraph \in 0 .. MarkAt /\ Paragraph + 1 \in 0 .. MarkAt
  BY <1>1
<1>3. /\ X0 \in 0 .. Byte - 1 /\ X1 \in 0 .. Byte - 1 /\ Y0 \in 0 .. Byte - 1 /\ Y1 \in 0 .. Byte - 1
      /\ Al0 \in 0 .. Byte - 1 /\ Bl0 \in 0 .. Byte - 1
  BY <1>1, <1>2, Operands DEF X0, X1, Y0, Y1
<1>4. mem = ini.mem => /\ Cell(0) = X0 /\ Cell(1) = X1
                       /\ Cell(Paragraph) = Y0 /\ Cell(Paragraph + 1) = Y1
  BY <1>1, <1>2 DEF Cell, X0, X1, Y0, Y1
<1> QED
  BY <1>1, <1>3, <1>4 DEF Operand

LEMMA SbbTyped ==
  ASSUME NEW f \in Flags, NEW a \in Operand(ByteSign), NEW b \in Operand(ByteSign), NEW c \in 0 .. 1
  PROVE  /\ FlagSbb(f, ByteSign, a, b, c) \in Flags
         /\ (b + c) % (2 * ByteSign) \in Operand(ByteSign)
         /\ (b + c) % (2 * ByteSign) = IF b + c = 2 * ByteSign THEN 0 ELSE b + c
         /\ (a - (b + c)) % (2 * ByteSign) \in Operand(ByteSign)
<1>1. ByteSign \in Nat \ {0} /\ 2 * ByteSign \in Nat \ {0}
  BY Sizes
<1>2. b + c \in 0 .. 2 * ByteSign /\ a - (b + c) \in Int
  BY <1>1 DEF Operand
<1>3. /\ (b + c) % (2 * ByteSign) = IF b + c = 2 * ByteSign THEN 0 ELSE b + c
      /\ (a - (b + c)) % (2 * ByteSign) \in 0 .. 2 * ByteSign - 1
  BY <1>1, <1>2
<1>4. (b + c) % (2 * ByteSign) \in Operand(ByteSign)
  BY <1>1, <1>2, <1>3 DEF Operand
<1>5. FlagSbb(f, ByteSign, a, b, c) \in Flags
  BY <1>1, <1>4, FlagSubTyped DEF FlagSbb
<1> QED
  BY <1>3, <1>4, <1>5 DEF Operand

\* What is said of the comparisons depends on the load.
LEMMA NextComparison ==
  ASSUME ini' = ini, NEW p, NEW st, NEW rs, NEW f, NEW m,
         GuestIp' = p, GuestStack' = st, GuestRegs' = rs, GuestFlags' = f, mem' = m,
         ComparisonState(p, st, rs, f, m)
  PROVE  ComparisonState(GuestIp, GuestStack, GuestRegs, GuestFlags, mem)'
<1>1. job' = job /\ ini.mem' = ini.mem /\ ini.regs' = ini.regs
  BY DEF job
<1>2. /\ X0' = X0 /\ X1' = X1 /\ Y0' = Y0 /\ Y1' = Y1 /\ Al0' = Al0 /\ Bl0' = Bl0
      /\ Borrows' = Borrows
  BY <1>1 DEF X0, X1, Y0, Y1, Al0, Bl0, Borrows
<1>3. \A g : Compared(g)' <=> Compared(g)
  BY <1>2 DEF Compared
<1> HIDE DEF GuestIp, GuestStack, GuestRegs, GuestFlags
<1>4. InCmp(GuestIp, GuestStack, GuestRegs, GuestFlags)' <=> InCmp(p, st, rs, f)
  BY <1>1, <1>3 DEF InCmp
<1>5. InCmp2(GuestIp, GuestRegs, GuestFlags)' <=> InCmp2(p, rs, f)
  BY <1>2 DEF InCmp2
<1> QED
  BY <1>1, <1>4, <1>5 DEF ComparisonState

LEMMA ComparisonsInit == Init => ComparisonInv
<1> SUFFICES ASSUME Init  PROVE ComparisonInv
  OBVIOUS
<1>1. /\ \E loads \in Loads : ini \in loads
      /\ regs = ini.regs /\ mem = ini.mem /\ ip = ini.ip /\ segs = ini.seg
      /\ stack = << >> /\ calls = << >>
  BY DEF Init
<1>2. flags \in Flags
  BY DEF Init, Flags
<1>3. WellLoaded(ini) /\ ini.regs \in RegFile /\ ini.seg = Segments
  BY <1>1, Loaded
<1>4. ip = 12
  BY <1>1, <1>3 DEF WellLoaded, Entry, Handlers
<1>5. CpuTypeOK
  <2>1. segs \in Selectors
    BY <1>1, <1>3 DEF Segments, Selectors
  <2> QED
    BY <1>1, <1>2, <1>3, <1>4, <2>1 DEF CpuTypeOK
<1>6. ~Interrupted /\ Handling
  BY <1>1 DEF Interrupted, Handling
<1>7. ComparisonState(ip, stack, regs, flags, mem)
  <2>1. job = "cmp2" => regs["bp"] = 0
    BY <1>1, <1>3 DEF WellLoaded, job
  <2> QED
    BY <1>1, <1>4, <2>1 DEF ComparisonState, InCmp, InCmp2
<1>8. /\ GuestSegs = Segments /\ GuestStack = stack /\ GuestCalls = << >>
      /\ GuestIp = ip /\ GuestRegs = regs /\ GuestFlags = flags
  BY <1>1, <1>3, <1>6 DEF GuestIp, GuestSegs, GuestStack, GuestRegs, GuestFlags, GuestCalls
<1>9. ComparisonState(GuestIp, GuestStack, GuestRegs, GuestFlags, mem)
  BY <1>7, <1>8
<1> QED
  BY <1>1, <1>5, <1>6, <1>8, <1>9 DEF ComparisonInv

\* A step of the guest between its interrupts.
LEMMA CmpStep ==
  ASSUME \E loads \in Loads : ini \in loads, job = "cmp", CpuTypeOK, segs = Segments, Next, ~Irq,
         InCmp(ip, stack, regs, flags)
  PROVE  /\ UNCHANGED <<ini, segs, calls, mem>> /\ ip' \in Int /\ stack' \in Seq(Int)
         /\ regs' \in RegFile /\ flags' \in Flags
         /\ InCmp(ip', stack', regs', flags')
<1>1. /\ regs \in RegFile /\ flags \in Flags /\ ip \in Int /\ Paragraph \in Nat /\ stack \in Seq(Int)
      /\ code[12] = I2("cmp", b8, R("al"), R("bl")) /\ code[13] = I0("pushf")
      /\ code[14] = I0("popf") /\ code[15] = If("l", 0) /\ code[16] = Halt
  BY Loaded, ComparisonCode DEF CpuTypeOK, ComparisonJobs
<1>2. I = code[ip]
  BY <1>1, InFront
<1>3. ASSUME NEW g \in Flags  PROVE WithOverflow(g) \in Flags /\ MakeFlagsWord(WithOverflow(g)) \in Int
  <2>1. WithOverflow(g) \in Flags
    BY OverflowUnread DEF WithOverflow
  <2> QED
    BY <2>1, FlagsWordTyped
<1>4. CASE ip = 12 /\ stack = << >> /\ regs = ini.regs
  <2>1. /\ Stays /\ UNCHANGED <<regs, mem>> /\ ip' = ip + 1
        /\ flags' = FlagSub(flags, ByteSign, GetReg("al"), GetReg("bl"))
    BY <1>1, <1>2, <1>4, CmpRegisters
  <2>2. GetReg("al") = Al0 /\ GetReg("bl") = Bl0
    BY <1>1, <1>4, ReadHalves DEF Al0, Bl0
  <2>3. flags' \in Flags /\ Compared(flags')
    BY <1>1, <2>1, <2>2, FlagSubTyped, ComparisonOperands, Sizes DEF Compared
  <2> QED
    BY <1>1, <1>4, <2>1, <2>3 DEF Stays, InCmp
<1>5. CASE ip = 13 /\ stack = << >> /\ Compared(flags)
  <2>1. /\ stack' = <<MakeFlagsWord(WithOverflow(flags))>> \o << >> /\ ip' = ip + 1
        /\ UNCHANGED <<ini, segs, calls, regs, flags, mem>>
    BY <1>1, <1>2, <1>5, PushfPushes DEF WithOverflow
  <2>2. stack' \in Seq(Int)
    BY <1>1, <1>3, <1>5, <2>1, OneOnTop
  <2> QED
    BY <1>1, <1>5, <2>1, <2>2 DEF InCmp
<1>6. CASE ip = 14 /\ \E g \in Flags : Compared(g) /\ stack = <<MakeFlagsWord(WithOverflow(g))>> \o << >>
  <2>1. PICK g \in Flags : Compared(g) /\ stack = <<MakeFlagsWord(WithOverflow(g))>> \o << >>
    BY <1>6
  <2>2. /\ flags' = DecodeFlagsWord(Head(stack)) /\ stack' = Below(stack, 1) /\ ip' = ip + 1
        /\ UNCHANGED <<ini, segs, calls, regs, mem>>
    BY <1>1, <1>2, <1>6, PopfPops
  <2>3. Head(stack) = MakeFlagsWord(WithOverflow(g)) /\ Below(stack, 1) = << >>
    <3>1. << >> \in Seq(Int) /\ MakeFlagsWord(WithOverflow(g)) \in Int
      BY <1>3
    <3> QED
      BY <2>1, <3>1, OneOnTop
  <2>4. flags' = WithOverflow(g) /\ flags' \in Flags
    BY <1>3, <2>2, <2>3, FlagsWordKeeps
  <2>5. stack' = << >> /\ ip' = 15
    BY <1>6, <2>2, <2>3
  <2>6. stack' \in Seq(Int) /\ ip' \in Int
    BY <2>5
  <2>7. ip' \in {15, 16} /\ stack' = << >> /\ \E f \in Flags : Compared(f) /\ flags' = WithOverflow(f)
    <3>1. \E f \in Flags : Compared(f) /\ flags' = WithOverflow(f)
      BY <2>1, <2>4, Zenon
    <3> QED
      BY <2>5, <3>1
  <2>8. InCmp(ip', stack', regs', flags')
    BY <2>7, Zenon DEF InCmp
  <2> QED
    BY <1>1, <2>2, <2>4, <2>6, <2>8
<1>7. CASE ip \in {15, 16} /\ stack = << >> /\ \E g \in Flags : Compared(g) /\ flags = WithOverflow(g)
  <2>1. /\ UNCHANGED <<ini, segs, calls, stack, regs, flags, mem>>
        /\ ip' = 16
    BY <1>1, <1>2, <1>7, JccGoesOn, HaltStays DEF Stays
  <2> QED
    BY <1>1, <1>7, <2>1 DEF InCmp
<1> QED
  BY <1>4, <1>5, <1>6, <1>7 DEF InCmp

LEMMA Cmp2Step ==
  ASSUME \E loads \in Loads : ini \in loads, job = "cmp2", CpuTypeOK, segs = Segments, Next, ~Irq,
         mem = ini.mem, InCmp2(ip, regs, flags)
  PROVE  /\ UNCHANGED <<ini, segs, calls, stack, mem>> /\ ip' \in Int
         /\ regs' \in RegFile /\ flags' \in Flags
         /\ InCmp2(ip', regs', flags')
<1>1. /\ regs \in RegFile /\ flags \in Flags /\ ip \in Int /\ Paragraph \in Nat
      /\ code[12] = I2("mov", b8, R("al"), At(0))
      /\ code[13] = I2("cmp", b8, R("al"), Mem("bp", "no", 0))
      /\ code[14] = I2("mov", b8, R("al"), At(1))
      /\ code[15] = I2("sbb", b8, R("al"), Mem("bp", "no", 1)) /\ code[16] = Halt
  BY Loaded, ComparisonCode DEF CpuTypeOK, ComparisonJobs
<1>2. I = code[ip]
  BY <1>1, InFront
<1>3. /\ X0 \in Operand(ByteSign) /\ X1 \in Operand(ByteSign)
      /\ Y0 \in Operand(ByteSign) /\ Y1 \in Operand(ByteSign)
      /\ Cell(0) = X0 /\ Cell(1) = X1 /\ Cell(Paragraph) = Y0 /\ Cell(Paragraph + 1) = Y1
      /\ ByteSign \in Nat \ {0} /\ Operand(ByteSign) = 0 .. Byte - 1
      /\ GetReg("al") = regs["ax"] % Byte /\ Flag(Borrows) \in 0 .. 1
  BY <1>1, ComparisonOperands, Sizes, ReadHalves DEF Operand, Flag
<1>4. ASSUME NEW v \in Operand(ByteSign)
      PROVE  /\ PutReg(regs, "al", v) \in RegFile /\ PutReg(regs, "al", v)["ax"] % Byte = v
             /\ PutReg(regs, "al", v)["bp"] = regs["bp"]
  <2>1. v \in 0 .. Byte - 1 /\ "bp" \in Reg \ {"ax"}
    BY <1>3 DEF Reg
  <2> QED
    BY <1>1, <2>1, PutAl
<1>5. CASE ip = 12 /\ regs["bp"] = 0
  <2>1. /\ Stays /\ UNCHANGED <<flags, mem>> /\ ip' = ip + 1 /\ regs' = PutReg(regs, "al", Cell(0))
    BY <1>1, <1>2, <1>5, MovLoads
  <2>2. regs' \in RegFile /\ regs'["ax"] % Byte = X0 /\ regs'["bp"] = 0
    BY <1>3, <1>4, <1>5, <2>1
  <2> QED
    BY <1>1, <1>5, <2>1, <2>2 DEF Stays, InCmp2
<1>6. CASE ip = 13 /\ regs["bp"] = 0 /\ regs["ax"] % Byte = X0
  <2>1. /\ Stays /\ UNCHANGED <<regs, mem>> /\ ip' = ip + 1
        /\ flags' = FlagSub(flags, ByteSign, X0, Y0)
    BY <1>1, <1>2, <1>3, <1>6, CmpAtBp
  <2>2. flags' \in Flags /\ flags'.cf = Flag(X0 < Y0)
    <3> HIDE DEF X0, Y0
    <3>1. FlagSub(flags, ByteSign, X0, Y0) \in Flags
      BY <1>1, <1>3, FlagSubTyped
    <3>2. FlagSub(flags, ByteSign, X0, Y0).cf = Flag(X0 < Y0)
      <4>1. /\ flags \in Flags /\ ByteSign \in Nat \ {0}
            /\ X0 \in Operand(ByteSign) /\ Y0 \in Operand(ByteSign)
        BY <1>1, <1>3
      <4> QED
        BY <4>1, SubFields, Zenon
    <3> QED
      BY <2>1, <3>1, <3>2
  <2>3. flags'.cf = Flag(Borrows)
    BY <2>2 DEF Borrows, X0, Y0
  <2> QED
    BY <1>1, <1>6, <2>1, <2>2, <2>3 DEF Stays, InCmp2
<1>7. CASE ip = 14 /\ regs["bp"] = 0 /\ flags.cf = Flag(Borrows)
  <2>1. /\ Stays /\ UNCHANGED <<flags, mem>> /\ ip' = ip + 1 /\ regs' = PutReg(regs, "al", Cell(1))
    BY <1>1, <1>2, <1>7, MovLoads
  <2>2. regs' \in RegFile /\ regs'["ax"] % Byte = X1 /\ regs'["bp"] = 0
    BY <1>3, <1>4, <1>7, <2>1
  <2> QED
    BY <1>1, <1>7, <2>1, <2>2 DEF Stays, InCmp2
<1>8. CASE ip = 15 /\ regs["bp"] = 0 /\ regs["ax"] % Byte = X1 /\ flags.cf = Flag(Borrows)
  <2> DEFINE r == OpSbb(flags, ByteSign, X1, Y1)
  <2>1. Stays /\ mem' = mem /\ ip' = ip + 1 /\ regs' = PutReg(regs, "al", r.v) /\ flags' = r.f
    BY <1>1, <1>2, <1>3, <1>8, SbbAtBp
  <2>2. /\ r.v = (X1 - (Y1 + flags.cf)) % (2 * ByteSign)
        /\ r.f = FlagSbb(flags, ByteSign, X1, Y1, Flag(Borrows))
    BY <1>8 DEF OpSbb
  <2> HIDE DEF r
  <2>3. r.v \in Operand(ByteSign) /\ r.f \in Flags
    BY <1>1, <1>3, <1>8, <2>2, SbbTyped
  <2>4. regs' \in RegFile
    BY <1>4, <2>1, <2>3
  <2> QED
    BY <1>1, <1>8, <2>1, <2>2, <2>3, <2>4 DEF Stays, InCmp2
<1>9. CASE ip = 16 /\ \E g \in Flags : flags = FlagSbb(g, ByteSign, X1, Y1, Flag(Borrows))
  <2>1. Stays /\ UNCHANGED <<ip, regs, flags, mem>>
    BY <1>1, <1>2, <1>9, HaltStays
  <2> QED
    BY <1>1, <1>9, <2>1 DEF Stays, InCmp2
<1> QED
  BY <1>5, <1>6, <1>7, <1>8, <1>9 DEF InCmp2

LEMMA ComparisonsStep == ComparisonInv /\ [Next]_vars => ComparisonInv'
<1> SUFFICES ASSUME ComparisonInv, [Next]_vars  PROVE ComparisonInv'
  OBVIOUS
<1>1. \E loads \in Loads : ini \in loads
  BY DEF ComparisonInv
<1>2. ini' = ini
  BY IniStays DEF vars
<1>3. (\E loads \in Loads : ini \in loads)'
  BY <1>1, <1>2
<1>4. CASE job \notin ComparisonJobs
  BY <1>2, <1>3, <1>4 DEF ComparisonInv, job
<1>5. CASE job \in ComparisonJobs
  <2>1. /\ CpuTypeOK /\ Handling /\ GuestSegs = Segments /\ GuestCalls = << >> /\ HandlerAt
        /\ ComparisonState(GuestIp, GuestStack, GuestRegs, GuestFlags, mem)
    BY <1>1, <1>5, Loaded, ComparisonCode DEF ComparisonInv
  <2>2. SUFFICES /\ CpuTypeOK' /\ Handling'
                 /\ (GuestSegs = Segments)' /\ (GuestCalls = << >>)'
                 /\ ComparisonState(GuestIp, GuestStack, GuestRegs, GuestFlags, mem)'
    BY <1>3 DEF ComparisonInv
  <2>3. CASE CpuTypeOK' /\ Handling' /\ UNCHANGED guest
    <3>1. /\ GuestSegs' = GuestSegs /\ GuestStack' = GuestStack /\ GuestCalls' = GuestCalls
          /\ GuestIp' = GuestIp /\ GuestRegs' = GuestRegs /\ GuestFlags' = GuestFlags
          /\ mem' = mem /\ Segments' = Segments
      BY <2>3 DEF guest, Segments
    <3>2. ComparisonState(GuestIp, GuestStack, GuestRegs, GuestFlags, mem)'
      BY <1>2, <2>1, <3>1, NextComparison
    <3> QED
      BY <2>1, <2>3, <3>1, <3>2
  <2>4. CASE Next /\ ~Irq /\ ~Interrupted
    <3>1. /\ segs = Segments /\ calls = << >> /\ ComparisonState(ip, stack, regs, flags, mem)
      BY <2>1, <2>4 DEF GuestSegs, GuestStack, GuestCalls, GuestIp, GuestRegs, GuestFlags
    <3>2. /\ UNCHANGED <<ini, segs, calls>> /\ ip' \in Int /\ stack' \in Seq(Int)
          /\ regs' \in RegFile /\ flags' \in Flags
          /\ ComparisonState(ip', stack', regs', flags', mem')
      <4>1. CASE job = "cmp"
        BY <1>1, <2>1, <2>4, <3>1, <4>1, CmpStep DEF ComparisonState
      <4>2. CASE job = "cmp2"
        <5>1. /\ UNCHANGED <<ini, segs, calls, stack, mem>> /\ ip' \in Int
              /\ regs' \in RegFile /\ flags' \in Flags /\ InCmp2(ip', regs', flags')
          BY <1>1, <2>1, <2>4, <3>1, <4>2, Cmp2Step DEF ComparisonState
        <5> QED
          BY <2>1, <3>1, <4>2, <5>1 DEF ComparisonState, CpuTypeOK
      <4> QED
        BY <1>5, <4>1, <4>2 DEF ComparisonJobs
    <3>3. CpuTypeOK' /\ ~Interrupted' /\ Handling'
      BY <2>1, <2>4, <3>1, <3>2 DEF CpuTypeOK, Interrupted, Handling
    <3>4. /\ (GuestSegs = Segments)' /\ (GuestCalls = << >>)'
          /\ GuestIp' = ip' /\ GuestStack' = stack' /\ GuestRegs' = regs' /\ GuestFlags' = flags'
      BY <3>1, <3>2, <3>3
         DEF GuestSegs, GuestStack, GuestCalls, GuestIp, GuestRegs, GuestFlags, Segments
    <3>5. ComparisonState(GuestIp, GuestStack, GuestRegs, GuestFlags, mem)'
      BY <1>2, <3>2, <3>4, NextComparison
    <3> QED
      BY <3>3, <3>4, <3>5
  <2> QED
    BY <2>1, <2>3, <2>4, GuestMoves
<1> QED
  BY <1>4, <1>5

-----------------------------------------------------------------------------
(* The comparisons at their end *)

LEMMA CmpDone ==
  ASSUME ComparisonInv, job = "cmp", stack = << >>, ip > Entry
  PROVE  LET spoilt == ip > Entry + 1 /\ Relation("no", ByteSign, Al0, Bl0)
         IN  \A cc \in Conditions \ (IF spoilt THEN ReadOF ELSE {}) :
               Holds(cc, flags) <=> Relation(cc, ByteSign, Al0, Bl0)
<1>1. (\E loads \in Loads : ini \in loads) /\ CpuTypeOK /\ Handling /\ Entry = 12
  BY DEF ComparisonInv, ComparisonJobs, Entry, Handlers
<1>2. ~Interrupted
  BY <1>1, EndAlone
<1>3. InCmp(ip, stack, regs, flags)
  BY <1>2 DEF ComparisonInv, ComparisonJobs, ComparisonState, GuestIp, GuestStack, GuestRegs, GuestFlags
<1>4. Al0 \in Operand(ByteSign) /\ Bl0 \in Operand(ByteSign)
  BY <1>1, ComparisonOperands
<1>5. ASSUME NEW g, Compared(g)
      PROVE  /\ \A cc \in Conditions : Holds(cc, g) <=> Relation(cc, ByteSign, Al0, Bl0)
             /\ ~Relation("no", ByteSign, Al0, Bl0) => g.of = 1
  BY <1>4, <1>5, ConditionsDecide DEF Compared
<1>6. CASE ip = 13 /\ Compared(flags)
  <2>1. ~(ip > Entry + 1)
    BY <1>1, <1>6
  <2> QED
    BY <1>5, <1>6, <2>1
<1>7. CASE ip = 14 /\ \E g \in Flags : Compared(g) /\ stack = <<MakeFlagsWord(WithOverflow(g))>> \o << >>
  <2>1. PICK g \in Flags : stack = <<MakeFlagsWord(WithOverflow(g))>> \o << >>
    BY <1>7
  <2>2. << >> \in Seq(Int) /\ MakeFlagsWord(WithOverflow(g)) \in Int
    BY OverflowUnread, FlagsWordTyped DEF WithOverflow
  <2> QED
    BY <2>1, <2>2, OneOnTop
<1>8. CASE ip \in {15, 16} /\ \E g \in Flags : Compared(g) /\ flags = WithOverflow(g)
  <2>1. PICK g \in Flags : Compared(g) /\ flags = WithOverflow(g)
    BY <1>8
  <2>2. /\ \A cc \in Conditions \ ReadOF : Holds(cc, flags) <=> Holds(cc, g)
        /\ g.of = 1 => flags = g
    BY <2>1, OverflowUnread DEF WithOverflow
  <2>3. ip > Entry + 1
    BY <1>1, <1>8
  <2>4. CASE Relation("no", ByteSign, Al0, Bl0)
    BY <1>5, <2>1, <2>2, <2>3, <2>4
  <2>5. CASE ~Relation("no", ByteSign, Al0, Bl0)
    BY <1>5, <2>1, <2>2, <2>3, <2>5
  <2> QED
    BY <2>4, <2>5
<1>9. ip # 12
  BY <1>1
<1> QED
  BY <1>3, <1>6, <1>7, <1>8, <1>9 DEF InCmp

\* The value of two bytes as two's complement is that of the high one.
LEMMA SignedPair ==
  ASSUME NEW a \in Operand(ByteSign), NEW b \in Operand(ByteSign)
  PROVE  /\ Signed(ByteSign, b) \in Int /\ a + Byte * b \in Int
         /\ Signed(WordSign, a + Byte * b) = a + Byte * Signed(ByteSign, b)
<1>1. /\ ByteSign \in Nat \ {0} /\ Byte = 2 * ByteSign /\ Byte \in Nat \ {0}
      /\ WordSign = ByteSign * Byte /\ a \in 0 .. Byte - 1 /\ b \in 0 .. Byte - 1
  BY Sizes DEF WordSign, Operand
<1>2. Signed(ByteSign, b) = IF b >= ByteSign THEN b - Byte ELSE b
  BY <1>1 DEF Signed
<1>3. 0 \in 0 .. Byte - 1 /\ ByteSign \in Int /\ b \in Int
  BY <1>1
<1>4. a + Byte * b < 0 + Byte * ByteSign <=> b < ByteSign \/ (b = ByteSign /\ a < 0)
  BY <1>1, <1>3, PairsOrder
<1>5. /\ Byte * b \in Int /\ Byte * (b - Byte) = Byte * b - Byte * Byte
      /\ 2 * WordSign = Byte * Byte /\ Byte * ByteSign = WordSign /\ Byte * Byte \in Int
  BY <1>1
<1>6. a + Byte * b >= WordSign <=> b >= ByteSign
  BY <1>1, <1>4, <1>5
<1>7. CASE b >= ByteSign
  BY <1>1, <1>2, <1>5, <1>6, <1>7 DEF Signed
<1>8. CASE ~(b >= ByteSign)
  BY <1>1, <1>2, <1>5, <1>6, <1>8 DEF Signed
<1> QED
  BY <1>1, <1>7, <1>8

LEMMA Cmp2Done ==
  ASSUME ComparisonInv, job = "cmp2", Done
  PROVE  LET x == Pair(ini.mem, 0)  y == Pair(ini.mem, Paragraph)
         IN  /\ BorrowLost \/ \A cc \in {"b", "ae"} : Holds(cc, flags) <=> Relation(cc, WordSign, x, y)
             /\ SignLost \/ \A cc \in {"l", "ge"} : Holds(cc, flags) <=> Relation(cc, WordSign, x, y)
<1> DEFINE x == Pair(ini.mem, 0)
           y == Pair(ini.mem, Paragraph)
           h == ByteSign
           c == Flag(Borrows)
           d == (Y1 + c) % (2 * h)
<1>1. /\ \E loads \in Loads : ini \in loads
      /\ CpuTypeOK /\ Handling /\ stack = << >> /\ WellLoaded(ini) /\ Paragraph \in Nat
  BY Loaded DEF ComparisonInv, ComparisonJobs, Done
<1>2. ~Interrupted
  BY <1>1, EndAlone
<1>3. segs = Segments /\ InCmp2(ip, regs, flags) /\ ip \in Int
  BY <1>1, <1>2 DEF ComparisonInv, ComparisonJobs, ComparisonState, GuestIp, GuestSegs, GuestRegs,
     GuestFlags, CpuTypeOK
<1>4. code[ip].op = "jmp"
  BY <1>1, <1>3, InFront DEF Done, Halt, To, I0, I1, I2
<1>5. ip = 16
  <2>1. /\ code[12].op # "jmp" /\ code[13].op # "jmp" /\ code[14].op # "jmp" /\ code[15].op # "jmp"
    BY <1>1, ComparisonCode DEF ComparisonJobs, I2
  <2> QED
    BY <1>3, <1>4, <2>1 DEF InCmp2
<1>6. PICK g \in Flags : flags = FlagSbb(g, h, X1, Y1, c)
  BY <1>3, <1>5 DEF InCmp2
<1>7. /\ X0 \in 0 .. 2 * h - 1 /\ X1 \in 0 .. 2 * h - 1 /\ Y0 \in 0 .. 2 * h - 1 /\ Y1 \in 0 .. 2 * h - 1
      /\ h \in Nat \ {0} /\ Byte = 2 * h /\ Byte \in Nat \ {0} /\ c \in 0 .. 1
      /\ Operand(h) = 0 .. 2 * h - 1
  BY <1>1, ComparisonOperands, Sizes DEF Operand, Flag
<1>8. d \in Operand(h) /\ d = IF Y1 + c = 2 * h THEN 0 ELSE Y1 + c
  BY <1>6, <1>7, SbbTyped
<1>9. flags = FlagSub(g, h, X1, d)
  BY <1>6 DEF FlagSbb
<1> HIDE DEF d
<1>10. (Holds("b", flags) <=> X1 < d) /\ (Holds("l", flags) <=> Signed(h, X1) < Signed(h, d))
  BY <1>7, <1>8, <1>9, ComparisonDecides
<1>11. Holds("ae", flags) <=> ~Holds("b", flags)
  <2>1. flags.cf \in 0 .. 1
    BY <1>1 DEF CpuTypeOK, Flags
  <2>2. (Holds("ae", flags) <=> flags.cf = 0) /\ (Holds("b", flags) <=> flags.cf = 1)
    BY DEF Holds
  <2> QED
    BY <2>1, <2>2
<1>12. Holds("ge", flags) <=> ~Holds("l", flags)
  BY DEF Holds
<1>13. x = X0 + Byte * X1 /\ y = Y0 + Byte * Y1
  BY DEF Pair, X0, X1, Y0, Y1
<1> HIDE DEF x, y, h, c
<1>14. /\ Relation("b", WordSign, x, y) <=> x < y
       /\ Relation("ae", WordSign, x, y) <=> x >= y
       /\ Relation("l", WordSign, x, y) <=> Signed(WordSign, x) < Signed(WordSign, y)
       /\ Relation("ge", WordSign, x, y) <=> Signed(WordSign, x) >= Signed(WordSign, y)
  BY DEF Relation
<1>15. /\ x \in Int /\ y \in Int
       /\ Signed(h, X1) \in Int /\ Signed(h, Y1) \in Int
       /\ Signed(WordSign, x) = X0 + Byte * Signed(h, X1)
       /\ Signed(WordSign, y) = Y0 + Byte * Signed(h, Y1)
  BY <1>7, <1>13, SignedPair DEF h
<1>16. x < y <=> X1 < Y1 \/ (X1 = Y1 /\ X0 < Y0)
  <2>1. X0 \in 0 .. Byte - 1 /\ Y0 \in 0 .. Byte - 1 /\ X1 \in Int /\ Y1 \in Int
    BY <1>7
  <2> QED
    BY <1>7, <1>13, <2>1, PairsOrder
<1>17. /\ Signed(WordSign, x) < Signed(WordSign, y)
            <=> Signed(h, X1) < Signed(h, Y1) \/ (Signed(h, X1) = Signed(h, Y1) /\ X0 < Y0)
       /\ Signed(WordSign, x) \in Int /\ Signed(WordSign, y) \in Int
  <2>1. X0 \in 0 .. Byte - 1 /\ Y0 \in 0 .. Byte - 1
    BY <1>7
  <2> DEFINE p == Signed(h, X1)
             q == Signed(h, Y1)
  <2>2. p \in Int /\ q \in Int
    BY <1>15
  <2> HIDE DEF p, q
  <2>3. X0 + Byte * p < Y0 + Byte * q <=> p < q \/ (p = q /\ X0 < Y0)
    BY <1>7, <2>1, <2>2, PairsOrder
  <2>4. X0 + Byte * p \in Int /\ Y0 + Byte * q \in Int
    BY <1>7, <2>1, <2>2
  <2> QED
    BY <1>15, <2>3, <2>4 DEF p, q
<1>18. c = Flag(X0 < Y0) /\ (Borrows <=> X0 < Y0)
  BY DEF c, Borrows, X0, Y0
<1>19. ASSUME ~BorrowLost  PROVE X1 < d <=> x < y
  <2>1. d = Y1 + c
    BY <1>7, <1>8, <1>18, <1>19 DEF BorrowLost, Flag, Y1
  <2> QED
    BY <1>7, <1>16, <1>18, <2>1 DEF Flag
<1>20. ASSUME ~SignLost
       PROVE  Signed(h, X1) < Signed(h, d) <=> Signed(WordSign, x) < Signed(WordSign, y)
  <2>1. Signed(h, d) = Signed(h, Y1) + c
    <3>1. ~(c = 1 /\ Y1 = h - 1)
      BY <1>18, <1>20 DEF SignLost, Flag, Y1, h
    <3> QED
      BY <1>7, <1>8, <3>1 DEF Signed
  <2> QED
    BY <1>7, <1>15, <1>17, <1>18, <2>1 DEF Flag
<1>21. BorrowLost \/ \A cc \in {"b", "ae"} : Holds(cc, flags) <=> Relation(cc, WordSign, x, y)
  BY <1>10, <1>11, <1>14, <1>15, <1>19
<1>22. SignLost \/ \A cc \in {"l", "ge"} : Holds(cc, flags) <=> Relation(cc, WordSign, x, y)
  BY <1>10, <1>12, <1>14, <1>17, <1>20
<1> QED
  BY <1>21, <1>22 DEF x, y

LEMMA ComparisonsDone == ComparisonInv => ComparisonsDecide
<1>1. ASSUME ComparisonInv, job = "cmp", stack = << >>, ip > Entry
      PROVE  LET spoilt == ip > Entry + 1 /\ Relation("no", ByteSign, Al0, Bl0)
             IN  \A cc \in Conditions \ (IF spoilt THEN ReadOF ELSE {}) :
                   Holds(cc, flags) <=> Relation(cc, ByteSign, Al0, Bl0)
  BY <1>1, CmpDone
<1>2. ASSUME ComparisonInv, job = "cmp2", Done
      PROVE  LET x == Pair(ini.mem, 0)  y == Pair(ini.mem, Paragraph)
             IN  /\ BorrowLost \/ \A cc \in {"b", "ae"} : Holds(cc, flags) <=> Relation(cc, WordSign, x, y)
                 /\ SignLost \/ \A cc \in {"l", "ge"} : Holds(cc, flags) <=> Relation(cc, WordSign, x, y)
  BY <1>2, Cmp2Done
<1> QED
  BY <1>1, <1>2 DEF ComparisonsDecide

\* Every conditional jump after a comparison goes where its name says, whatever
\* interrupts come between, but for OF after PUSHF and the two operands that
\* flag_sbb8 spoils (cpu.c:281).
THEOREM ComparisonsAreRight == Spec => []ComparisonsDecide
<1>1. Init => ComparisonInv
  BY ComparisonsInit
<1>2. ComparisonInv /\ [Next]_vars => ComparisonInv'
  BY ComparisonsStep
<1>3. ComparisonInv => ComparisonsDecide
  BY ComparisonsDone
<1> QED
  BY <1>1, <1>2, <1>3, PTL DEF Spec
=============================================================================

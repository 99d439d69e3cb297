------------------------------ MODULE CpuRoutines -----------------------------
(***************************************************************************)
(* Guest routines for Cpu and what they must come to: sums and differences  *)
(* of several bytes, in binary and in decimal, shifts of double bytes,      *)
(* comparisons, multiplication and division, and string instructions.  An   *)
(* interrupt whose handler spoils the flags may come anywhere.  The         *)
(* exceptions in the properties are the errors the code has.                *)
(*                                                                         *)
(* Memory: operand a from DS:0, operand b from SS:0, results from ES:0, and *)
(* a mark the handlers of divide error and overflow leave.                  *)
(***************************************************************************)
EXTENDS Cpu

CONSTANT NibbleBits      \* shifts that move a nibble: 4

MarkAt == 4 * Paragraph
Segments == [cs |-> 0, ds |-> 0, ss |-> 1, es |-> 2]
b8  == ByteSign
b16 == WordSign

\* Operands and instructions
R(r) == [k |-> "reg", r |-> r]
N(v) == [k |-> "imm", v |-> v]
Mem(b, x, disp) == [k |-> "mem", b |-> b, x |-> x, disp |-> disp]
At(disp)  == Mem("no", "no", disp)
I2(op, w, d, s) ==
  [op |-> op, w |-> w, d |-> d, s |-> s, rep |-> 0, over |-> "no",
   disp |-> 0, cc |-> "o", base |-> Digits, n |-> 0, free |-> 0,
   r |-> "ds", far |-> [ip |-> 0, cs |-> 0]]
I1(op, w, d)  == I2(op, w, d, N(1))
I0(op)        == I1(op, b8, N(0))
To(op, disp)  == [I0(op) EXCEPT !.disp = disp]
If(cc, disp)  == [I0("jcc") EXCEPT !.cc = cc, !.disp = disp]
Str(op, w, rep) == [I1(op, w, N(0)) EXCEPT !.rep = rep]
ToEs(i) == [i EXCEPT !.over = "es"]
Halt == To("jmp", -1)

\* Far addresses of the instruction at x in code, segment registers, and
\* returns: free is how many of its caller's words a return is to take along.
FarAt(cs, x)   == [ip |-> x - cs * Paragraph, cs |-> cs]
FarCells(go)   == <<go.ip % Byte, go.ip \div Byte, go.cs % Byte, go.cs \div Byte>>
Seg(r)         == [k |-> "seg", r |-> r]
ForSeg(i, r)   == [i EXCEPT !.r = r]
ToFar(op, go)  == [I0(op) EXCEPT !.far = go]
Back(op, n, free) == [I0(op) EXCEPT !.n = n, !.free = free]

\* The handlers: an interrupt saves what it uses; a trap leaves a mark; a
\* service answers in CF and so drops the caller's flags.
Handlers == <<
  I1("push", b16, R("ax")), I1("neg", b16, R("ax")), I0("std"),
  I1("pop", b16, R("ax")), I0("iret"),
  I2("mov", b8, At(MarkAt), N(1)), I0("iret"),
  I0("stc"), Back("retf", 1, 0),
  I1("inc", b8, At(MarkAt)), I0("iret") >>
HandlerOf == [irq |-> FarAt(0, 1), divide |-> FarAt(2, 6), overflow |-> FarAt(2, 6),
              service |-> FarAt(3, 8), break |-> FarAt(1, 10)]
Entry == Len(Handlers) + 1

\* One byte after the other in a loop: SI and DI step with INC, which keeps the
\* carry from limb to limb.
Limb(op) == << I2("mov", b8, R("al"), Mem("no", "si", 0)), I2(op, b8, R("al"), Mem("bp", "si", 0)) >>
Stepping == << ToEs(I2("mov", b8, Mem("no", "di", 0), R("al"))),
               I1("inc", b16, R("si")), I1("inc", b16, R("di")) >>
Subroutine(body) == << To("call", 1), Halt, I0("clc") >> \o body \o << I0("ret") >>
Chain(op, adjust) == Subroutine(Limb(op) \o adjust \o Stepping \o << To("loop", -(6 + Len(adjust))) >>)
ChainByDec(op) == Subroutine(
  Limb(op) \o Stepping \o << I1("dec", b16, R("cx")), If("ne", -7), I0("cmc") >>)

Scan(kind) == << To("jcxz", 3), ToEs(I2("cmp", b8, R("al"), Mem("no", "di", 0))),
                 I2("lea", b16, R("di"), Mem("no", "di", 1)), To(kind, -3), Halt >>
Copy == << To("jcxz", 3), Str("lods", b8, 0), Str("stos", b8, 0), To("loop", -3), Halt >>

Routines == [
  add     |-> Chain("adc", <<>>),
  sub     |-> ChainByDec("sbb"),
  daa     |-> Chain("adc", << I0("daa") >>),
  das     |-> Chain("sbb", << I0("das") >>),
  signed  |-> << I2("add", b8, R("al"), R("bl")), I0("into"), Halt >>,
  neg     |-> << I1("neg", b8, At(1)), I1("neg", b8, At(0)),
                 I2("sbb", b8, At(1), N(0)), Halt >>,
  not     |-> << I1("not", b8, At(1)), I1("not", b8, At(0)), I0("stc"),
                 I2("adc", b8, At(0), N(0)), I2("adc", b8, At(1), N(0)), Halt >>,
  double  |-> << I1("shl", b8, At(0)), I1("rcl", b8, At(1)), Halt >>,
  halve   |-> << I1("shr", b8, At(1)), I1("rcr", b8, At(0)), Halt >>,
  halvesd |-> << I1("sar", b8, At(1)), I1("rcr", b8, At(0)), Halt >>,
  rotate  |-> << I2("mov", b8, R("cl"), N(NibbleBits)), I2("rol", b8, R("al"), R("cl")),
                 I2("xchg", b16, R("ax"), R("bx")), I2("ror", b8, R("al"), R("cl")), Halt >>,
  logic   |-> << I2("mov", b8, R("dl"), R("al")), I2("and", b8, R("dl"), R("bl")),
                 I2("mov", b8, R("dh"), R("al")), I2("or", b8, R("dh"), R("bl")),
                 I2("xor", b8, R("al"), R("bl")), Halt >>,
  aaa     |-> << I2("add", b8, R("al"), R("bl")), I0("aaa"), Halt >>,
  aas     |-> << I2("sub", b8, R("al"), R("bl")), I0("aas"), Halt >>,
  aam     |-> << I1("mul", b8, R("bl")), I0("aam"), Halt >>,
  aamzero |-> << [I0("aam") EXCEPT !.base = 0], Halt >>,
  aad     |-> << I0("aad"), I1("div", b8, R("bl")), Halt >>,
  cmp     |-> << I2("cmp", b8, R("al"), R("bl")), I0("pushf"), I0("popf"),
                 If("l", 0), Halt >>,
  cmp2    |-> << I2("mov", b8, R("al"), At(0)), I2("cmp", b8, R("al"), Mem("bp", "no", 0)),
                 I2("mov", b8, R("al"), At(1)), I2("sbb", b8, R("al"), Mem("bp", "no", 1)), Halt >>,
  test    |-> << I2("test", b8, R("al"), R("bl")), Halt >>,
  testev  |-> << I2("test", b8, R("bl"), N(ByteSign + 1)), Halt >>,
  mul     |-> << I1("mul", b8, R("bl")), I1("div", b8, R("bl")), Halt >>,
  imul    |-> << I1("imul", b8, R("bl")), I1("idiv", b8, R("bl")), Halt >>,
  mul16   |-> << I1("mul", b16, R("bx")), I1("div", b16, R("bx")), Halt >>,
  imul16  |-> << I1("imul", b16, R("bx")), I1("idiv", b16, R("bx")), Halt >>,
  div     |-> << I1("div", b8, R("bl")), Halt >>,
  idiv    |-> << I0("cbw"), I1("idiv", b8, R("bl")), Halt >>,
  div16   |-> << I1("div", b16, R("bx")), Halt >>,
  idiv16  |-> << I0("cwd"), I1("idiv", b16, R("bx")), Halt >>,
  movsb   |-> << Str("movs", b8, 1), Halt >>,
  movsw   |-> << Str("movs", b16, 1), Halt >>,
  movsd   |-> << I0("std"), Str("movs", b8, 1), I0("cld"), Halt >>,
  stosb   |-> << Str("stos", b8, 1), Halt >>,
  stosw   |-> << Str("stos", b16, 1), Halt >>,
  copy    |-> Copy,
  cmpsb   |-> << Str("cmps", b8, 1), Halt >>,
  cmpsw   |-> << Str("cmps", b16, 1), Halt >>,
  scasb   |-> << Str("scas", b8, 2), Halt >>,
  scasw   |-> << Str("scas", b16, 2), Halt >>,
  scanne  |-> Scan("loopnz"),
  scane   |-> Scan("loopz"),
  incmem  |-> << I0("stc"), I1("inc", b16, At(0)), I1("dec", b16, At(2)), Halt >>,
  far     |-> << I1("push", b16, R("ax")), ToFar("callfar", FarAt(3, Entry + 3)), Halt,
                 I1("push", b16, Seg("ds")), ForSeg(I2("lds", b16, R("si"), At(0)), "ds"),
                 I2("mov", b8, R("al"), Mem("no", "si", 0)),
                 ForSeg(I0("popseg"), "ds"), Back("retf", 1, 1) >>,
  callmp  |-> << I1("callfar", b16, At(0)), Halt, I0("nop"), I0("wait"), I0("esc"), Back("retf", 0, 0) >>,
  callev  |-> << I1("push", b16, R("ax")), I1("push", b16, R("cx")), I1("callev", b16, R("bx")),
                 Halt, I1("in", b16, N(0)), I1("out", b16, N(0)), Back("ret", 2, 2) >>,
  near    |-> << I1("push", b16, Seg("cs")), To("call", 1), Halt, Back("retf", 0, 1) >>,
  asint   |-> << I0("pushf"), ToFar("callfar", FarAt(1, Entry + 3)), Halt, Back("iret", 0, 1) >>,
  service |-> << I0("clc"), I0("int"), Halt >>,
  break   |-> << Back("int", 3, 0), ToEs(I2("mov", b8, R("al"), Mem("no", "no", MarkAt - 2 * Paragraph))),
                 Halt >>,
  jumps   |-> << ToFar("jmpfar", FarAt(2, Entry + 2)), Halt, I1("jmpfar", b16, At(0)), Halt,
                 I1("jmpev", b16, R("bx")), Halt,
                 I1("push", b16, At(4)), ForSeg(I0("popseg"), "cs"), Halt, Halt,
                 I2("mov", b8, At(MarkAt), N(1)), Halt >>,
  moves   |-> << I1("push", b16, R("ax")), I1("pop", b16, Mem("no", "no", 2)),
                 I2("xchg", b8, Mem("no", "si", 0), R("bl")),
                 I2("movseg", b16, Seg("es"), R("cx")),
                 ToEs(I0("xlat")), ToEs(I2("mov", b8, R("dl"), At(0))), Halt >>,
  swap    |-> << I2("xchg", b16, Mem("bx", "no", 0), R("bx")), Halt >>,
  les     |-> << ForSeg(I2("lds", b16, R("di"), At(0)), "es"), Str("stos", b8, 0), Halt >> ]

\* A start state: some registers, and the cells of memory from 0.
Load(job, rs, cells) ==
  [job |-> job, code |-> Handlers \o Routines[job], ip |-> Entry, seg |-> Segments,
   regs |-> [r \in Reg |-> IF r \in DOMAIN rs THEN rs[r] ELSE 0],
   mem |-> [x \in 0 .. MarkAt |-> IF x < Len(cells) THEN cells[x + 1] ELSE 0]]

\* String routines start at the front of their strings, or at the back to go
\* down, and both strings lie in front of where the next one begins.  A
\* comparison of two bytes has its second operand at SS:0.
StringJobs == {"movsb", "movsw", "movsd", "copy", "stosb", "stosw",
               "cmpsb", "cmpsw", "scasb", "scasw", "scanne", "scane"}
OfWords == {"movsw", "stosw", "cmpsw", "scasw"}
StringLoad(l) ==
  LET n == l.regs.cx
      first == IF l.job = "movsd" THEN (n - 1) % Word ELSE 0
  IN  /\ (IF l.job \in OfWords THEN 2 * n ELSE n) <= 2 * Paragraph
      /\ l.regs.si = first /\ l.regs.di = first

WellLoaded(l) ==
  /\ l.job \in DOMAIN Routines /\ l.code = Handlers \o Routines[l.job]
  /\ l.ip = Entry /\ l.seg = Segments
  /\ l.regs \in [Reg -> 0 .. Word - 1]
  /\ l.mem \in [0 .. MarkAt -> 0 .. Byte - 1] /\ l.mem[MarkAt] = 0
  /\ l.job \in StringJobs => StringLoad(l)
  /\ l.job = "cmp2" => l.regs.bp = 0

ASSUME RoutineAssumption ==
  /\ Paragraph \in Nat \ {0} /\ MarkAt < Word
  /\ Vectors = HandlerOf
  /\ \A loads \in Loads : \A l \in loads : WellLoaded(l)

-----------------------------------------------------------------------------
job    == ini.job
Done   == I = Halt /\ stack = <<>>
Marked == mem[MarkAt] = 1
Pair(m, at) == m[at] + Byte * m[at + 1]
DecimalOf(v) == (v \div Nibble) * Digits + (v % Nibble)
Al0 == ini.regs.ax % Byte
Ah0 == ini.regs.ax \div Byte
Bl0 == ini.regs.bx % Byte
Al  == GetReg("al")
Ah  == GetReg("ah")

\* The first limb borrows, and the second limb of b is such that flag_sbb's
\* v2 + v3 wraps, or becomes negative.
Borrows    == ini.mem[0] < ini.mem[Paragraph]
BorrowLost == Borrows /\ ini.mem[Paragraph + 1] = Byte - 1
SignLost   == Borrows /\ ini.mem[Paragraph + 1] = ByteSign - 1

(* A sum or difference of several limbs and its carry are exact, with INC,  *)
(* DEC, LOOP, CALL and an interrupt between the limbs (INC and DEC must not  *)
(* touch CF, IRET must bring it back).  Lost is only the borrow that leaves *)
(* a limb of all ones.  The logic operations and TEST go by the same bits.  *)
BinaryExact ==
  LET x == Pair(ini.mem, 0)  y == Pair(ini.mem, Paragraph)
      r == Pair(mem, 2 * Paragraph)  z == Pair(mem, 0)
  IN  /\ job = "add" => r + Byte * Byte * flags.cf = x + y
      /\ job = "sub" => r = (x - y) % (Byte * Byte) /\ (BorrowLost \/ flags.cf = Flag(x >= y))
      /\ job \in {"neg", "not"} => z = (-x) % (Byte * Byte)
      /\ job = "double" => z + Byte * Byte * flags.cf = 2 * x
      /\ job = "halve" => 2 * z + flags.cf = x
      /\ job = "halvesd" => 2 * Signed(WordSign, z) + flags.cf = Signed(WordSign, x)
      /\ job = "signed" =>
           Marked <=> Signed(b8, Al0) + Signed(b8, Bl0) \notin -ByteSign .. ByteSign - 1
      /\ job = "rotate" =>
           /\ GetReg("bl") = (Al0 % Nibble) * Nibble + (Al0 \div Nibble)
           /\ Al = (Bl0 % Nibble) * Nibble + (Bl0 \div Nibble)
      /\ job = "logic" =>
           GetReg("dl") + GetReg("dh") = Al0 + Bl0 /\ Al = GetReg("dh") - GetReg("dl")
      /\ job \in {"test", "testev"} =>
           LET mask == IF job = "test" THEN Al0 ELSE ByteSign + 1
           IN  /\ Holds("e", flags) <=> \A w \in BitWeights : Bit(mask, w) + Bit(Bl0, w) < 2
               /\ Holds("s", flags) <=> Bit(mask, ByteSign) + Bit(Bl0, ByteSign) = 2

(* Decimal operands give decimal results.  DAA keeps the carry between      *)
(* bytes when their sum is below 160, so that it is its second step that    *)
(* carries; DAS never passes a borrow on.                                   *)
DecimalExact ==
  LET d(m, at) == DecimalOf(m[at])
      base == Digits * Digits
      s0 == d(ini.mem, 0) + d(ini.mem, Paragraph)
      kept(s) == s < Digits * Nibble
      x == d(ini.mem, 0) + base * d(ini.mem, 1)
      y == d(ini.mem, Paragraph) + base * d(ini.mem, Paragraph + 1)
      r0 == d(mem, 2 * Paragraph)
      r == r0 + base * d(mem, 2 * Paragraph + 1)
  IN  /\ job = "daa" =>
           /\ r0 = s0 % base
           /\ kept(s0) => r = (x + y) % (base * base)
           /\ (kept(s0) /\ kept((x + y) \div base)) => flags.cf = Flag(x + y >= base * base)
      /\ job = "das" =>
           /\ r0 = (d(ini.mem, 0) - d(ini.mem, Paragraph)) % base
           /\ ~Borrows => r = (x - y) % (base * base)
      /\ job = "aaa" =>
           /\ Al = (Al0 + Bl0) % Digits
           /\ Ah = (Ah0 + ((Al0 + Bl0) \div Digits)) % Byte
           /\ flags.cf = Flag(Al0 + Bl0 >= Digits)
      /\ job = "aas" =>
           /\ Al = (Al0 - Bl0) % Digits
           /\ Ah = (Ah0 - Flag(Al0 < Bl0)) % Byte
           /\ flags.cf = Flag(Al0 < Bl0)
      /\ job = "aam" => Al = (Al0 * Bl0) % Digits /\ Ah = (Al0 * Bl0) \div Digits

(* What is moved arrives: through far pointers, PUSH and POP, exchanges, a   *)
(* table, and jumps that change the segment.  XCHG of a register with the   *)
(* memory it addresses writes where the new contents point.                 *)
MovesExact ==
  LET x == Pair(ini.mem, 0)
      far == Pair(ini.mem, 0) + Paragraph * Pair(ini.mem, 2)
  IN  /\ job = "incmem" =>
           /\ Pair(mem, 0) = (x + 1) % Word /\ Pair(mem, 2) = (Pair(ini.mem, 2) - 1) % Word
           /\ flags.cf = 1
      /\ job = "far" => Al = ini.mem[far] /\ segs = ini.seg
      /\ job = "service" => flags.cf = 1
      /\ job \in {"jumps", "break"} => Marked
      /\ job = "moves" =>
           /\ Pair(mem, 2) = ini.regs.ax
           /\ mem[ini.regs.si] = Bl0 /\ GetReg("bl") = ini.mem[ini.regs.si]
           /\ segs.es = ini.regs.cx
           /\ GetReg("dl") = mem[Paragraph * segs.es]
           /\ Al = mem[Paragraph * segs.es + regs.bx + Al0]
      /\ job = "swap" =>
           LET old == Pair(ini.mem, ini.regs.bx)
           IN  regs.bx = old /\ (old = ini.regs.bx => mem = ini.mem)
      /\ job = "les" => mem[far] = Al0 /\ regs.di = (x + 1) % Word

(* Sums, differences, shifts and decimal adjustment, over several bytes and *)
(* with interrupts between them, come out right (ADC, SBB, RCL, RCR, DAA,   *)
(* AAA and the rest, and every instruction that must keep a flag), and what *)
(* is moved arrives.                                                        *)
SumsExact == Done => BinaryExact /\ DecimalExact /\ MovesExact

-----------------------------------------------------------------------------
\* What each condition should mean for operands x and y of width h, and which
\* of them read OF.
Relation(cc, h, x, y) ==
  LET sx == Signed(h, x)  sy == Signed(h, y)
      overflow == sx - sy \notin -h .. h - 1
  IN  [o |-> overflow, no |-> ~overflow, b |-> x < y, ae |-> x >= y,
       e |-> x = y, ne |-> x # y, be |-> x <= y, a |-> x > y,
       s |-> (x - y) % (2 * h) >= h, ns |-> (x - y) % (2 * h) < h,
       p |-> Parity((x - y) % Byte) = 1, np |-> Parity((x - y) % Byte) = 0,
       l |-> sx < sy, ge |-> sx >= sy, le |-> sx <= sy, g |-> sx > sy][cc]
ReadOF == {"o", "no", "l", "ge", "le", "g"}
Conditions == ReadOF \cup {"b", "ae", "e", "ne", "be", "a", "s", "ns", "p", "np"}

(* After a comparison every conditional jump goes where its name says,      *)
(* whatever interrupts come between, also after PUSHF and POPF - which set  *)
(* OF, so signed conditions are right then only if OF was set - and, for    *)
(* CMP and SBB of two bytes, except where the borrow spoils the operand.    *)
ComparisonsDecide ==
  /\ job = "cmp" /\ stack = <<>> /\ ip > Entry =>
       LET spoilt == ip > Entry + 1 /\ Relation("no", ByteSign, Al0, Bl0)
       IN  \A cc \in Conditions \ (IF spoilt THEN ReadOF ELSE {}) :
             Holds(cc, flags) <=> Relation(cc, ByteSign, Al0, Bl0)
  /\ job = "cmp2" /\ Done =>
       LET x == Pair(ini.mem, 0)  y == Pair(ini.mem, Paragraph)
       IN  /\ BorrowLost \/ \A cc \in {"b", "ae"} : Holds(cc, flags) <=> Relation(cc, WordSign, x, y)
           /\ SignLost \/ \A cc \in {"l", "ge"} : Holds(cc, flags) <=> Relation(cc, WordSign, x, y)

-----------------------------------------------------------------------------
\* Truncated quotient and remainder of n by d.
Truncated(n, d) ==
  LET q == Magnitude(n) \div Magnitude(d)
      t == IF (n < 0) # (d < 0) THEN -q ELSE q
  IN  [q |-> t, r |-> n - t * d]

(* A division gives quotient and remainder of what was divided, or a divide *)
(* error when there is none that fits, and undoes a multiplication.  With a *)
(* negative divisor the byte form of IDIV is wrong and the word form gives  *)
(* the remainder the wrong sign.                                            *)
DivisionExact == Done =>
  LET al == Signed(b8, Al0)  bl == Signed(b8, Bl0)
      ax == Signed(b16, ini.regs.ax)  bx == Signed(b16, ini.regs.bx)
      word == ini.regs.dx * Word + ini.regs.ax
      sized(h, n, d) == d # 0 /\ n \div d < 2 * h
  IN  /\ job = "div" =>
           IF sized(b8, ini.regs.ax, Bl0)
           THEN ~Marked /\ Al * Bl0 + Ah = ini.regs.ax /\ Ah < Bl0
           ELSE Marked /\ regs.ax = ini.regs.ax
      /\ job = "div16" =>
           IF sized(b16, word, ini.regs.bx)
           THEN ~Marked /\ regs.ax * ini.regs.bx + regs.dx = word /\ regs.dx < ini.regs.bx
           ELSE Marked /\ regs.ax = ini.regs.ax /\ regs.dx = ini.regs.dx
      /\ job = "idiv" =>
           /\ bl > 0 =>
                /\ ~Marked
                /\ Signed(b8, Al) = Truncated(al, bl).q
                /\ Signed(b8, Ah) = Truncated(al, bl).r
           /\ bl = 0 => Marked
      /\ job = "idiv16" =>
           /\ (bx # 0 /\ ~(bx = -1 /\ ax = -WordSign)) =>
                /\ ~Marked
                /\ Signed(b16, regs.ax) = Truncated(ax, bx).q
                /\ Signed(b16, regs.dx) = Truncated(ax, bx).r * (IF bx < 0 THEN -1 ELSE 1)
           /\ bx = 0 => Marked
      /\ job \in {"mul", "imul"} =>
           /\ (bl > 0 \/ (job = "mul" /\ bl # 0)) => (~Marked /\ Al = Al0 /\ Ah = 0)
           /\ job = "mul" => flags.cf = Flag(Al0 * Bl0 >= Byte)
      /\ job \in {"mul16", "imul16"} =>
           (bx # 0 => ~Marked /\ regs.ax = ini.regs.ax /\ regs.dx = 0)
      /\ job = "aad" =>
           LET n == (Digits * Ah0 + Al0) % Byte
           IN  IF Bl0 = 0 THEN Marked
               ELSE ~Marked /\ Al = n \div Bl0 /\ Ah = n % Bl0
      /\ job = "aamzero" => Marked

-----------------------------------------------------------------------------
\* Elements of the strings at DS:SI and ES:DI as loaded.
Element(segment, w, i) ==
  IF w = ByteSign THEN ini.mem[ini.seg[segment] * Paragraph + i]
  ELSE Pair(ini.mem, ini.seg[segment] * Paragraph + 2 * i)
Size(w) == IF w = ByteSign THEN 1 ELSE 2

\* The destination has become new(0), new(1), ... in its first n bytes.
Written(n, new(_)) ==
  \A x \in DOMAIN mem :
    LET i == x - ini.seg.es * Paragraph
    IN  mem[x] = IF i \in 0 .. n - 1 THEN new(i) ELSE ini.mem[x]

\* A search over n elements ended at the first one in stop, with ZF telling.
Searched(w, stop, zfAtStop, pointers) ==
  LET n == ini.regs.cx
      k == IF stop = {} THEN n ELSE Min(stop) + 1
  IN  /\ regs.cx = n - k
      /\ \A r \in {"si", "di"} : regs[r] = IF r \in pointers THEN k * Size(w) ELSE ini.regs[r]
      /\ n > 0 => flags.zf = IF stop = {} THEN 1 - zfAtStop ELSE zfAtStop

(* A repeated string instruction does what its iterations come to: no       *)
(* element is missed or done twice by an interrupt, none is done for CX = 0, *)
(* and a search stops at its first hit with CX, the pointers and ZF telling *)
(* where.  The hand-made loops agree.                                       *)
StringsComplete == Done =>
  LET n == ini.regs.cx
      differ(w) == {i \in 0 .. n - 1 : Element("ds", w, i) # Element("es", w, i)}
      found(w, v) == {i \in 0 .. n - 1 : Element("es", w, i) = v}
  IN  /\ job \in {"movsb", "copy", "movsd"} =>
           regs.cx = 0 /\ Written(n, LAMBDA i : Element("ds", ByteSign, i))
      /\ job = "movsw" => regs.cx = 0 /\ Written(2 * n, LAMBDA i : Element("ds", ByteSign, i))
      /\ job \in {"movsb", "copy"} => regs.si = n /\ regs.di = n
      /\ job = "movsd" => regs.si = Word - 1 /\ regs.di = Word - 1 /\ flags.df = 0
      /\ job = "stosb" => regs.cx = 0 /\ Written(n, LAMBDA i : Al0)
      /\ job = "stosw" => regs.cx = 0 /\ Written(2 * n, LAMBDA i : IF i % 2 = 0 THEN Al0 ELSE Ah0)
      /\ job = "cmpsb" => Searched(ByteSign, differ(ByteSign), 0, {"si", "di"})
      /\ job = "cmpsw" => Searched(WordSign, differ(WordSign), 0, {"si", "di"})
      /\ job \in {"scasb", "scanne"} => Searched(ByteSign, found(ByteSign, Al0), 1, {"di"})
      /\ job = "scasw" => Searched(WordSign, found(WordSign, ini.regs.ax), 1, {"di"})
      /\ job = "scane" =>
           Searched(ByteSign, (0 .. n - 1) \ found(ByteSign, Al0), 0, {"di"})

-----------------------------------------------------------------------------
(* A return goes back to where its call was made or its interrupt came in,  *)
(* in the segment of that place, with the stack as it was but for the       *)
(* parameters the routine takes along: near and far calls through all their *)
(* forms, an interrupt's entry and IRET, a far call made to look like an     *)
(* interrupt and the reverse, RETF 2 out of an interrupt.  A request taken  *)
(* anywhere between leaves no trace in registers and flags.                 *)
ReturnsToCaller ==
  LET call == Head(calls)
  IN  /\ ip' = call.ip /\ segs' = call.segs
      /\ stack' = Below(call.stack, I.free)
      /\ call.irq => regs' = call.regs /\ flags' = call.flags
ControlReturns == [][Len(calls') < Len(calls) => ReturnsToCaller]_vars
=============================================================================

---------------------------------- MODULE Cpu ---------------------------------
(***************************************************************************)
(* The instructions of the 8086 as cpu_exec of src/src/cpu.c executes them, *)
(* one action per family of opcodes, on registers, memory, flags and a      *)
(* stack, with an interrupt possible in front of every instruction.  What   *)
(* an instruction computes is in CpuAlu; HLT, TF and the interrupt          *)
(* controller are in InterruptPath.                                         *)
(*                                                                         *)
(* The guest is a routine of decoded instructions with a state to start it  *)
(* in (Loads).  ip counts instructions instead of bytes, and the stack is a *)
(* sequence of words apart from memory: what lies below SP is not kept, and *)
(* SP itself is not loaded.                                                 *)
(***************************************************************************)
EXTENDS CpuAlu, Sequences

CONSTANTS
  Loads,       \* sets of start states: [job, code, ip, regs, seg, mem]
  Paragraph,   \* segments are this many bytes apart: 16
  Vectors,     \* the interrupts used -> [ip, cs] of their handlers
  PortBytes    \* what a device may answer

VARIABLES
  ini,         \* the load the guest was started with
  regs, segs, flags, mem, ip,
  stack,       \* top first
  calls        \* history: the calls and interrupts that have not returned

vars == <<ini, regs, segs, flags, mem, ip, stack, calls>>
fixed == <<ini, segs, calls>>

Reg  == {"ax", "bx", "cx", "dx", "si", "di", "bp"}
Half == [al |-> [r |-> "ax", at |-> 1], ah |-> [r |-> "ax", at |-> Byte],
         bl |-> [r |-> "bx", at |-> 1], bh |-> [r |-> "bx", at |-> Byte],
         cl |-> [r |-> "cx", at |-> 1], ch |-> [r |-> "cx", at |-> Byte],
         dl |-> [r |-> "dx", at |-> 1], dh |-> [r |-> "dx", at |-> Byte]]

Init ==
  /\ \E loads \in Loads : ini \in loads
  /\ regs = ini.regs /\ mem = ini.mem /\ ip = ini.ip
  /\ \E b \in 0 .. 1 :
       flags = [cf |-> b, pf |-> b, af |-> b, zf |-> b, sf |-> b, of |-> b, df |-> 0, ifl |-> 1]
  /\ segs = ini.seg /\ stack = <<>> /\ calls = <<>>

\* The instruction in front: op, w (its width, as a sign weight), d and s (its
\* operands), rep and over (its prefixes), and what its family needs more.
code == ini.code
I    == code[segs.cs * Paragraph + ip]
Is(ops)  == I.op \in ops
Proceed  == ip' = ip + 1
Jump(go) == ip' = IF go THEN ip + 1 + I.disp ELSE ip + 1

-----------------------------------------------------------------------------
(* Operands.  A register, an immediate value, or memory at the sum of a     *)
(* base register b, an index register x and a displacement.                 *)

GetReg(r) ==
  IF r \in Reg THEN regs[r] ELSE (regs[Half[r].r] \div Half[r].at) % Byte
PutReg(rs, r, v) ==
  IF r \in Reg THEN [rs EXCEPT ![r] = v]
  ELSE LET h == Half[r]
       IN  [rs EXCEPT ![h.r] = @ + (v - ((@ \div h.at) % Byte)) * h.at]

\* useseg: a prefix decides, or else SS for addresses from BP and DS for others.
SegOf(base) == IF I.over # "no" THEN I.over ELSE IF base = "bp" THEN "ss" ELSE "ds"
OffsetIn(rs, o) ==
  LET part(r) == IF r = "no" THEN 0 ELSE rs[r]
  IN  (part(o.b) + part(o.x) + o.disp) % Word
Offset(o)   == OffsetIn(regs, o)
EAIn(rs, o) == OffsetIn(rs, o) + segs[SegOf(o.b)] * Paragraph
EA(o)       == EAIn(regs, o)

Cell(a) == IF a \in DOMAIN mem THEN mem[a] ELSE Byte - 1
ReadMem(w, a) == IF w = ByteSign THEN Cell(a) ELSE Cell(a) + Byte * Cell(a + 1)
WriteMem(w, a, v) ==
  [x \in DOMAIN mem |->
     IF x = a THEN v % Byte
     ELSE IF w # ByteSign /\ x = a + 1 THEN v \div Byte
     ELSE mem[x]]

Value(o) ==
  CASE o.k = "reg" -> GetReg(o.r)
    [] o.k = "seg" -> segs[o.r]
    [] o.k = "imm" -> o.v
    [] o.k = "mem" -> ReadMem(I.w, EA(o))

Store(o, v) ==
  /\ regs' = IF o.k = "reg" THEN PutReg(regs, o.r, v) ELSE regs
  /\ mem' = IF o.k = "mem" THEN WriteMem(I.w, EA(o), v) ELSE mem

\* What most instructions do: read two operands, write value and flags of r.
Result(r) == Store(I.d, r.v) /\ flags' = r.f /\ Proceed /\ UNCHANGED <<fixed, stack>>
OnlyFlags(f) == flags' = f /\ Proceed /\ UNCHANGED <<fixed, regs, mem, stack>>

-----------------------------------------------------------------------------
(* The stack, calls and returns *)

Pushed(words) == stack' = words \o stack
Below(st, n)  == SubSeq(st, n + 1, Len(st))
Popped(n)     == stack' = Below(stack, n)

\* Execution goes on at cs:next with words pushed; the guest is expected back
\* at "back" in this segment.
Enter(words, next, cs, back, irq) ==
  /\ Pushed(words) /\ ip' = next /\ segs' = [segs EXCEPT !.cs = cs]
  /\ calls' = <<[ip |-> back, segs |-> segs, stack |-> stack, irq |-> irq,
                 regs |-> regs, flags |-> flags]>> \o calls
Leave(n, next, cs) ==
  /\ Popped(n) /\ ip' = next /\ segs' = [segs EXCEPT !.cs = cs]
  /\ calls' = Tail(calls)

\* cpu_intcall: ip already points behind the instruction that traps.
Intcall(vector, from) ==
  /\ Enter(<<from, segs.cs, MakeFlagsWord(flags)>>, Vectors[vector].ip, Vectors[vector].cs,
           from, vector = "irq")
  /\ flags' = [flags EXCEPT !.ifl = 0]
  /\ UNCHANGED <<ini, regs, mem>>

-----------------------------------------------------------------------------
(* Arithmetic and logic *)

And == Is({"and"}) /\ Result(OpAnd(flags, I.w, Value(I.d), Value(I.s)))
Or  == Is({"or"})  /\ Result(OpOr(flags, I.w, Value(I.d), Value(I.s)))
Xor == Is({"xor"}) /\ Result(OpXor(flags, I.w, Value(I.d), Value(I.s)))

\* TEST of a register, or of AL and AX with an immediate value; others are in
\* group 3.
Lo == IF I.w = ByteSign THEN "al" ELSE "ax"
TestGrouped == I.s.k = "imm" /\ ~(I.d.k = "reg" /\ I.d.r = Lo)
TestFlags   == OnlyFlags(OpAnd(flags, I.w, Value(I.d), Value(I.s)).f)
TestBits == Is({"test"}) /\ ~TestGrouped /\ TestFlags
TestEv   == Is({"test"}) /\ TestGrouped /\ TestFlags

Add == Is({"add"}) /\ Result(OpAdd(flags, I.w, Value(I.d), Value(I.s)))
Adc == Is({"adc"}) /\ Result(OpAdc(flags, I.w, Value(I.d), Value(I.s)))
Sub == Is({"sub"}) /\ Result(OpSub(flags, I.w, Value(I.d), Value(I.s)))
Sbb == Is({"sbb"}) /\ Result(OpSbb(flags, I.w, Value(I.d), Value(I.s)))

Compare == Is({"cmp"}) /\ OnlyFlags(FlagSub(flags, I.w, Value(I.d), Value(I.s)))

\* Words in registers have opcodes of their own; bytes and memory are in the
\* groups 0xFE and 0xFF.
Grouped   == I.w = ByteSign \/ I.d.k = "mem"
Increment == Is({"inc"}) /\ ~Grouped /\ Result(OpInc(flags, I.w, Value(I.d)))
Decrement == Is({"dec"}) /\ ~Grouped /\ Result(OpDec(flags, I.w, Value(I.d)))
IncDecEv ==
  /\ Grouped
  /\ \/ Is({"inc"}) /\ Result(OpInc(flags, I.w, Value(I.d)))
     \/ Is({"dec"}) /\ Result(OpDec(flags, I.w, Value(I.d)))

Negate ==
  \/ Is({"not"}) /\ Result(OpNot(flags, I.w, Value(I.d)))
  \/ Is({"neg"}) /\ Result(OpNeg(flags, I.w, Value(I.d)))

\* The count is 1 or the contents of CL.
Shift ==
  /\ Is({"rol", "ror", "rcl", "rcr", "shl", "shr", "sar"})
  /\ Result(OpShift(I.op, I.w, flags, Value(I.d), Value(I.s)))

Hi == IF I.w = ByteSign THEN "ah" ELSE "dx"
PutDouble(r) == regs' = PutReg(PutReg(regs, Hi, r.hi), Lo, r.lo)

Multiply ==
  /\ Is({"mul", "imul"})
  /\ LET a == GetReg(Lo)  b == Value(I.d)
         r == IF Is({"mul"}) THEN OpMul(flags, I.w, b, a) ELSE OpImul(flags, I.w, a, b)
     IN  PutDouble(r) /\ flags' = r.f
  /\ Proceed /\ UNCHANGED <<fixed, mem, stack>>

Division ==
  LET n == GetReg(Hi) * 2 * I.w + GetReg(Lo)
  IN  IF Is({"div"}) THEN OpDiv(I.w, n, Value(I.d)) ELSE OpIdiv(I.w, n, Value(I.d))
Divide ==
  /\ Is({"div", "idiv"}) /\ ~Division.error
  /\ PutDouble(Division) /\ Proceed
  /\ UNCHANGED <<fixed, flags, mem, stack>>
DivideError == Is({"div", "idiv"}) /\ Division.error /\ Intcall("divide", ip + 1)

Grp3 == TestEv \/ Negate \/ Multiply \/ Divide \/ DivideError

DecimalResult(r, x) ==
  regs' = PutReg(regs, r, x.v) /\ flags' = x.f /\ Proceed /\ UNCHANGED <<fixed, mem, stack>>
Aaa == Is({"aaa"}) /\ DecimalResult("ax", OpAaa(flags, regs.ax))
Aas == Is({"aas"}) /\ DecimalResult("ax", OpAas(flags, regs.ax))
Daa == Is({"daa"}) /\ DecimalResult("al", OpDaa(flags, GetReg("al")))
Das == Is({"das"}) /\ DecimalResult("al", OpDas(flags, GetReg("al")))
Aam == Is({"aam"}) /\ I.base # 0 /\ DecimalResult("ax", OpAam(flags, regs.ax, I.base))
AamError == Is({"aam"}) /\ I.base = 0 /\ Intcall("divide", ip + 1)
Aad == Is({"aad"}) /\ DecimalResult("ax", OpAad(flags, regs.ax, I.base))

SetReg(r, v) ==
  regs' = PutReg(regs, r, v) /\ Proceed /\ UNCHANGED <<fixed, flags, mem, stack>>
Cbw == Is({"cbw"}) /\ SetReg("ah", IF Bit(GetReg("al"), ByteSign) = 1 THEN Byte - 1 ELSE 0)
Cwd == Is({"cwd"}) /\ SetReg("dx", IF Bit(GetReg("ah"), ByteSign) = 1 THEN Word - 1 ELSE 0)

SetFlag ==
  \/ Is({"cmc"}) /\ OnlyFlags([flags EXCEPT !.cf = 1 - @])
  \/ Is({"clc"}) /\ OnlyFlags([flags EXCEPT !.cf = 0])
  \/ Is({"stc"}) /\ OnlyFlags([flags EXCEPT !.cf = 1])
  \/ Is({"cld"}) /\ OnlyFlags([flags EXCEPT !.df = 0])
  \/ Is({"std"}) /\ OnlyFlags([flags EXCEPT !.df = 1])

-----------------------------------------------------------------------------
(* Data transfer and the stack *)

Mov  == Is({"mov"}) /\ Store(I.d, Value(I.s)) /\ Proceed /\ UNCHANGED <<fixed, flags, stack>>
SetSeg(r, v) ==
  segs' = [segs EXCEPT ![r] = v] /\ Proceed /\ UNCHANGED <<ini, calls, flags>>
MovSeg == Is({"movseg"}) /\ SetSeg(I.d.r, Value(I.s)) /\ UNCHANGED <<regs, mem, stack>>
Lea  == Is({"lea"}) /\ SetReg(I.d.r, Offset(I.s))

\* LDS and LES: r is the segment register to load.
LoadPointer ==
  /\ Is({"lds"})
  /\ regs' = PutReg(regs, I.d.r, ReadMem(WordSign, EA(I.s)))
  /\ SetSeg(I.r, ReadMem(WordSign, EA(I.s) + 2))
  /\ UNCHANGED <<mem, stack>>

Xlat ==
  /\ Is({"xlat"})
  /\ SetReg("al", Cell(segs[SegOf("bx")] * Paragraph + regs.bx + GetReg("al")))

\* XCHG computes the address of d again after s has changed.
Xchg ==
  /\ Is({"xchg"})
  /\ LET rs == PutReg(regs, I.s.r, Value(I.d))
     IN  IF I.d.k = "reg"
         THEN regs' = PutReg(rs, I.d.r, GetReg(I.s.r)) /\ mem' = mem
         ELSE regs' = rs /\ mem' = WriteMem(I.w, EAIn(rs, I.d), GetReg(I.s.r))
  /\ Proceed /\ UNCHANGED <<fixed, flags, stack>>

\* Ports: a word is two bytes.  What OUT does is a matter of the devices.
In ==
  /\ Is({"in"})
  /\ \E lo, hi \in PortBytes :
       SetReg(Lo, IF I.w = ByteSign THEN lo ELSE lo + Byte * hi)
Out == Is({"out"}) /\ OnlyFlags(flags)

\* NOP, LOCK, and opcodes an 8086 lacks
Nop  == Is({"nop"}) /\ OnlyFlags(flags)
Wait == Is({"wait"}) /\ OnlyFlags(flags)
\* What an 8087 would execute: do8087 steps over the byte behind the opcode,
\* which is all of an operand without a displacement.
Esc  == Is({"esc"}) /\ OnlyFlags(flags)

PushValue == /\ Pushed(<<Value(I.d)>>) /\ Proceed /\ UNCHANGED <<fixed, regs, flags, mem>>
Push    == Is({"push"}) /\ I.d.k = "reg" /\ PushValue
PushSeg == Is({"push"}) /\ I.d.k = "seg" /\ PushValue
PushEv  == Is({"push"}) /\ I.d.k = "mem" /\ PushValue
Pop  == /\ Is({"pop"}) /\ I.d.k = "reg"
        /\ regs' = PutReg(regs, I.d.r, Head(stack)) /\ Popped(1)
        /\ Proceed /\ UNCHANGED <<fixed, flags, mem>>
PopEv == /\ Is({"pop"}) /\ I.d.k = "mem"
         /\ Store(I.d, Head(stack)) /\ Popped(1)
         /\ Proceed /\ UNCHANGED <<fixed, flags>>
PopSeg == /\ Is({"popseg"}) /\ SetSeg(I.r, Head(stack)) /\ Popped(1)
          /\ UNCHANGED <<regs, mem>>

\* PUSHF ORs 0x0800 into the word it pushes: bit 11 is OF.
Pushf == /\ Is({"pushf"})
         /\ Pushed(<<MakeFlagsWord([flags EXCEPT !.of = 1])>>)
         /\ Proceed /\ UNCHANGED <<fixed, regs, flags, mem>>
Popf  == /\ Is({"popf"})
         /\ flags' = DecodeFlagsWord(Head(stack)) /\ Popped(1)
         /\ Proceed /\ UNCHANGED <<fixed, regs, mem>>

-----------------------------------------------------------------------------
(* Control transfer *)

Jcc == Is({"jcc"}) /\ Jump(Holds(I.cc, flags)) /\ UNCHANGED <<fixed, regs, flags, mem, stack>>
Jmp == Is({"jmp"}) /\ Jump(TRUE) /\ UNCHANGED <<fixed, regs, flags, mem, stack>>

\* Far targets follow the opcode or are read from memory, offset first.
FarTarget ==
  IF I.d.k = "mem"
  THEN [ip |-> ReadMem(WordSign, EA(I.d)), cs |-> ReadMem(WordSign, EA(I.d) + 2)]
  ELSE I.far
GoTo(next, cs) ==
  /\ ip' = next /\ segs' = [segs EXCEPT !.cs = cs]
  /\ UNCHANGED <<ini, calls, regs, flags, mem, stack>>
JmpEv  == Is({"jmpev"}) /\ GoTo(Value(I.d), segs.cs)
JmpFar == Is({"jmpfar"}) /\ I.d.k # "mem" /\ GoTo(I.far.ip, I.far.cs)
JmpMp  == Is({"jmpfar"}) /\ I.d.k = "mem" /\ GoTo(FarTarget.ip, FarTarget.cs)

CountDown == (regs.cx - 1) % Word
Loop ==
  /\ \/ Is({"loop"})   /\ Jump(CountDown # 0)
     \/ Is({"loopz"})  /\ Jump(CountDown # 0 /\ flags.zf = 1)
     \/ Is({"loopnz"}) /\ Jump(CountDown # 0 /\ flags.zf = 0)
  /\ regs' = [regs EXCEPT !.cx = CountDown]
  /\ UNCHANGED <<fixed, flags, mem, stack>>
Jcxz == Is({"jcxz"}) /\ Jump(regs.cx = 0) /\ UNCHANGED <<fixed, regs, flags, mem, stack>>

\* A near call stays in its segment and pushes one word, a far one two.
NearCall(next) ==
  Enter(<<ip + 1>>, next, segs.cs, ip + 1, FALSE) /\ UNCHANGED <<ini, regs, flags, mem>>
\* Mutant: the offset is pushed first.
FarCallTurned(go) ==
  /\ Enter(<<segs.cs, ip + 1>>, go.ip, go.cs, ip + 1, FALSE)
  /\ UNCHANGED <<ini, regs, flags, mem>>
FarCall(go) ==
  /\ Enter(<<ip + 1, segs.cs>>, go.ip, go.cs, ip + 1, FALSE)
  /\ UNCHANGED <<ini, regs, flags, mem>>
Call    == Is({"call"}) /\ NearCall(ip + 1 + I.disp)
CallEv  == Is({"callev"}) /\ NearCall(Value(I.d))
CallFar == Is({"callfar"}) /\ I.d.k # "mem" /\ FarCall(I.far)
CallMp  == Is({"callfar"}) /\ I.d.k = "mem" /\ FarCall(FarTarget)

\* RET and RETF with a number discard that many words of parameters.
Ret  == /\ Is({"ret"}) /\ I.n = 0
        /\ Leave(1, Head(stack), segs.cs) /\ UNCHANGED <<ini, regs, flags, mem>>
RetN == /\ Is({"ret"}) /\ I.n # 0
        /\ Leave(1 + I.n, Head(stack), segs.cs) /\ UNCHANGED <<ini, regs, flags, mem>>
Retf == /\ Is({"retf"}) /\ I.n = 0
        /\ Leave(2, Head(stack), stack[2]) /\ UNCHANGED <<ini, regs, flags, mem>>
RetfN == /\ Is({"retf"}) /\ I.n # 0
         /\ Leave(2 + I.n, Head(stack), stack[2]) /\ UNCHANGED <<ini, regs, flags, mem>>

IntN == Is({"int"}) /\ I.n # 3 /\ Intcall("service", ip + 1)
Int3 == Is({"int"}) /\ I.n = 3 /\ Intcall("break", ip + 1)
Into == /\ Is({"into"})
        /\ \/ flags.of = 1 /\ Intcall("overflow", ip + 1)
           \/ flags.of = 0 /\ OnlyFlags(flags)
Iret == /\ Is({"iret"})
        /\ Leave(3, Head(stack), stack[2]) /\ flags' = DecodeFlagsWord(stack[3])
        /\ UNCHANGED <<ini, regs, mem>>

-----------------------------------------------------------------------------
(* String instructions.  One iteration per cpu_exec; a repeated one sets ip  *)
(* back to firstip, its first prefix, and looks at CX when it comes again.  *)

Spent  == I.rep # 0 /\ regs.cx = 0
Delta  == (IF I.w = ByteSign THEN 1 ELSE 2) * (IF flags.df = 1 THEN -1 ELSE 1)
Source == regs.si + segs[IF I.over # "no" THEN I.over ELSE "ds"] * Paragraph
Target == regs.di + segs.es * Paragraph

Advance(pointers) ==
  [r \in Reg |->
     IF r \in pointers THEN (regs[r] + Delta) % Word
     ELSE IF r = "cx" /\ I.rep # 0 THEN CountDown
     ELSE regs[r]]
Repeat(stop) == ip' = IF I.rep = 0 \/ stop THEN ip + 1 ELSE ip

Strings == {"movs", "cmps", "stos", "lods", "scas"}
StringSpent == Is(Strings) /\ Spent /\ Proceed /\ UNCHANGED <<fixed, regs, flags, mem, stack>>

Movs ==
  /\ Is({"movs"}) /\ ~Spent
  /\ mem' = WriteMem(I.w, Target, ReadMem(I.w, Source))
  /\ regs' = Advance({"si", "di"}) /\ Repeat(FALSE)
  /\ UNCHANGED <<fixed, flags, stack>>

Stos ==
  /\ Is({"stos"}) /\ ~Spent
  /\ mem' = WriteMem(I.w, Target, GetReg(Lo))
  /\ regs' = Advance({"di"}) /\ Repeat(FALSE)
  /\ UNCHANGED <<fixed, flags, stack>>

Lods ==
  /\ Is({"lods"}) /\ ~Spent
  /\ regs' = PutReg(Advance({"si"}), Lo, ReadMem(I.w, Source)) /\ Repeat(FALSE)
  /\ UNCHANGED <<fixed, flags, mem, stack>>

\* Mutant: REPNE stops as REPE does.
StopsAtDifference(f) == I.rep # 0 /\ f.zf = 0

\* rep 1 is REPE, 2 is REPNE.
Stops(f) == (I.rep = 1 /\ f.zf = 0) \/ (I.rep = 2 /\ f.zf = 1)
CompareStep(f, pointers) ==
  /\ flags' = f /\ regs' = Advance(pointers) /\ Repeat(Stops(f))
  /\ UNCHANGED <<fixed, mem, stack>>
Cmps ==
  /\ Is({"cmps"}) /\ ~Spent
  /\ CompareStep(FlagSub(flags, I.w, ReadMem(I.w, Source), ReadMem(I.w, Target)), {"si", "di"})
Scas ==
  /\ Is({"scas"}) /\ ~Spent
  /\ CompareStep(FlagSub(flags, I.w, GetReg(Lo), ReadMem(I.w, Target)), {"di"})

-----------------------------------------------------------------------------

\* cpu_interruptCheck in front of an instruction, with a request pending.
Irq == flags.ifl = 1 /\ Intcall("irq", ip)

Grp5 == IncDecEv \/ CallEv \/ CallMp \/ JmpEv \/ JmpMp \/ PushEv

Next ==
  \/ Irq
  \/ And \/ Or \/ Xor \/ Add \/ Adc \/ Sub \/ Sbb \/ Compare \/ Increment \/ Decrement
  \/ TestBits \/ Grp3 \/ Grp5 \/ Shift
  \/ Aaa \/ Aas \/ Daa \/ Das \/ Aam \/ AamError \/ Aad \/ Cbw \/ Cwd \/ SetFlag
  \/ Mov \/ MovSeg \/ Lea \/ LoadPointer \/ Xlat \/ Xchg \/ In \/ Out \/ Nop
  \/ Wait \/ Esc
  \/ Push \/ PushSeg \/ Pop \/ PopEv \/ PopSeg \/ Pushf \/ Popf
  \/ Jcc \/ Jmp \/ JmpFar \/ Loop \/ Jcxz
  \/ Call \/ CallFar \/ Ret \/ RetN \/ Retf \/ RetfN
  \/ IntN \/ Int3 \/ Into \/ Iret
  \/ StringSpent \/ Movs \/ Stos \/ Lods \/ Cmps \/ Scas

Spec == Init /\ [][Next]_vars
=============================================================================

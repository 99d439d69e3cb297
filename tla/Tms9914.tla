------------------------------ MODULE Tms9914 ------------------------------
(***************************************************************************)
(* Several TMS9914 chips on one GPIB, and the processors that use them.    *)
(*                                                                         *)
(* A line is a wired OR.  A chip that changes a line it drives calls every *)
(* chip, itself included, in the order they hang on the bus, before        *)
(* set_signal() returns; each of them may run its own update_fsm() and     *)
(* change further lines from inside the call.  "stack" holds the calls in  *)
(* progress: all of that happens between two accesses of a processor or    *)
(* two timer events.                                                       *)
(***************************************************************************)
EXTENDS Tms9914Device, Sequences

CONSTANTS
  N,             \* number of chips, numbered along the bus
  Address,       \* Address[d]: the bits of the address chip d was set up with
  Scenarios      \* what the processors do: a set of [Devices -> Seq(access)]

Devices == 1..N

ASSUME NAssumption == N \in Nat \ {0}
ASSUME AddressAssumption == Address \in [Devices -> SUBSET (0..4)]
ASSUME ScenarioAssumption ==
  \A program \in Scenarios : \A d \in Devices :
    /\ Len(program[d]) \in Nat /\ DOMAIN program[d] = 1..Len(program[d])
    /\ \A i \in DOMAIN program[d] :
         program[d][i].op = "write" => program[d][i].reg \in Registers

VARIABLES
  dev,           \* dev[d]: the chip
  stack,         \* calls in progress, the innermost first
  scenario,      \* the programs of this behaviour
  pc,            \* pc[d]: accesses processor d has made
  seen           \* seen[d]: interrupt bits it has read and not acted upon

vars == <<dev, stack, scenario, pc, seen>>

Init ==
  /\ dev = [d \in Devices |-> [PowerOn EXCEPT !.address = Address[d]]]
  /\ stack = <<>>
  /\ scenario \in Scenarios
  /\ pc = [d \in Devices |-> 0]
  /\ seen = [d \in Devices |-> {}]

Settled == stack = <<>>
guests == <<scenario, pc, seen>>

----------------------------------------------------------------------------
(* The bus.                                                                *)
Level(s) == \E d \in Devices : s \in dev[d].own
Dio == UNION {dev[d].dio : d \in Devices}

\* set_signal(): a call that does not change what the chip drives returns at once.
SetSignal(d, r, s, v) ==
  IF v = (s \in r.own) THEN <<>> ELSE << [op |-> "drive", d |-> d, s |-> s, v |-> v] >>

\* The lines each state machine drives, in order.
Drives(d, r, machine) ==
  CASE machine = "SH" -> SetSignal(d, r, "DAV", r.sh = "STRS")
    [] machine = "AH" ->
         SetSignal(d, r, "NRFD", r.ah \in {"ANRS", "ACDS1", "ACDS2", "AWNS"})
           \o SetSignal(d, r, "NDAC", r.ah \in {"ANRS", "ACRS", "ACDS1", "ACDS2"})
    [] machine = "SR" -> SetSignal(d, r, "SRQ", r.sr = "SRQS")
    [] machine = "C" ->
         SetSignal(d, r, "ATN", r.c \in {"CACS", "CSWS", "CAWS", "CPWS"})
           \o SetSignal(d, r, "EOI", r.eoi_signal)

\* The top frame has run: chip d is r, "rest" is what the frame leaves to do.
Replace(d, r, rest) ==
  /\ dev' = [dev EXCEPT ![d] = r]
  /\ stack' = rest \o Tail(stack)
  /\ UNCHANGED guests

Top(op) == stack # <<>> /\ Head(stack).op = op
Call(op, d) == << [op |-> op, d |-> d] >>

\* One pass of the loop of update_fsm() begins: the source handshake.
Pass(d, r) ==
  LET r1 == StepSH([r EXCEPT !.no_reflection = TRUE, !.changed = r.ext_state_change,
                             !.ext_state_change = FALSE])
  IN Replace(d, r1, Drives(d, r1, "SH") \o Call("AH", d))

\* update_fsm() is called; it returns at once when it is running already.
Update ==
  /\ Top("update")
  /\ LET d == Head(stack).d IN
       IF dev[d].no_reflection THEN Replace(d, dev[d], <<>>) ELSE Pass(d, dev[d])

AcceptorPhase ==
  /\ Top("AH")
  /\ LET d == Head(stack).d
         r == StepAH(dev[d], Dio)
     IN Replace(d, r, Drives(d, r, "AH") \o Call("SR", d))

RequestPhase ==
  /\ Top("SR")
  /\ LET d == Head(stack).d
         r == StepSR(StepPP(StepL(StepT(dev[d]))))
     IN Replace(d, r, Drives(d, r, "SR") \o Call("C", d))

ControllerPhase ==
  /\ Top("C")
  /\ LET d == Head(stack).d
         r == StepC(StepRL(dev[d]))
     IN Replace(d, r, Drives(d, r, "C") \o Call("end", d))

\* set_dio(), then another pass if something changed.
EndOfPass ==
  /\ Top("end")
  /\ LET d == Head(stack).d
         r == [dev[d] EXCEPT !.dio = dev[d].dio_byte]
     IN IF r.changed THEN Pass(d, r)
        ELSE Replace(d, [r EXCEPT !.no_reflection = FALSE, !.eoi_signal = FALSE, !.dio_byte = {}],
                     <<>>)

Drive ==
  /\ Top("drive")
  /\ LET f == Head(stack) IN
       Replace(f.d, [dev[f.d] EXCEPT !.own = Put(@, f.s, f.v)], << [op |-> "tell", s |-> f.s] >>)

\* Mutant: only one chip is told.
TellOnce ==
  /\ Top("tell")
  /\ LET s == Head(stack).s
         stale == {d \in Devices : Has(dev[d], s) # Level(s)}
     IN \/ stale = {} /\ dev' = dev /\ stack' = Tail(stack)
        \/ \E d \in stale :
             /\ \A e \in stale : d <= e
             /\ dev' = [dev EXCEPT ![d].ext = Put(@, s, Level(s))]
             /\ stack' = Call("update", d) \o Tail(stack)
  /\ UNCHANGED guests

\* set_ext_signal() of the next chip whose copy of the line differs from the line.
Tell ==
  /\ Top("tell")
  /\ LET s == Head(stack).s
         stale == {d \in Devices : Has(dev[d], s) # Level(s)}
     IN \/ stale = {} /\ dev' = dev /\ stack' = Tail(stack)
        \/ \E d \in stale :
             /\ \A e \in stale : d <= e
             /\ dev' = [dev EXCEPT ![d].ext = Put(@, s, Level(s))]
             /\ stack' = Call("update", d)
                           \o (IF s = "SRQ" /\ Level(s) THEN Call("srq", d) ELSE <<>>) \o stack
  /\ UNCHANGED guests

\* srq_w() after set_ext_signal(): the controller in charge is interrupted.
SrqInterrupt ==
  /\ Top("srq")
  /\ LET d == Head(stack).d
         r == dev[d]
     IN Replace(d, IF ContR(r) /\ Has(r, "SRQ") THEN SetInt1(r, "SRQ") ELSE r, <<>>)

SicCommand ==
  /\ Top("sic")
  /\ LET d == Head(stack).d IN Replace(d, SicTail(dev[d]), <<>>)

Bus ==
  \/ Update \/ AcceptorPhase \/ RequestPhase \/ ControllerPhase \/ EndOfPass
  \/ Drive \/ Tell \/ SrqInterrupt \/ SicCommand

----------------------------------------------------------------------------
(* What makes the chips move: timers and processors.                       *)
Frames(d, r, calls) ==
  CASE calls = "nothing" -> <<>>
    [] calls = "fsm" -> Call("update", d)
    [] calls = "ren" -> SetSignal(d, r, "REN", "sre" \in r.cmd)
    [] calls = "sic" -> SetSignal(d, r, "IFC", "sic" \in r.cmd) \o Call("sic", d) \o Call("update", d)

Perform(d, result) ==
  /\ dev' = [dev EXCEPT ![d] = result.r]
  /\ stack' = Frames(d, result.r, result.calls)

Timer(d, x) ==
  /\ Settled /\ x \in dev[d].timers
  /\ Perform(d, Then([dev[d] EXCEPT !.timers = @ \ {x}], "fsm"))
  /\ UNCHANGED guests

Done(d) == pc[d] = Len(scenario[d])
Now(d) == scenario[d][pc[d] + 1]

\* What the processor waits to read in a status register before its next access.
Waits(d) ==
  CASE Now(d).op = "out" -> {"BO"}
    [] Now(d).op = "in" -> {"BI"}
    [] Now(d).op = "irq" -> Now(d).bits
    [] OTHER -> {}
Ready(d, op) == Settled /\ ~Done(d) /\ Now(d).op = op /\ Waits(d) \subseteq seen[d]

Advance(d, used) ==
  /\ pc' = [pc EXCEPT ![d] = @ + 1]
  /\ seen' = [seen EXCEPT ![d] = @ \ used]
  /\ UNCHANGED scenario

ReadStatus0(d) ==
  /\ Settled /\ ~Done(d) /\ ~(Waits(d) \subseteq seen[d])
  /\ dev[d].int0 \cap Int0Bits # {}
  /\ Perform(d, Then(ReadInt0(dev[d]), "nothing"))
  /\ seen' = [seen EXCEPT ![d] = @ \cup (dev[d].int0 \cap Int0Bits)]
  /\ UNCHANGED <<scenario, pc>>

ReadStatus1(d) ==
  /\ Settled /\ ~Done(d) /\ ~(Waits(d) \subseteq seen[d])
  /\ dev[d].int1 # {}
  /\ Perform(d, Then(ReadInt1(dev[d]), "nothing"))
  /\ seen' = [seen EXCEPT ![d] = @ \cup dev[d].int1]
  /\ UNCHANGED <<scenario, pc>>

\* A BO read before a change of role says nothing about the role after it.
WriteRegister(d) ==
  /\ Ready(d, "write")
  /\ Perform(d, Write(dev[d], Now(d).reg, Now(d).v))
  /\ Advance(d, IF Now(d).reg = "AUX_CMD" /\ Now(d).v[1] \in {"GTS", "TCS", "TCA"}
                THEN {"BO"} ELSE {})

WriteOut(d) ==
  /\ Ready(d, "out")
  /\ Perform(d, WriteDO(dev[d], Now(d).byte))
  /\ Advance(d, {"BO"})

ReadIn(d) ==
  /\ Ready(d, "in")
  /\ Perform(d, ReadDI(dev[d]))
  /\ Advance(d, {"BI"})

\* A byte that was announced stays to be read.
Acknowledge(d) ==
  /\ Ready(d, "irq")
  /\ Advance(d, Waits(d) \ {"BI"})
  /\ UNCHANGED <<dev, stack>>

\* The processor polls a status register until it shows the bits (or no longer shows them).
Shows(d) ==
  LET status == AddressStatus(dev[d]) \cup BusStatus(dev[d])
  IN Now(d).bits \subseteq status /\ Now(d).clear \cap status = {}

Poll(d) ==
  /\ Ready(d, "poll") /\ Shows(d)
  /\ Advance(d, {})
  /\ UNCHANGED <<dev, stack>>

Guest(d) ==
  \/ ReadStatus0(d) \/ ReadStatus1(d) \/ WriteRegister(d) \/ WriteOut(d) \/ ReadIn(d)
  \/ Acknowledge(d) \/ Poll(d)

Timers == \E d \in Devices : \E x \in {"sh", "ah", "c"} : Timer(d, x)
Guests == \E d \in Devices : Guest(d)

Next == Bus \/ Timers \/ Guests

\* Something can happen: this is ENABLED Next.
CanAct(d) ==
  /\ ~Done(d)
  /\ IF Waits(d) \subseteq seen[d] THEN Now(d).op = "poll" => Shows(d)
     ELSE dev[d].int0 \cap Int0Bits # {} \/ dev[d].int1 # {}
Active == ~Settled \/ \E d \in Devices : dev[d].timers # {} \/ CanAct(d)

\* The emulator is one thread that never stops while there is something to do:
\* WF_vars(Next), with its enabling condition written out.
Fairness == []<>(~Active) \/ []<><<TRUE>>_vars

Spec == Init /\ [][Next]_vars /\ Fairness

----------------------------------------------------------------------------
(* Properties.                                                             *)

\* Between two accesses no chip is inside update_fsm() or has a change of its own still to look
\* at, and each one's copy of every line is the line, however deeply the calls of set_signal()
\* were nested and whatever changed a line while others were still being told of it.
LinesKnown ==
  Settled =>
    \A d \in Devices :
      /\ ~dev[d].no_reflection /\ ~dev[d].ext_state_change
      /\ dev[d].ext = {s \in Signals : Level(s)}

\* No chip is then owed a call: one more update_fsm() would move no state machine, drive no line
\* and raise no interrupt.  A change delivered while update_fsm() was running (m_no_reflection)
\* is not lost.  Registers and state machines are what tms9914.h declares.
OnePass(r) == StepC(StepRL(StepSR(StepPP(StepL(StepT(StepAH(StepSH(r), Dio)))))))
AtRest ==
  Settled =>
    \A d \in Devices :
      LET r == dev[d]
          again == OnePass(r)
      IN /\ r \in Device
         /\ again = [r EXCEPT !.dio_byte = again.dio_byte, !.eoi_signal = again.eoi_signal]
         /\ \A m \in {"SH", "AH", "SR", "C"} : Drives(d, again, m) = <<>>
         /\ r.dio = again.dio_byte
         /\ r = UpdateInt(r)

\* Two chips never source bytes at once, not even inside a cascade: an address or a poll
\* that makes one chip talk has silenced the others, and ATN silences every talker.
OneSpeaker ==
  \A d, e \in Devices : d # e => ~(ShActive(dev[d]) /\ ShActive(dev[e]))

\* While the controller conducts a parallel poll the bus shows every chip's response.
ParallelPollAnswered ==
  Settled /\ (\E d \in Devices : dev[d].c = "CPWS") =>
    Dio = UNION {dev[d].parallel_p : d \in {e \in Devices : ~ContR(dev[e])}}

\* Every program comes to its end: no handshake, hold-off, poll or hand-over of the bus hangs.
ProgramsEnd == <>[](\A d \in Devices : Done(d) /\ dev[d].timers = {})

\* The data bytes on the bus obey the abstract channel: each is heard once by every listener,
\* unchanged, before the talker goes on, and never over a byte that was not yet read.
Speakers == {d \in Devices : dev[d].t \in {"TACS", "SPAS"} /\ dev[d].sh = "STRS"}
Speaker == IF Speakers = {} THEN 0 ELSE CHOOSE d \in Speakers : TRUE
Channel ==
  INSTANCE GpibChannel WITH
    Bytes <- Byte,
    Nobody <- 0,
    speaker <- Speaker,
    said <- IF Speaker = 0 THEN {} ELSE OutputByte(dev[Speaker]),
    due <- IF Speaker = 0 THEN {}
           ELSE {d \in Devices : dev[d].l # "LIDS" /\ dev[d].ah \notin {"ACDS2", "AWNS"}},
    mail <- [d \in Devices |-> dev[d].di],
    unread <- {d \in Devices : "BI" \in dev[d].int0 \cup seen[d]},
    broken <- {d \in Devices :
                 \/ Level("ATN") \/ Level("IFC") \/ ~Running(dev[d])
                 \/ dev[d].address \cap {Dat, Dal} # {}
                 \/ dev[d].t = "TIDS" /\ dev[d].l = "LIDS"}
BytesDelivered == Channel!Spec
=============================================================================

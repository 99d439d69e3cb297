----------------------------- MODULE InterruptPath -----------------------------
(***************************************************************************)
(* How a device's request reaches the guest: the loop of main.c:120-164    *)
(* (devices, cpu_interruptCheck, one instruction), the interrupt half of   *)
(* cpu.c (cpu_intcall, cpu_interruptCheck, the head of cpu_exec and the    *)
(* instructions that touch IF, TF and HLT), the I8259 between them, and    *)
(* bubble_thread raising its line at any moment, as the main thread does   *)
(* inside an instruction that accesses the bubble controller's FIFO.       *)
(*                                                                         *)
(* pc["cpu"] = "devices", "check" and "exec" are the three stages of one   *)
(* turn of the loop.                                                       *)
(***************************************************************************)
EXTENDS I8259, Sequences

CONSTANTS MaxNest,        \* bound: frames the guest lets pile up
          SingleStep      \* does the guest set TF?

ASSUME PathAssumption == MaxNest \in Nat \ {0} /\ SingleStep \in BOOLEAN

VARIABLES
  ifl, tf, trap_toggle, hltstate,
  frames,           \* saved [ifl, tf] of the interrupted programs
  spurious,         \* history: has an interrupt been taken that no line asked for?
  haltedWith        \* history: IF and TF at the HLT that halts the guest

cpuVars  == <<ifl, tf, trap_toggle, hltstate, frames>>
pathVars == <<picVars, cpuVars, spurious, haltedWith>>

-----------------------------------------------------------------------------
(* Main thread, stage 1: timing_loop's callbacks, the keyboard, the screen *)

\* A device callback calls i8259_setirq(n, true).
RaiseDevice == /\ \E n \in DeviceLines : SetirqCall("cpu", n, "devices")
               /\ UNCHANGED <<cpuVars, spurious, haltedWith>>

RaiseSteps == /\ SetirqWait("cpu") \/ SetirqLoad("cpu") \/ SetirqStore("cpu", "devices")
              /\ UNCHANGED <<cpuVars, spurious, haltedWith>>

DevicesDone == /\ Goto("cpu", "devices", "check")
               /\ UNCHANGED <<irr, isr, config, lock, line, loaded, owed, slips,
                              cpuVars, spurious, haltedWith>>

-----------------------------------------------------------------------------
(* Stage 2: cpu_interruptCheck *)

Awake == [ifl |-> FALSE, tf |-> FALSE]

MayInterrupt == ~trap_toggle /\ ifl /\ haveInt

\* push flags, cs and ip; IF and TF off.
Intcall == /\ frames' = Append(frames, [ifl |-> ifl, tf |-> tf])
           /\ ifl' = FALSE
           /\ tf' = FALSE

\* Mutant: a halted CPU is not woken.
InterruptCheckHalted ==
  /\ \/ MayInterrupt /\ Goto("cpu", "check", "next_lock")
     \/ ~MayInterrupt /\ Goto("cpu", "check", "exec")
  /\ UNCHANGED <<irr, isr, config, lock, line, loaded, owed, slips, cpuVars,
                 spurious, haltedWith>>

InterruptCheck ==
  /\ \/ /\ MayInterrupt /\ Goto("cpu", "check", "next_lock")
        /\ hltstate' = FALSE /\ haltedWith' = Awake
     \/ /\ ~MayInterrupt /\ Goto("cpu", "check", "exec")
        /\ UNCHANGED <<hltstate, haltedWith>>
  /\ UNCHANGED <<irr, isr, config, lock, line, loaded, owed, slips, ifl, tf,
                 trap_toggle, frames, spurious>>

Acknowledge == /\ NextLock \/ NextPick \/ NextLoad \/ NextStore
               /\ UNCHANGED <<cpuVars, spurious, haltedWith>>

\* nextintr returns and cpu_intcall takes the vector, whatever it is.
TakeInterrupt ==
  /\ NextUnlock("exec")
  /\ Intcall
  /\ spurious' = (spurious \/ pc["cpu"] = "next_none")
  /\ UNCHANGED <<trap_toggle, hltstate, haltedWith>>

-----------------------------------------------------------------------------
(* Stage 3: cpu_exec *)

\* A pending trap is taken; then TF arms the next one; a halted CPU returns.
ExecHead ==
  /\ IF trap_toggle
     THEN Intcall /\ trap_toggle' = FALSE
     ELSE trap_toggle' = tf /\ UNCHANGED <<ifl, tf, frames>>
  /\ Goto("cpu", "exec", IF hltstate THEN "devices" ELSE "instr")
  /\ UNCHANGED <<irr, isr, config, lock, line, loaded, owed, slips, hltstate,
                 spurious, haltedWith>>

\* An instruction that touches the CPU's own state only.
Instr == /\ Goto("cpu", "instr", "devices")
         /\ UNCHANGED <<irr, isr, config, lock, line, loaded, owed, slips,
                        trap_toggle, spurious>>

Sti == /\ Instr /\ Len(frames) < MaxNest
       /\ ifl' = TRUE
       /\ UNCHANGED <<tf, hltstate, frames, haltedWith>>
Cli == /\ Instr
       /\ ifl' = FALSE
       /\ UNCHANGED <<tf, hltstate, frames, haltedWith>>
Hlt == /\ Instr
       /\ hltstate' = TRUE
       /\ haltedWith' = [ifl |-> ifl, tf |-> tf]
       /\ UNCHANGED <<ifl, tf, frames>>
\* POPF: the guest loads TF with IF as it is.
Popf == /\ Instr /\ SingleStep /\ Len(frames) < MaxNest
        /\ tf' = TRUE
        /\ UNCHANGED <<ifl, hltstate, frames, haltedWith>>
Iret == /\ Instr
        /\ frames # <<>>
        /\ LET top == frames[Len(frames)] IN ifl' = top.ifl /\ tf' = top.tf
        /\ frames' = SubSeq(frames, 1, Len(frames) - 1)
        /\ UNCHANGED <<hltstate, haltedWith>>

\* OUT to the interrupt controller.
OutPic ==
  /\ i8259_write("instr", "devices")
  /\ UNCHANGED <<cpuVars, spurious, haltedWith>>

\* IN or OUT at the bubble controller's data port: fifo_pop and fifo_push call
\* update_drq, here with the fill count past its threshold.
AccessFifo ==
  /\ SetirqCall("cpu", irqBubble, "instr")
  /\ UNCHANGED <<cpuVars, spurious, haltedWith>>

Main == \/ RaiseDevice \/ RaiseSteps \/ DevicesDone
        \/ InterruptCheck \/ Acknowledge \/ TakeInterrupt
        \/ ExecHead \/ Sti \/ Cli \/ Hlt \/ Popf \/ Iret \/ OutPic \/ AccessFifo

-----------------------------------------------------------------------------
(* bubble_thread: update_drq *)

BubbleRaises == /\ \/ SetirqCall("bubble", irqBubble, "caller")
                   \/ SetirqWait("bubble") \/ SetirqLoad("bubble")
                   \/ SetirqStore("bubble", "caller")
                /\ UNCHANGED <<cpuVars, spurious, haltedWith>>

cpu_reset == hltstate = FALSE /\ trap_toggle = FALSE

PathInit ==
  /\ PicInit /\ cpu_reset
  /\ pc = [t \in {"cpu", "bubble"} |-> IF t = "cpu" THEN "devices" ELSE "caller"]
  /\ ifl = FALSE /\ tf = FALSE
  /\ frames = <<>>
  /\ spurious = FALSE /\ haltedWith = Awake

PathNext == Main \/ BubbleRaises

PathSpec == PathInit /\ [][PathNext]_pathVars

\* The main loop goes on, the callbacks of one turn come to an end, and a
\* thread that is inside i8259_setirq is scheduled.
PathFairSpec == /\ PathSpec
                /\ WF_pathVars(Main)
                /\ SF_pathVars(DevicesDone)

-----------------------------------------------------------------------------
(* Properties *)

\* A request stays in irr until its interrupt is taken or an EOI for its line
\* is written (i8259.c:91, 97, 166, 205), unless an unlocked update of irr was
\* lost or an EOI hit another line.
RequestsKept == slips = {} => owed \subseteq irr

\* A single controller without ICW4: its first mask is taken for an ICW4.
MaskEaten == icw1.single /\ ~icw1.needs4

\* Every interrupt taken answers a request made since that line's last one, and
\* one that the last mask the guest wrote lets through: none is delivered twice
\* (i8259.c:166, 205) and no initialisation word is taken for a mask or a mask
\* for one of them (124-149), unless an update was lost.  The EOI of a line above
\* 3 answers another line, so that a request it should have ended is delivered
\* all the same (91).
DeliveredAsAsked ==
  [][pc["cpu"] = "next_store" /\ pc'["cpu"] = "next_unlock" =>
       \/ "irr" \in slips'
       \/ /\ line["cpu"] \in owed \/ (line["cpu"] > 3 /\ "alias" \in slips)
          /\ line["cpu"] \notin wanted \/ MaskEaten]_pathVars

\* cpu.c:1264: "get next interrupt from the i8259, if any": i8259_nextintr
\* answers 0, the divide-error vector, only if an update of irr was lost
\* between i8259_haveInt and the scan.
SpuriousOnlyAfterLoss == spurious => "irr" \in slips

\* A halted guest with interrupts on and none being traced wakes up when a
\* request is pending (cpu.c:1267-1268, 1293), unless that request is lost.
HaltWakes ==
  (hltstate /\ ifl /\ ~trap_toggle /\ haveInt) ~> (~hltstate \/ "irr" \in slips)

\* A guest that executed HLT with IF on and TF off still has IF on as long as it
\* is halted (cpu.c:1268, 1283, 1405): only a HLT under single step is stranded,
\* by the trap that is taken while hltstate stays on.
HaltKeepsInterrupts ==
  hltstate /\ pc["cpu"] # "instr" /\ haltedWith = [ifl |-> TRUE, tf |-> FALSE] => ifl
==============================================================================

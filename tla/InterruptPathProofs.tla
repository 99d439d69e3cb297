-------------------------- MODULE InterruptPathProofs --------------------------
(***************************************************************************)
(* Theorems about InterruptPath, for any device lines, masks, EOIs and     *)
(* depth of interrupted programs, and about Timing, whose callbacks raise  *)
(* the lines, for any timers, intervals and backlog limit.                 *)
(***************************************************************************)
EXTENDS InterruptPath, Timing, TLAPS

----------------------------------------------------------------------------
(* The interrupt path.                                                     *)
Threads == {"cpu", "bubble"}

\* The part of the type invariant the proofs rest on.
PathTypes ==
  /\ DOMAIN pc = Threads
  /\ line \in [Threads -> IrqLines]
  /\ loaded \in [Threads -> SUBSET IrqLines]
  /\ irr \subseteq IrqLines

\* The types hold at first.
LEMMA PathTypesInit == PathInit => PathTypes
BY DEF PathInit, PicInit, PathTypes, Threads, IrqLines

\* Every set of lines has a lowest one.
LEMMA LowestIsMember ==
  ASSUME NEW S \in SUBSET IrqLines, S # {}
  PROVE  Lowest(S) \in S
<1>1. \E n \in S : \A m \in S : n <= m
  <2> USE DEF IrqLines
  <2>0. CASE 0 \in S
    BY <2>0
  <2>1. CASE 0 \notin S /\ 1 \in S
    BY <2>1
  <2>2. CASE 0 \notin S /\ 1 \notin S /\ 2 \in S
    BY <2>2
  <2>3. CASE 0 \notin S /\ 1 \notin S /\ 2 \notin S /\ 3 \in S
    BY <2>3
  <2>4. CASE S \cap 0 .. 3 = {} /\ 4 \in S
    BY <2>4
  <2>5. CASE S \cap 0 .. 4 = {} /\ 5 \in S
    BY <2>5
  <2>6. CASE S \cap 0 .. 5 = {} /\ 6 \in S
    BY <2>6
  <2>7. CASE S \cap 0 .. 6 = {}
    <3>1. \A m \in S : m = 7
      BY <2>7
    <3>2. 7 \in S
      BY <3>1
    <3> QED
      BY <3>1, <3>2
  <2> QED
    BY <2>0, <2>1, <2>2, <2>3, <2>4, <2>5, <2>6, <2>7
<1> QED
  BY <1>1 DEF Lowest

\* A step of i8259_setirq keeps the types.
LEMMA TypesOfSetirq ==
  ASSUME PathTypes, NEW t \in Threads, NEW n \in IrqLines, NEW from, NEW back,
         \/ SetirqCall(t, n, from) \/ SetirqWait(t) \/ SetirqLoad(t)
         \/ SetirqStore(t, back)
  PROVE  PathTypes'
<1>1. CASE SetirqCall(t, n, from)
  BY <1>1 DEF PathTypes, SetirqCall, Goto
<1>2. CASE SetirqWait(t)
  BY <1>2 DEF PathTypes, SetirqWait, Goto
<1>3. CASE SetirqLoad(t)
  BY <1>3 DEF PathTypes, SetirqLoad, LoadIrr, Goto
<1>4. CASE SetirqStore(t, back)
  <2>1. 0 \in IrqLines /\ line[t] \in IrqLines /\ loaded[t] \subseteq IrqLines
    BY DEF PathTypes, IrqLines
  <2> QED
    BY <1>4, <2>1 DEF PathTypes, SetirqStore, StoreIrr, Goto
<1> QED
  BY <1>1, <1>2, <1>3, <1>4

\* A step of i8259_nextirq keeps the types.
LEMMA TypesOfNext ==
  ASSUME PathTypes, NextLock \/ NextPick \/ NextLoad \/ NextStore \/ NextUnlock("exec")
  PROVE  PathTypes'
<1>1. CASE NextPick
  <2>1. irr \ imr # {} => Lowest(irr \ imr) \in IrqLines
    BY LowestIsMember DEF PathTypes
  <2> QED
    BY <1>1, <2>1 DEF NextPick, PathTypes, Threads, Goto, config
<1>2. CASE NextLock \/ NextLoad
  BY <1>2 DEF PathTypes, NextLock, NextLoad, LoadIrr, Goto
<1>3. CASE NextStore
  <2>1. loaded["cpu"] \subseteq IrqLines
    BY DEF PathTypes, Threads
  <2> QED
    BY <1>3, <2>1 DEF PathTypes, NextStore, StoreIrr, Goto
<1>4. CASE NextUnlock("exec")
  <2>1. line' = [line EXCEPT !["cpu"] = 0] /\ 0 \in IrqLines
    BY <1>4 DEF NextUnlock, IrqLines
  <2>2. DOMAIN pc' = DOMAIN pc /\ UNCHANGED <<irr, loaded>>
    BY <1>4 DEF NextUnlock, Goto
  <2> QED
    BY <2>1, <2>2 DEF PathTypes, Threads
<1> QED
  BY <1>1, <1>2, <1>3, <1>4

\* A write to the 8259 keeps the types.
LEMMA TypesOfWrite ==
  ASSUME PathTypes, NEW from, NEW to, i8259_write(from, to)
  PROVE  PathTypes'
<1>1. CASE SpecificEoi(from)
  BY <1>1, PicAssumption DEF PathTypes, Threads, IrqLines, SpecificEoi, Goto
<1>2. CASE SpecificEoiStore(to)
  BY <1>2 DEF PathTypes, Threads, IrqLines, SpecificEoiStore, Goto
<1>3. CASE NonSpecificEoi(from) \/ NonSpecificEoiStore(to)
  BY <1>3 DEF PathTypes, Threads, IrqLines, NonSpecificEoi, NonSpecificEoiStore,
     LoadIrr, StoreIrr, Goto
<1> QED
  BY <1>1, <1>2, <1>3 DEF PathTypes, i8259_write, WriteICW1, WriteData, WriteOCW3, Goto

\* Every step keeps the types.
LEMMA TypesInduction == PathTypes /\ [PathNext]_pathVars => PathTypes'
<1> SUFFICES ASSUME PathTypes, [PathNext]_pathVars
             PROVE  PathTypes'
  OBVIOUS
<1>1. CASE RaiseDevice \/ RaiseSteps \/ AccessFifo
  BY <1>1, TypesOfSetirq, PicAssumption
  DEF RaiseDevice, RaiseSteps, AccessFifo, Threads, IrqLines, irqBubble
<1>2. CASE BubbleRaises
  BY <1>2, TypesOfSetirq DEF BubbleRaises, Threads, IrqLines, irqBubble
<1>3. CASE Acknowledge \/ TakeInterrupt
  BY <1>3, TypesOfNext DEF Acknowledge, TakeInterrupt
<1>4. CASE OutPic
  BY <1>4, TypesOfWrite DEF OutPic
<1>5. CASE DevicesDone \/ InterruptCheck \/ ExecHead
  BY <1>5 DEF PathTypes, DevicesDone, InterruptCheck, ExecHead, Goto
<1>6. CASE Sti \/ Cli \/ Hlt \/ Popf \/ Iret
  BY <1>6 DEF PathTypes, Sti, Cli, Hlt, Popf, Iret, Instr, Goto
<1>7. CASE UNCHANGED pathVars
  BY <1>7 DEF pathVars, picVars, PathTypes
<1> QED
  BY <1>1, <1>2, <1>3, <1>4, <1>5, <1>6, <1>7 DEF PathNext, Main

-----------------------------------------------------------------------------
(* The guest's writes and everything else leave irr and owed in step *)

\* Any step may leave the request path alone.
Idle == UNCHANGED <<irr, owed, slips>>

\* Requests change where a call of the 8259 stores irr, and nowhere else.
LEMMA StepsOfRequests ==
  ASSUME [PathNext]_pathVars
  PROVE  \/ Idle
         \/ \E t \in Threads, back \in {"devices", "caller"} : SetirqStore(t, back)
         \/ NextStore \/ SpecificEoiStore("devices") \/ NonSpecificEoiStore("devices")
<1>1. CASE RaiseDevice \/ AccessFifo \/ RaiseSteps \/ BubbleRaises
  BY <1>1 DEF RaiseDevice, AccessFifo, RaiseSteps, BubbleRaises, Threads, Idle,
     SetirqCall, SetirqWait, SetirqLoad, LoadIrr
<1>2. CASE Acknowledge \/ TakeInterrupt
  BY <1>2 DEF Acknowledge, TakeInterrupt, Idle, NextLock, NextPick, NextLoad, NextUnlock, LoadIrr
<1>3. CASE OutPic
  BY <1>3 DEF OutPic, i8259_write, WriteICW1, WriteData, WriteOCW3, SpecificEoi,
     NonSpecificEoi, LoadIrr, Idle
<1>4. CASE DevicesDone \/ InterruptCheck \/ ExecHead \/ Sti \/ Cli \/ Hlt \/ Popf \/ Iret
  BY <1>4 DEF DevicesDone, InterruptCheck, ExecHead, Sti, Cli, Hlt, Popf, Iret, Instr, Idle
<1>5. CASE UNCHANGED pathVars
  BY <1>5 DEF pathVars, picVars, Idle
<1> QED
  BY <1>1, <1>2, <1>3, <1>4, <1>5 DEF PathNext, Main

\* Until an update is lost or an EOI hits another line, no request is lost,
\* whatever bubble_thread does between two accesses of the main thread
\* (i8259.c:91, 97, 166, 205).
THEOREM RequestsCorrect == PathSpec => []RequestsKept
<1>1. PathInit => RequestsKept
  BY DEF PathInit, PicInit, RequestsKept
<1>2. RequestsKept /\ [PathNext]_pathVars => RequestsKept'
  <2> SUFFICES ASSUME RequestsKept, [PathNext]_pathVars, slips' = {}
               PROVE  owed' \subseteq irr'
    BY DEF RequestsKept
  <2>1. CASE Idle
    BY <2>1 DEF Idle, RequestsKept
  <2>2. ASSUME NEW t \in Threads, NEW back, SetirqStore(t, back)
        PROVE  owed' \subseteq irr'
    BY <2>2 DEF SetirqStore, StoreIrr, RequestsKept
  <2>3. CASE NextStore
    BY <2>3 DEF NextStore, StoreIrr, RequestsKept
  <2>4. CASE SpecificEoiStore("devices")
    BY <2>4 DEF SpecificEoiStore, RequestsKept
  <2>5. CASE NonSpecificEoiStore("devices")
    BY <2>5 DEF NonSpecificEoiStore, StoreIrr, RequestsKept
  <2> QED
    BY <2>1, <2>2, <2>3, <2>4, <2>5, StepsOfRequests
<1> QED
  BY <1>1, <1>2, PTL DEF PathSpec
-----------------------------------------------------------------------------
(* An interrupt that no line asked for *)

SpuriousInv ==
  /\ SpuriousOnlyAfterLoss
  /\ pc["cpu"] \in {"next_lock", "next_pick"} => irr \ imr # {} \/ "irr" \in slips
  /\ pc["cpu"] = "next_none" => "irr" \in slips

\* bubble_thread moves nothing of the main thread's, and takes no request down
\* unless it loses an update.
LEMMA BubbleOnlyAdds ==
  ASSUME PathTypes, BubbleRaises
  PROVE  /\ pc'["cpu"] = pc["cpu"] /\ line'["cpu"] = line["cpu"]
         /\ UNCHANGED <<isr, config, cpuVars, spurious, haltedWith>>
         /\ slips \subseteq slips'
         /\ "irr" \notin slips' => irr \subseteq irr'
<1> USE DEF PathTypes, Threads
<1>1. CASE SetirqCall("bubble", irqBubble, "caller")
  BY <1>1 DEF BubbleRaises, SetirqCall, Goto
<1>2. CASE SetirqWait("bubble")
  BY <1>2 DEF BubbleRaises, SetirqWait, Goto
<1>3. CASE SetirqLoad("bubble")
  BY <1>3 DEF BubbleRaises, SetirqLoad, LoadIrr, Goto
<1>4. CASE SetirqStore("bubble", "caller")
  BY <1>4 DEF BubbleRaises, SetirqStore, StoreIrr, Goto
<1> QED
  BY <1>1, <1>2, <1>3, <1>4 DEF BubbleRaises

\* i8259_nextintr answers 0 only after an update of irr was lost: between
\* i8259_haveInt and its scan (cpu.c:1267-1269) a request can only come.
THEOREM SpuriousCorrect == PathSpec => []SpuriousOnlyAfterLoss
<1>1. PathInit => SpuriousInv
  BY DEF PathInit, PicInit, SpuriousInv, SpuriousOnlyAfterLoss
<1>2. PathTypes /\ SpuriousInv /\ [PathNext]_pathVars => SpuriousInv'
  <2> SUFFICES ASSUME PathTypes, SpuriousInv, [PathNext]_pathVars
               PROVE  SpuriousInv'
    OBVIOUS
  <2> USE DEF SpuriousInv, SpuriousOnlyAfterLoss, PathTypes, Threads
  <2>1. CASE BubbleRaises
    BY <2>1, BubbleOnlyAdds DEF config
  <2>2. CASE RaiseDevice \/ AccessFifo
    BY <2>2 DEF RaiseDevice, AccessFifo, SetirqCall, Goto
  <2>3. CASE RaiseSteps
    BY <2>3 DEF RaiseSteps, SetirqWait, SetirqLoad, SetirqStore, LoadIrr, StoreIrr, Goto
  <2>4. CASE InterruptCheck
    BY <2>4 DEF InterruptCheck, MayInterrupt, haveInt, Goto, config
  <2>5. CASE Acknowledge
    <3>1. CASE NextLock \/ NextPick
      BY <2>5, <3>1 DEF Acknowledge, NextLock, NextPick, Goto, config
    <3>2. CASE NextLoad \/ NextStore
      BY <2>5, <3>2 DEF Acknowledge, NextLoad, NextStore, LoadIrr, StoreIrr, Goto
    <3> QED
      BY <2>5, <3>1, <3>2 DEF Acknowledge
  <2>6. CASE TakeInterrupt
    BY <2>6 DEF TakeInterrupt, NextUnlock, Goto
  <2>7. CASE DevicesDone \/ ExecHead
    BY <2>7 DEF DevicesDone, ExecHead, Goto
  <2>8. CASE Sti \/ Cli \/ Hlt \/ Popf \/ Iret
    BY <2>8 DEF Sti, Cli, Hlt, Popf, Iret, Instr, Goto
  <2>9. CASE OutPic
    <3>1. pc'["cpu"] \in {"devices", "eoi_specific", "eoi_all"}
          /\ slips \subseteq slips' /\ UNCHANGED spurious
      BY <2>9 DEF OutPic, i8259_write, WriteICW1, WriteData, WriteOCW3, SpecificEoi,
         SpecificEoiStore, NonSpecificEoi, NonSpecificEoiStore, LoadIrr, StoreIrr, Goto
    <3> QED
      BY <3>1
  <2>10. CASE UNCHANGED pathVars
    BY <2>10 DEF pathVars, picVars, config
  <2> QED
    BY <2>1, <2>2, <2>3, <2>4, <2>5, <2>6, <2>7, <2>8, <2>9, <2>10 DEF PathNext, Main
<1> QED
  BY <1>1, <1>2, PathTypesInit, TypesInduction, PTL DEF PathSpec, SpuriousInv

-----------------------------------------------------------------------------
(* The halted guest *)

\* An instruction starts with the trap armed exactly when TF is on; and nothing
\* runs while the guest is halted.
HaltInv ==
  /\ pc["cpu"] = "instr" => (trap_toggle <=> tf)
  /\ pc["cpu"] \in {"instr", "next_lock", "next_pick", "next_none", "next_load",
                    "next_store", "next_unlock", "eoi_specific", "eoi_all"} => ~hltstate
  /\ hltstate /\ haltedWith = [ifl |-> TRUE, tf |-> FALSE] => ifl /\ ~tf /\ ~trap_toggle
\* A guest that executed HLT with IF on and TF off keeps IF on while it is
\* halted: no trap is armed then, and an interrupt ends the halt before it
\* clears IF (cpu.c:1268, 1283, 1405).
THEOREM HaltCorrect == PathSpec => []HaltKeepsInterrupts
<1>1. PathInit => HaltInv
  BY DEF PathInit, PicInit, cpu_reset, HaltInv
<1>2. PathTypes /\ HaltInv /\ [PathNext]_pathVars => HaltInv'
  <2> SUFFICES ASSUME PathTypes, HaltInv, [PathNext]_pathVars
               PROVE  HaltInv'
    OBVIOUS
  <2> USE DEF HaltInv, PathTypes, Threads
  <2>1. CASE BubbleRaises
    BY <2>1, BubbleOnlyAdds DEF cpuVars
  <2>2. CASE RaiseDevice \/ AccessFifo \/ RaiseSteps
    BY <2>2 DEF RaiseDevice, AccessFifo, RaiseSteps, SetirqCall, SetirqWait, SetirqLoad,
       SetirqStore, LoadIrr, Goto, cpuVars
  <2>3. CASE DevicesDone
    BY <2>3 DEF DevicesDone, Goto, cpuVars
  <2>4. CASE InterruptCheck
    BY <2>4 DEF InterruptCheck, Goto, Awake
  <2>5. CASE Acknowledge
    BY <2>5 DEF Acknowledge, NextLock, NextPick, NextLoad, NextStore, LoadIrr, Goto, cpuVars
  <2>6. CASE TakeInterrupt
    BY <2>6 DEF TakeInterrupt, NextUnlock, Intcall, Goto
  <2>7. CASE ExecHead
    BY <2>7 DEF ExecHead, Intcall, Goto
  <2>8. CASE Sti \/ Cli \/ Popf \/ Iret
    BY <2>8 DEF Sti, Cli, Popf, Iret, Instr, Goto
  <2>9. CASE Hlt
    BY <2>9 DEF Hlt, Instr, Goto
  <2>10. CASE OutPic
    BY <2>10 DEF OutPic, i8259_write, WriteICW1, WriteData, WriteOCW3, SpecificEoi,
       SpecificEoiStore, NonSpecificEoi, NonSpecificEoiStore, LoadIrr, Goto, cpuVars
  <2>11. CASE UNCHANGED pathVars
    BY <2>11 DEF pathVars, picVars, cpuVars
  <2> QED
    BY <2>1, <2>2, <2>3, <2>4, <2>5, <2>6, <2>7, <2>8, <2>9, <2>10, <2>11 DEF PathNext, Main
<1>3. HaltInv => HaltKeepsInterrupts
  BY DEF HaltInv, HaltKeepsInterrupts
<1> QED
  BY <1>1, <1>2, <1>3, PathTypesInit, TypesInduction, PTL DEF PathSpec

-----------------------------------------------------------------------------
(* What is delivered was asked for *)

\* Nothing is requested that is not owed, but for what an aliased EOI left.
NoExtra == "irr" \notin slips =>
  \A n \in irr : n \in owed \/ (n > 3 /\ "alias" \in slips)

\* From the choice of a line to the end of its delivery it stays requested and
\* unmasked.
ChosenStays == pc["cpu"] \in {"next_load", "next_store"} /\ "irr" \notin slips =>
  line["cpu"] \in irr \ imr

\* The words to port 2 still expected are those announced, and the mask is the
\* guest's.
MaskFollows == ~MaskEaten =>
  /\ imr = wanted
  /\ announced = CASE icwstep = 2 -> 1 + (IF icw1.single THEN 0 ELSE 1)
                                       + (IF icw1.needs4 THEN 1 ELSE 0)
                   [] icwstep = 3 -> 1 + (IF icw1.needs4 THEN 1 ELSE 0)
                   [] icwstep = 4 -> 1
                   [] OTHER -> 0
  /\ icwstep = 3 => ~icw1.single
  /\ icwstep = 4 => icw1.needs4

DeliveryInv == NoExtra /\ ChosenStays /\ MaskFollows

\* The delivery invariant holds at first.
LEMMA DeliveryInit == PathInit => DeliveryInv
BY DEF PathInit, PicInit, DeliveryInv, NoExtra, ChosenStays, MaskFollows

\* No step delivers a request twice.
LEMMA NoExtraKept ==
  ASSUME PathTypes, NoExtra, [PathNext]_pathVars
  PROVE  NoExtra'
<1> USE DEF NoExtra
<1>1. CASE Idle
  BY <1>1 DEF Idle
<1>2. ASSUME NEW t \in Threads, NEW back, SetirqStore(t, back)
      PROVE  NoExtra'
  BY <1>2 DEF SetirqStore, StoreIrr
<1>3. CASE NextStore
  BY <1>3 DEF NextStore, StoreIrr
<1>4. CASE SpecificEoiStore("devices")
  <2>1. line["cpu"] \in 0 .. 7
    BY DEF PathTypes, Threads, IrqLines
  <2>2. Hit(line["cpu"]) # line["cpu"] => line["cpu"] > 3
    BY <2>1 DEF Hit
  <2> QED
    BY <1>4, <2>2 DEF SpecificEoiStore
<1>5. CASE NonSpecificEoiStore("devices")
  BY <1>5 DEF NonSpecificEoiStore, StoreIrr
<1> QED
  BY <1>1, <1>2, <1>3, <1>4, <1>5, StepsOfRequests

\* No step takes away the line i8259_nextirq is delivering.
LEMMA ChosenStaysKept ==
  ASSUME PathTypes, ChosenStays, [PathNext]_pathVars
  PROVE  ChosenStays'
<1> USE DEF ChosenStays, PathTypes, Threads
<1>1. CASE BubbleRaises
  BY <1>1, BubbleOnlyAdds DEF config
<1>2. CASE RaiseDevice \/ AccessFifo
  BY <1>2 DEF RaiseDevice, AccessFifo, SetirqCall, Goto
<1>3. CASE RaiseSteps
  BY <1>3 DEF RaiseSteps, SetirqWait, SetirqLoad, SetirqStore, LoadIrr, Goto
<1>4. CASE Acknowledge
  <2>1. CASE NextPick
    BY <1>4, <2>1, LowestIsMember DEF NextPick, Goto, config
  <2>2. CASE NextLock \/ NextLoad
    BY <1>4, <2>2 DEF NextLock, NextLoad, LoadIrr, Goto, config
  <2>3. CASE NextStore
    BY <1>4, <2>3 DEF NextStore, Goto
  <2> QED
    BY <1>4, <2>1, <2>2, <2>3 DEF Acknowledge
<1>5. CASE TakeInterrupt \/ DevicesDone \/ InterruptCheck \/ ExecHead
  BY <1>5 DEF TakeInterrupt, NextUnlock, DevicesDone, InterruptCheck, ExecHead, Goto
<1>6. CASE Sti \/ Cli \/ Hlt \/ Popf \/ Iret
  BY <1>6 DEF Sti, Cli, Hlt, Popf, Iret, Instr, Goto
<1>7. CASE OutPic
  BY <1>7 DEF OutPic, i8259_write, WriteICW1, WriteData, WriteOCW3, SpecificEoi,
     SpecificEoiStore, NonSpecificEoi, NonSpecificEoiStore, LoadIrr, Goto
<1>8. CASE UNCHANGED pathVars
  BY <1>8 DEF pathVars, picVars, config
<1> QED
  BY <1>1, <1>2, <1>3, <1>4, <1>5, <1>6, <1>7, <1>8 DEF PathNext, Main

\* No step parts imr from the mask the guest meant.
LEMMA MaskFollowsKept ==
  ASSUME MaskFollows, [PathNext]_pathVars
  PROVE  MaskFollows'
<1>1. CASE UNCHANGED config
  BY <1>1 DEF config, MaskFollows, MaskEaten
<1>2. CASE WriteICW1("instr", "devices")
  BY <1>2 DEF WriteICW1, MaskFollows, MaskEaten
<1>3. CASE WriteData("instr", "devices")
  <2> PICK word \in Masks :
        /\ Means(word)
        /\ \/ icwstep = 2 /\ icwstep' = (IF icw1.single THEN 4 ELSE 3) /\ imr' = imr
           \/ icwstep = 3 /\ icwstep' = (IF icw1.needs4 THEN 4 ELSE 5) /\ imr' = imr
           \/ icwstep = 4 /\ icwstep' = 5 /\ imr' = imr
           \/ icwstep = 5 /\ imr' = word /\ icwstep' = icwstep
    BY <1>3 DEF WriteData
  <2>1. icw1' = icw1
    BY <1>3 DEF WriteData
  <2> QED
    BY <2>1 DEF Means, MaskFollows, MaskEaten
<1>4. CASE WriteOCW3("instr", "devices")
  BY <1>4 DEF WriteOCW3, MaskFollows, MaskEaten
<1>5. CASE OutPic
  <2>1. SpecificEoi("instr") \/ SpecificEoiStore("devices")
          \/ NonSpecificEoi("instr") \/ NonSpecificEoiStore("devices") => UNCHANGED config
    BY DEF SpecificEoi, SpecificEoiStore, NonSpecificEoi, NonSpecificEoiStore, LoadIrr
  <2> QED
    BY <1>1, <1>2, <1>3, <1>4, <1>5, <2>1 DEF OutPic, i8259_write
<1>6. CASE RaiseDevice \/ AccessFifo \/ RaiseSteps \/ BubbleRaises
  BY <1>1, <1>6 DEF RaiseDevice, AccessFifo, RaiseSteps, BubbleRaises, SetirqCall, SetirqWait,
     SetirqLoad, SetirqStore, LoadIrr
<1>7. CASE Acknowledge \/ TakeInterrupt
  BY <1>1, <1>7 DEF Acknowledge, TakeInterrupt, NextLock, NextPick, NextLoad, NextStore,
     NextUnlock, LoadIrr
<1>8. CASE DevicesDone \/ InterruptCheck \/ ExecHead \/ Sti \/ Cli \/ Hlt \/ Popf \/ Iret
  BY <1>1, <1>8 DEF DevicesDone, InterruptCheck, ExecHead, Sti, Cli, Hlt, Popf, Iret, Instr
<1>9. CASE UNCHANGED pathVars
  BY <1>1, <1>9 DEF pathVars, picVars
<1> QED
  BY <1>5, <1>6, <1>7, <1>8, <1>9 DEF PathNext, Main

\* Every step keeps the delivery invariant.
LEMMA DeliveryInduction == PathTypes /\ DeliveryInv /\ [PathNext]_pathVars => DeliveryInv'
BY NoExtraKept, ChosenStaysKept, MaskFollowsKept DEF DeliveryInv

\* For any lines, masks and initialisation words: what is delivered was raised
\* since it was last delivered and is let through by the last mask the guest
\* wrote (i8259.c:124-149, 166, 205).
THEOREM DeliveryCorrect == PathSpec => DeliveredAsAsked
<1> DEFINE Step == pc["cpu"] = "next_store" /\ pc'["cpu"] = "next_unlock" =>
       \/ "irr" \in slips'
       \/ /\ line["cpu"] \in owed \/ (line["cpu"] > 3 /\ "alias" \in slips)
          /\ line["cpu"] \notin wanted \/ MaskEaten
<1>1. PathTypes /\ DeliveryInv /\ [PathNext]_pathVars => Step
  <2> SUFFICES ASSUME PathTypes, DeliveryInv, [PathNext]_pathVars,
                      pc["cpu"] = "next_store", pc'["cpu"] = "next_unlock",
                      "irr" \notin slips'
               PROVE  /\ line["cpu"] \in owed \/ (line["cpu"] > 3 /\ "alias" \in slips)
                      /\ line["cpu"] \notin wanted \/ MaskEaten
    OBVIOUS
  <2>1. slips \subseteq slips'
    BY StepsOfRequests DEF Idle, SetirqStore, NextStore, SpecificEoiStore,
       NonSpecificEoiStore, StoreIrr
  <2>2. line["cpu"] \in irr \ imr
    BY <2>1 DEF DeliveryInv, ChosenStays
  <2> QED
    BY <2>1, <2>2 DEF DeliveryInv, NoExtra, MaskFollows
<1>2. PathTypes /\ DeliveryInv /\ [PathNext]_pathVars => [Step]_pathVars
  BY <1>1
<1> QED
  BY <1>2, PathTypesInit, TypesInduction, DeliveryInit, DeliveryInduction, PTL
     DEF PathSpec, DeliveredAsAsked

----------------------------------------------------------------------------
(* The timer service.                                                      *)

\* Every variable keeps its type; a timer that exists has one of the intervals
\* given to it, and the loop visits only timers that exist (timing.c:50, 82-89).
THEOREM TypeCorrect == Spec => []TypeOK
<1>1. Init => TypeOK
  BY TimingAssumption DEF Init, TypeOK
<1>2. TypeOK /\ [Next]_vars => TypeOK'
  <2> SUFFICES ASSUME TypeOK, [Next]_vars
               PROVE  TypeOK'
    OBVIOUS
  <2> USE TimingAssumption DEF TypeOK, timers, Between
  <2>1. CASE ClockMoves
    BY <2>1 DEF ClockMoves
  <2>2. CASE GetCur
    BY <2>2 DEF GetCur
  <2>3. ASSUME NEW i \in Timers, NEW d \in Intervals, NEW on \in BOOLEAN,
               AddTimer(i, d, on)
        PROVE  TypeOK'
    BY <2>3 DEF AddTimer
  <2>4. ASSUME NEW i \in Timers, NEW d \in Intervals, UpdateInterval(i, d)
        PROVE  TypeOK'
    BY <2>4 DEF UpdateInterval
  <2>5. ASSUME NEW i \in Timers, TimerEnable(i)
        PROVE  TypeOK'
    BY <2>5 DEF TimerEnable
  <2>6. ASSUME NEW i \in Timers, TimerDisable(i)
        PROVE  TypeOK'
    BY <2>6 DEF TimerDisable
  <2>7. CASE LoopStart
    BY <2>7 DEF LoopStart
  <2>8. ASSUME NEW i \in Timers, Fire(i)
        PROVE  TypeOK'
    <3>1. Advanced(i) \in Int /\ paid[i] + interval[i] \in Nat
      BY DEF Advanced
    <3> QED
      BY <2>8, <3>1 DEF Fire, Visited
  <2>9. ASSUME NEW i \in Timers, Skip(i)
        PROVE  TypeOK'
    BY <2>9 DEF Skip, Visited
  <2>10. CASE UNCHANGED vars
    BY <2>10 DEF vars
  <2> QED
    BY <2>1, <2>2, <2>3, <2>4, <2>5, <2>6, <2>7, <2>8, <2>9, <2>10 DEF Next, Loop
<1> QED
  BY <1>1, <1>2, PTL DEF Spec

-----------------------------------------------------------------------------
\* Positive intervals make positive backlogs.
LEMMA BacklogPositive ==
  ASSUME NEW d \in Intervals
  PROVE  d * ResyncIntervals \in Nat \ {0}
BY TimingAssumption

\* What a callback leaves owed is less than the limit (timing.c:57-60).
LEMMA AdvancedBound ==
  ASSUME TypeOK, NEW i \in added
  PROVE  timing_cur - Advanced(i) < interval[i] * ResyncIntervals
<1>1. interval[i] * ResyncIntervals \in Nat \ {0}
  BY BacklogPositive DEF TypeOK
<1> DEFINE limit == interval[i] * ResyncIntervals
           p     == previous[i] + interval[i]
<1>2. limit \in Nat \ {0} /\ p \in Int /\ timing_cur \in Int
  BY <1>1, TimingAssumption DEF TypeOK
<1>3. Advanced(i) = IF timing_cur - p >= limit THEN timing_cur ELSE p
  BY DEF Advanced
<1> HIDE DEF limit, p
<1>4. timing_cur - Advanced(i) < limit
  BY <1>2, <1>3
<1> QED
  BY <1>4 DEF limit

\* However long the host stalled, a timer that has just been called back owes
\* fewer than ResyncIntervals callbacks (timing.c:58-60).
THEOREM BacklogIsBounded == Spec => BacklogBounded
<1> DEFINE Bound == \A i \in Timers : paid'[i] > paid[i]
                      => timing_cur - previous'[i] < interval[i] * ResyncIntervals
<1>1. TypeOK /\ [Next]_vars => Bound
  <2> SUFFICES ASSUME TypeOK, [Next]_vars, NEW i \in Timers, paid'[i] > paid[i]
               PROVE  timing_cur - previous'[i] < interval[i] * ResyncIntervals
    OBVIOUS
  <2>1. ASSUME NEW j \in Timers, Fire(j)
        PROVE  timing_cur - previous'[i] < interval[i] * ResyncIntervals
    <3>1. i = j
      BY <2>1, TimingAssumption DEF TypeOK, Fire
    <3>2. previous'[i] = Advanced(i) /\ i \in added
      BY <2>1, <3>1 DEF TypeOK, Fire, Visited
    <3> QED
      BY <3>2, AdvancedBound
  <2>2. ASSUME NEW j \in Timers, NEW d \in Intervals, NEW on \in BOOLEAN,
               AddTimer(j, d, on)
        PROVE  FALSE
    BY <2>2 DEF TypeOK, AddTimer
  <2>3. ASSUME NEW j \in Timers, TimerEnable(j)
        PROVE  FALSE
    BY <2>3 DEF TypeOK, TimerEnable
  <2>4. paid[i] \in Nat
    BY DEF TypeOK
  <2>5. paid' # paid
    BY <2>4
  <2> QED
    BY <2>1, <2>2, <2>3, <2>5
    DEF Next, Loop, ClockMoves, GetCur, UpdateInterval, TimerDisable, LoopStart,
        Skip, vars
<1> QED
  BY <1>1, TypeCorrect, PTL DEF Spec, BacklogBounded

-----------------------------------------------------------------------------
(* Phase *)

\* How far previous has run from the time paid: the backlogs given up.
Drift(i) == previous[i] - (start[i] + paid[i])

\* A drift is nothing or at least one whole backlog.
Phase(x) == x = 0 \/ \E d \in Intervals : x >= d * ResyncIntervals

\* Moving a timer on keeps its drift or adds a whole backlog to it
\* (timing.c:57-60).
LEMMA DriftAdvanced ==
  ASSUME TypeOK, NEW i \in added, Phase(Drift(i)), NEW x,
         x = Advanced(i) - (start[i] + (paid[i] + interval[i]))
  PROVE  Phase(x) /\ x >= Drift(i) /\ Drift(i) >= 0
<1> DEFINE limit == interval[i] * ResyncIntervals
           p     == previous[i] + interval[i]
<1>1. limit \in Nat \ {0} /\ interval[i] \in Intervals
  BY BacklogPositive DEF TypeOK
<1>2. p \in Int /\ timing_cur \in Int /\ Drift(i) \in Int
  BY TimingAssumption DEF TypeOK, Drift
<1>3. Advanced(i) = IF timing_cur - p >= limit THEN timing_cur ELSE p
  BY DEF Advanced
<1>4. x = Drift(i) + (Advanced(i) - p)
  BY <1>2, <1>3, TimingAssumption DEF TypeOK, Drift
<1> HIDE DEF limit, p
<1>5. Drift(i) >= 0
  <2>1. CASE Drift(i) = 0
    BY <2>1
  <2>2. CASE \E d \in Intervals : Drift(i) >= d * ResyncIntervals
    BY <2>2, <1>2, BacklogPositive
  <2> QED
    BY <2>1, <2>2 DEF Phase
<1>6. CASE timing_cur - p >= limit
  <2>1. x >= limit /\ x >= Drift(i)
    BY <1>1, <1>2, <1>3, <1>4, <1>5, <1>6
  <2> QED
    BY <2>1, <1>1, <1>5 DEF Phase, limit
<1>7. CASE ~(timing_cur - p >= limit)
  BY <1>2, <1>3, <1>4, <1>5, <1>7
<1> QED
  BY <1>6, <1>7

\* previous is start plus the intervals called back, or later by at least one
\* whole backlog given up: a timer keeps its phase however late the loop comes
\* round (timing.c:57-60).
THEOREM PhaseKept == Spec => []KeepsPhase
<1> DEFINE Kept == \A i \in added : Phase(Drift(i))
<1>1. Init => Kept
  BY DEF Init
<1>2. TypeOK /\ Kept /\ [Next]_vars => Kept'
  <2> SUFFICES ASSUME TypeOK, Kept, [Next]_vars, NEW i \in added'
               PROVE  Phase(Drift(i)')
    BY DEF Phase
  <2>1. ASSUME NEW j \in Timers, Fire(j)
        PROVE  Phase(Drift(i)')
    <3>1. j \in added /\ i \in added
      BY <2>1 DEF TypeOK, Fire, Visited
    <3>2. CASE i = j
      <4>1. Drift(i)' = Advanced(i) - (start[i] + (paid[i] + interval[i]))
        BY <2>1, <3>1, <3>2 DEF TypeOK, Fire, Drift
      <4> QED
        BY <4>1, <3>1, DriftAdvanced
    <3>3. CASE i # j
      BY <2>1, <3>1, <3>3 DEF TypeOK, Fire, Drift
    <3> QED
      BY <3>2, <3>3
  <2>2. ASSUME NEW j \in Timers, NEW d \in Intervals, NEW on \in BOOLEAN,
               AddTimer(j, d, on)
        PROVE  Phase(Drift(i)')
    <3>1. CASE i = j
      BY <2>2, <3>1, TimingAssumption DEF TypeOK, AddTimer, Drift, Phase
    <3>2. CASE i # j
      BY <2>2, <3>2 DEF TypeOK, AddTimer, Drift
    <3> QED
      BY <3>1, <3>2
  <2>3. ASSUME NEW j \in Timers, TimerEnable(j)
        PROVE  Phase(Drift(i)')
    <3>1. CASE i = j
      BY <2>3, <3>1, TimingAssumption DEF TypeOK, TimerEnable, Drift, Phase
    <3>2. CASE i # j
      BY <2>3, <3>2 DEF TypeOK, TimerEnable, Drift
    <3> QED
      BY <3>1, <3>2
  <2>4. CASE UNCHANGED <<previous, start, paid, added>>
    BY <2>4 DEF Drift
  <2> QED
    BY <2>1, <2>2, <2>3, <2>4
    DEF Next, Loop, ClockMoves, GetCur, UpdateInterval, TimerDisable, LoopStart,
        Skip, timers, vars
<1>3. Kept => KeepsPhase
  BY DEF KeepsPhase, Phase, Drift
<1> QED
  BY <1>1, <1>2, <1>3, TypeCorrect, PTL DEF Spec

-----------------------------------------------------------------------------
(* A clock that is never set back *)

\* Then callbacks never run ahead of it: the intervals called back since a timer
\* was started fit between that moment and previous, and previous is not in the
\* future (timing.c:51, 57-60).
THEOREM RunsBehind ==
  ASSUME Steps \subseteq Nat
  PROVE  Spec => []NeverAhead
<1> DEFINE Behind == /\ timing_cur <= clock
                     /\ \A i \in added : previous[i] <= timing_cur
<1>1. Init => Behind
  BY DEF Init
<1>2. TypeOK /\ Behind /\ [Next]_vars => Behind'
  <2> SUFFICES ASSUME TypeOK, Behind, [Next]_vars
               PROVE  Behind'
    OBVIOUS
  <2> USE TimingAssumption DEF TypeOK, timers
  <2>1. CASE ClockMoves
    <3>1. clock' \in Int /\ clock <= clock'
      BY <2>1 DEF ClockMoves
    <3> QED
      BY <2>1, <3>1 DEF ClockMoves
  <2>2. CASE GetCur \/ LoopStart
    <3>1. timing_cur' = clock /\ UNCHANGED <<clock, previous, added>>
      BY <2>2 DEF GetCur, LoopStart
    <3>2. \A i \in added : previous[i] <= clock
      BY TimingAssumption
    <3> QED
      BY <3>1, <3>2
  <2>3. ASSUME NEW i \in Timers, NEW d \in Intervals, NEW on \in BOOLEAN,
               AddTimer(i, d, on)
        PROVE  Behind'
    BY <2>3 DEF AddTimer
  <2>4. ASSUME NEW i \in Timers, TimerEnable(i)
        PROVE  Behind'
    BY <2>4 DEF TimerEnable
  <2>5. ASSUME NEW i \in Timers, Fire(i)
        PROVE  Behind'
    <3>1. Advanced(i) <= timing_cur
      BY <2>5 DEF Fire, Due, Advanced
    <3> QED
      BY <2>5, <3>1 DEF Fire
  <2>6. CASE UNCHANGED <<clock, timing_cur, previous, added>>
    BY <2>6
  <2> QED
    BY <2>1, <2>2, <2>3, <2>4, <2>5, <2>6
    DEF Next, Loop, UpdateInterval, TimerDisable, Skip, vars
<1>3. TypeOK /\ Behind /\ KeepsPhase => NeverAhead
  <2> SUFFICES ASSUME TypeOK, Behind, KeepsPhase, NEW i \in added
               PROVE  start[i] + paid[i] <= previous[i] /\ previous[i] <= timing_cur
    BY DEF NeverAhead
  <2>1. CASE previous[i] - (start[i] + paid[i]) = 0
    BY <2>1 DEF TypeOK
  <2>2. CASE \E d \in Intervals :
               previous[i] - (start[i] + paid[i]) >= d * ResyncIntervals
    BY <2>2, BacklogPositive DEF TypeOK
  <2> QED
    BY <2>1, <2>2 DEF KeepsPhase
<1> QED
  BY <1>1, <1>2, <1>3, TypeCorrect, PhaseKept, PTL DEF Spec
=============================================================================

-------------------------------- MODULE I8259 --------------------------------
(***************************************************************************)
(* The interrupt controller of src/src/i8259.c and the two threads that    *)
(* use it.  The main thread ("cpu") raises device lines, acknowledges      *)
(* interrupts and executes the guest's writes to the two ports;            *)
(* bubble_thread ("bubble") raises irqBubble through update_drq, and so    *)
(* does the main thread.  Registers are sets of lines.  Only irr and lock  *)
(* are shared: every access to them is a step of its own, and an update of *)
(* irr is a load and a store.                                              *)
(***************************************************************************)
EXTENDS Naturals, FiniteSets

CONSTANTS
  DeviceLines,      \* lines the main thread's callbacks raise
  Bases,            \* vector bases the guest writes in ICW2
  Masks,            \* masks the guest writes in OCW1
  InitWords,        \* the [single, needs4] flags of the ICW1s it writes
  ReadModes,        \* the register an OCW3 selects for reading
  EoiLines          \* lines of the specific EOIs it writes

irqBubble == 1
IrqLines  == 0 .. 7

ASSUME PicAssumption ==
  /\ DeviceLines \subseteq IrqLines /\ irqBubble \notin DeviceLines
  /\ Bases \subseteq 0 .. 248
  /\ Masks \subseteq SUBSET IrqLines
  /\ InitWords \subseteq [single : BOOLEAN, needs4 : BOOLEAN]
  /\ ReadModes \subseteq {"irr", "isr"}
  /\ EoiLines \subseteq IrqLines

VARIABLES
  irr, isr, imr,    \* requested, in service, masked lines
  icwstep, icw1, icw2,
  readmode,         \* what a read of port 0 returns
  lock,
  pc,               \* per thread: its next step
  line,             \* per thread: the irqnum of its setirq
  loaded,           \* per thread: irr as loaded by its update
  owed,             \* history: lines raised since they were last delivered
  slips,            \* history: "irr" an update of irr was lost,
                    \*          "alias" an EOI hit another line than its own
  announced,        \* history: port-2 words the last ICW1 announced, still to come
  wanted            \* history: the last mask the guest wrote, by those announcements

config   == <<imr, icwstep, icw1, icw2, readmode, announced, wanted>>
picVars  == <<irr, isr, config, lock, pc, line, loaded, owed, slips>>

Goto(t, from, to) == pc[t] = from /\ pc' = [pc EXCEPT ![t] = to]

LoadIrr(t, from, to) ==
  /\ Goto(t, from, to)
  /\ loaded' = [loaded EXCEPT ![t] = irr]
  /\ UNCHANGED <<irr, isr, config, lock, line, owed, slips>>

\* The store half of an update; the register it used is dead afterwards.
StoreIrr(t, S) ==
  /\ irr' = S
  /\ slips' = IF irr = loaded[t] THEN slips ELSE slips \cup {"irr"}
  /\ loaded' = [loaded EXCEPT ![t] = {}]

-----------------------------------------------------------------------------
(* i8259_setirq, called with irqstate true: irr only ever gains the line *)

SetirqCall(t, n, from) ==
  /\ Goto(t, from, "set_wait")
  /\ line' = [line EXCEPT ![t] = n]
  /\ UNCHANGED <<irr, isr, config, lock, loaded, owed, slips>>

\* The spin on lock: a test that takes nothing.
SetirqWait(t) == /\ ~lock
                 /\ Goto(t, "set_wait", "set_load")
                 /\ UNCHANGED <<irr, isr, config, lock, line, loaded, owed, slips>>

SetirqLoad(t) == LoadIrr(t, "set_load", "set_store")

SetirqStore(t, back) ==
  /\ Goto(t, "set_store", back)
  /\ StoreIrr(t, loaded[t] \cup {line[t]})
  /\ owed' = owed \cup {line[t]}
  /\ line' = [line EXCEPT ![t] = 0]
  /\ UNCHANGED <<isr, config, lock>>

-----------------------------------------------------------------------------
(* i8259_haveInt and i8259_nextintr *)

\* Mutant: the mask is forgotten.
haveIntUnmasked == irr # {}
haveInt == irr \ imr # {}

Lowest(S) == CHOOSE n \in S : \A m \in S : n <= m

NextLock == /\ Goto("cpu", "next_lock", "next_pick")
            /\ lock' = TRUE
            /\ UNCHANGED <<irr, isr, config, line, loaded, owed, slips>>

\* tmpirr and the scan from line 0: isr plays no part in the choice.
NextPick ==
  /\ \/ irr \ imr # {} /\ Goto("cpu", "next_pick", "next_load")
                       /\ line' = [line EXCEPT !["cpu"] = Lowest(irr \ imr)]
     \/ irr \ imr = {} /\ Goto("cpu", "next_pick", "next_none")
                       /\ UNCHANGED line
  /\ UNCHANGED <<irr, isr, config, lock, loaded, owed, slips>>

NextLoad == LoadIrr("cpu", "next_load", "next_store")

\* Mutant: every request is taken down.
NextStoreAll ==
  /\ Goto("cpu", "next_store", "next_unlock")
  /\ StoreIrr("cpu", {})
  /\ isr' = isr \cup {line["cpu"]}
  /\ owed' = owed \ {line["cpu"]}
  /\ UNCHANGED <<config, lock, line>>
NextStore ==
  /\ Goto("cpu", "next_store", "next_unlock")
  /\ StoreIrr("cpu", loaded["cpu"] \ {line["cpu"]})
  /\ isr' = isr \cup {line["cpu"]}
  /\ owed' = owed \ {line["cpu"]}
  /\ UNCHANGED <<config, lock, line>>

NextUnlock(to) ==
  /\ Goto("cpu", "next_unlock", to) \/ Goto("cpu", "next_none", to)
  /\ lock' = FALSE
  /\ line' = [line EXCEPT !["cpu"] = 0]
  /\ UNCHANGED <<irr, isr, config, loaded, owed, slips>>

-----------------------------------------------------------------------------
(* i8259_write *)

WriteICW1(from, to) ==
  /\ Goto("cpu", from, to)
  /\ icw1' \in InitWords
  /\ imr' = {} /\ wanted' = {} /\ icwstep' = 2 /\ readmode' = "irr"
  /\ announced' = 1 + (IF icw1'.single THEN 0 ELSE 1)
                    + (IF icw1'.needs4 THEN 1 ELSE 0)
  /\ UNCHANGED <<irr, isr, icw2, lock, line, loaded, owed, slips>>

\* What the guest means by a word to port 2: one of those it announced, or a mask.
Means(word) ==
  /\ announced' = IF announced > 0 THEN announced - 1 ELSE 0
  /\ wanted' = IF announced > 0 THEN wanted ELSE word

\* Mutant: ICW3 is expected in single mode only.
WriteDataSwapped(from, to) ==
  /\ Goto("cpu", from, to)
  /\ \E word \in Masks :
       /\ Means(word)
       /\ \/ icwstep = 2 /\ icw2' \in Bases
                         /\ icwstep' = (IF icw1.single THEN 3 ELSE 4)
                         /\ UNCHANGED imr
          \/ icwstep = 3 /\ icwstep' = (IF icw1.needs4 THEN 4 ELSE 5)
                         /\ UNCHANGED <<imr, icw2>>
          \/ icwstep = 4 /\ icwstep' = 5 /\ UNCHANGED <<imr, icw2>>
          \/ icwstep = 5 /\ imr' = word /\ UNCHANGED <<icwstep, icw2>>
  /\ UNCHANGED <<irr, isr, icw1, readmode, lock, line, loaded, owed, slips>>

\* Port 2 by icwstep; a single controller is always given an ICW4.
WriteData(from, to) ==
  /\ Goto("cpu", from, to)
  /\ \E word \in Masks :
       /\ Means(word)
       /\ \/ icwstep = 2 /\ icw2' \in Bases
                         /\ icwstep' = (IF icw1.single THEN 4 ELSE 3)
                         /\ UNCHANGED imr
          \/ icwstep = 3 /\ icwstep' = (IF icw1.needs4 THEN 4 ELSE 5)
                         /\ UNCHANGED <<imr, icw2>>
          \/ icwstep = 4 /\ icwstep' = 5
                         /\ UNCHANGED <<imr, icw2>>
          \/ icwstep = 5 /\ imr' = word
                         /\ UNCHANGED <<icwstep, icw2>>
  /\ UNCHANGED <<irr, isr, icw1, readmode, lock, line, loaded, owed, slips>>

WriteOCW3(from, to) ==
  /\ Goto("cpu", from, to)
  /\ readmode' \in ReadModes
  /\ UNCHANGED <<irr, isr, imr, icwstep, icw1, icw2, announced, wanted, lock, line, loaded,
                 owed, slips>>

\* The two EOIs update irr too: a line raised again while it is in service
\* loses that request (owed follows the line the guest named).
SpecificEoi(from) ==
  /\ Goto("cpu", from, "eoi_specific")
  /\ \E n \in EoiLines : line' = [line EXCEPT !["cpu"] = n]
  /\ loaded' = [loaded EXCEPT !["cpu"] = irr]
  /\ UNCHANGED <<irr, isr, config, lock, owed, slips>>

\* value & 0x03 takes two of the three bits of the line.
Hit(n) == n % 4

SpecificEoiStore(to) ==
  LET n == line["cpu"] IN
  /\ Goto("cpu", "eoi_specific", to)
  /\ irr' = loaded["cpu"] \ {Hit(n)}
  /\ isr' = isr \ {Hit(n)}
  /\ owed' = owed \ {n}
  /\ slips' = slips \cup (IF irr # loaded["cpu"] THEN {"irr"} ELSE {})
                    \cup (IF Hit(n) # n THEN {"alias"} ELSE {})
  /\ loaded' = [loaded EXCEPT !["cpu"] = {}]
  /\ line' = [line EXCEPT !["cpu"] = 0]
  /\ UNCHANGED <<config, lock>>

NonSpecificEoi(from) == LoadIrr("cpu", from, "eoi_all")

NonSpecificEoiStore(to) ==
  /\ Goto("cpu", "eoi_all", to)
  /\ StoreIrr("cpu", loaded["cpu"] \ isr)
  /\ isr' = {}
  /\ owed' = owed \ isr
  /\ UNCHANGED <<config, lock, line>>

\* Port 0 takes ICW1, EOIs and OCW3, port 2 the other words.
i8259_write(from, to) ==
  \/ WriteICW1(from, to) \/ WriteData(from, to) \/ WriteOCW3(from, to)
  \/ SpecificEoi(from) \/ SpecificEoiStore(to)
  \/ NonSpecificEoi(from) \/ NonSpecificEoiStore(to)

-----------------------------------------------------------------------------
PicInit ==
  /\ irr = {} /\ isr = {} /\ imr = {}
  /\ icwstep = 0 /\ icw1 = [single |-> FALSE, needs4 |-> FALSE] /\ icw2 = 0
  /\ readmode = "irr"
  /\ lock = FALSE
  /\ line = [t \in {"cpu", "bubble"} |-> 0]
  /\ loaded = [t \in {"cpu", "bubble"} |-> {}]
  /\ owed = {} /\ slips = {} /\ announced = 0 /\ wanted = {}
==============================================================================

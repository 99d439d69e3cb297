------------------------------ MODULE BubbleFifo ------------------------------
(***************************************************************************)
(* The FIFO of the Intel 7220 bubble memory controller: fifo_clear,        *)
(* fifo_pop, fifo_push and update_drq of src/src/i7220.c, executed by the  *)
(* emulator's main thread ("cpu": a guest instruction reads or writes the  *)
(* data port) and by bubble_thread ("bubble": a command moves data or      *)
(* clears the FIFO).                                                       *)
(*                                                                         *)
(* One action is one access to memory the threads share.  The build has no *)
(* optimisation, so "x |= b", "x++" and "x = x + 1" are a load into a      *)
(* thread-local register (bits, acc, idx) followed by a store, and the     *)
(* spin on fifoLock is a test that some later store follows: two threads   *)
(* may both pass it.  Memory is sequentially consistent.                   *)
(***************************************************************************)
EXTENDS Integers, Sequences

CONSTANTS
  BUBBLEFIFOSIZE,   \* slots in fifoArray (40)
  DrqLevel,         \* fill level of update_drq (22)
  INT8_MAX,         \* largest value of fifo_size, an int8_t (127)
  Bytes,            \* byte values; 0 is what fresh slots hold
  None,             \* no byte
  CpuCalls,         \* FIFO functions the main thread calls
  BubbleCalls,      \* FIFO functions bubble_thread calls
  Starts,           \* phase and command meanwhile, as <<phase, command>>
  Recorded          \* shared words whose lost updates the history records

ASSUME SizeAssumption ==
  /\ BUBBLEFIFOSIZE \in Nat \ {0, 1}
  /\ INT8_MAX \in Nat
  /\ BUBBLEFIFOSIZE <= INT8_MAX
  /\ DrqLevel \in Nat
ASSUME BytesAssumption == 0 \in Bytes /\ None \notin Bytes
ASSUME CallsAssumption ==
  /\ CpuCalls \subseteq {"pop", "push"}
  /\ BubbleCalls \subseteq {"push", "clear"}
ASSUME StartsAssumption ==
  Starts \subseteq {"IDLE", "CMD", "EXEC"} \X (0 .. 15)
ASSUME RecordedAssumption ==
  /\ {"fifo_size"} \subseteq Recorded
  /\ Recorded \subseteq {"fifo_size", "regStatus", "ring"}

VARIABLES
  fifoArray, fifo_head, fifo_tail, fifo_size, fifoLock,
  regStatus,        \* the bits that are set in regStatus
  irqRaised,        \* has i8259_setirq(irqBubble, true) been called?
  mainExecPhase, bubbleCommand,
  pc,               \* per thread: next access inside a FIFO function, or "caller"
  val,              \* per thread: the byte pushed or popped
  idx,              \* per thread: the index computed from head or tail
  acc,              \* per thread: fifo_size as loaded
  bits,             \* per thread: regStatus as loaded
  clobbered,        \* history: words an update to which has been overwritten
  overlapped        \* history: have both threads held fifoLock at once?

ring     == <<fifoArray, fifo_head, fifo_tail>>
locals   == <<val, idx, acc, bits>>
history  == <<clobbered, overlapped>>
command  == <<mainExecPhase, bubbleCommand>>
vars     == <<ring, fifo_size, fifoLock, regStatus, irqRaised, command, pc,
              locals, history>>

Threads  == {"cpu", "bubble"}
Slots    == 0 .. BUBBLEFIFOSIZE - 1
StatusBits == {"FIFO_READY", "OP_FAIL", "OP_COMPLETE", "BUSY"}
Phases   == {"IDLE", "CMD", "EXEC"}
Commands == 0 .. 15
cmdReadBubbleData  == 2
cmdWriteBubbleData == 3
cmdAbort     == 9
cmdResetFifo == 13
cmdSoftReset == 15
\* The commands that empty the FIFO.
ClearingCommands == {cmdAbort, cmdResetFifo, cmdSoftReset}

Inc(i) == (i + 1) % BUBBLEFIFOSIZE
\* The value an int8_t holds after x is stored in it.
Int8(x)  == ((x + INT8_MAX + 1) % (2 * (INT8_MAX + 1))) - (INT8_MAX + 1)

-----------------------------------------------------------------------------
\* Thread t moves from one access to the next.
Goto(t, from, to) == pc[t] = from /\ pc' = [pc EXCEPT ![t] = to]

\* The store half of an update notes whether it overwrites a newer value, and
\* leaves the register it used dead.
Overwrites(name, now, loaded) ==
  /\ clobbered' = IF now = loaded THEN clobbered
                   ELSE clobbered \cup ({name} \cap Recorded)
  /\ UNCHANGED overlapped

LoadStatus(t, from, to) ==
  /\ Goto(t, from, to)
  /\ bits' = [bits EXCEPT ![t] = regStatus]
  /\ UNCHANGED <<ring, fifo_size, fifoLock, regStatus, irqRaised, command,
                 val, idx, acc, history>>

StoreStatus(t, from, to, S) ==
  /\ Goto(t, from, to)
  /\ regStatus' = S
  /\ Overwrites("regStatus", regStatus, bits[t])
  /\ bits' = [bits EXCEPT ![t] = {}]
  /\ UNCHANGED <<ring, fifo_size, fifoLock, irqRaised, command, val, idx, acc>>

LoadSize(t, from, to) ==
  /\ Goto(t, from, to)
  /\ acc' = [acc EXCEPT ![t] = fifo_size]
  /\ UNCHANGED <<ring, fifo_size, fifoLock, regStatus, irqRaised, command,
                 val, idx, bits, history>>

StoreSize(t, from, to, n) ==
  /\ Goto(t, from, to)
  /\ fifo_size' = Int8(n)
  /\ Overwrites("fifo_size", fifo_size, acc[t])
  /\ acc' = [acc EXCEPT ![t] = 0]
  /\ UNCHANGED <<ring, fifoLock, regStatus, irqRaised, command, val, idx, bits>>

\* Thread t believes it holds fifoLock.
InCritical(t) ==
  pc[t] \in {"pop_check", "bad_ready", "bad_clear", "bad_unlock", "pop_get",
            "pop_next", "pop_tail", "pop_phase", "pop_drq", "pop_size",
            "pop_dec", "pop_empty", "pop_ready", "pop_clear", "pop_unlock",
            "push_next", "push_room", "push_put", "push_head", "push_size",
            "push_inc", "push_ready", "push_set", "push_phase", "push_drq",
            "push_unlock"}

\* Thread t is inside fifo_clear, which ignores fifoLock.
Clearing(t) == pc[t] \in {"clear_size", "clear_tail", "clear_head",
                          "clear_ready", "clear_clear", "clear_drq"}

\* A clear that meets a pop or push in progress tears the ring.
TornIf(met) ==
  clobbered' = IF met THEN clobbered \cup ({"ring"} \cap Recorded)
               ELSE clobbered

Lock(t, from, to) ==
  /\ Goto(t, from, to)
  /\ fifoLock' = TRUE
  /\ overlapped' = (overlapped \/ \E u \in Threads \ {t} : InCritical(u))
  /\ TornIf(\E u \in Threads \ {t} : Clearing(u))
  /\ UNCHANGED <<ring, fifo_size, regStatus, irqRaised, command, locals>>

\* The last access of a call: the locals go out of scope.
UnlockAndReturn(t, from) ==
  /\ Goto(t, from, "caller")
  /\ fifoLock' = FALSE
  /\ val' = [val EXCEPT ![t] = 0]
  /\ idx' = [idx EXCEPT ![t] = 0]
  /\ UNCHANGED <<ring, fifo_size, regStatus, irqRaised, command, acc, bits,
                 history>>

\* A test of shared memory that changes nothing but the control point.
Branch(t, from, to) ==
  /\ Goto(t, from, to)
  /\ UNCHANGED <<ring, fifo_size, fifoLock, regStatus, irqRaised, command,
                 locals, history>>

\* i8259_setirq never lowers a request, so only a TRUE argument matters.
RaisesIrq == \/ bubbleCommand = cmdReadBubbleData /\ fifo_size > DrqLevel
             \/ bubbleCommand = cmdWriteBubbleData
                  /\ fifo_size < BUBBLEFIFOSIZE - DrqLevel

update_drq(t, from, to) ==
  /\ Goto(t, from, to)
  /\ irqRaised' = (irqRaised \/ RaisesIrq)
  /\ UNCHANGED <<ring, fifo_size, fifoLock, regStatus, command, locals,
                 history>>

-----------------------------------------------------------------------------
(* fifo_pop *)

PopCall(t) == Branch(t, "caller", "pop_wait")
PopWait(t) == fifo_head # fifo_tail /\ Branch(t, "pop_wait", "pop_spin")
PopSpin(t) == ~fifoLock /\ Branch(t, "pop_spin", "pop_lock")
PopLock(t) == Lock(t, "pop_lock", "pop_check")

PopCheck(t) ==
  \/ fifo_head # fifo_tail /\ Branch(t, "pop_check", "pop_get")
  \/ fifo_head = fifo_tail /\ Branch(t, "pop_check", "bad_ready")

\* The branch that logs "fifo pop: this is bad" and returns 0.
PopBad(t) ==
  \/ LoadStatus(t, "bad_ready", "bad_clear")
  \/ StoreStatus(t, "bad_clear", "bad_unlock", bits[t] \ {"FIFO_READY"})
  \/ UnlockAndReturn(t, "bad_unlock")

PopGet(t) ==
  /\ Goto(t, "pop_get", "pop_next")
  /\ val' = [val EXCEPT ![t] = fifoArray[fifo_tail]]
  /\ UNCHANGED <<ring, fifo_size, fifoLock, regStatus, irqRaised, command,
                 idx, acc, bits, history>>

PopNext(t) ==
  /\ Goto(t, "pop_next", "pop_tail")
  /\ idx' = [idx EXCEPT ![t] = Inc(fifo_tail)]
  /\ UNCHANGED <<ring, fifo_size, fifoLock, regStatus, irqRaised, command,
                 val, acc, bits, history>>

PopTail(t) ==
  /\ Goto(t, "pop_tail", "pop_phase")
  /\ fifo_tail' = idx[t]
  /\ UNCHANGED <<fifoArray, fifo_head, fifo_size, fifoLock, regStatus,
                 irqRaised, command, locals, history>>

PopPhase(t) ==
  \/ mainExecPhase = "EXEC" /\ Branch(t, "pop_phase", "pop_drq")
  \/ mainExecPhase # "EXEC" /\ Branch(t, "pop_phase", "pop_size")

PopDrq(t) == update_drq(t, "pop_drq", "pop_size")

\* Mutant: the fill count is not taken down.
PopSizeKept(t) == \/ LoadSize(t, "pop_size", "pop_dec")
                  \/ StoreSize(t, "pop_dec", "pop_empty", acc[t])
PopSize(t) == \/ LoadSize(t, "pop_size", "pop_dec")
              \/ StoreSize(t, "pop_dec", "pop_empty", acc[t] - 1)

\* Mutant: the ring is never found empty.
PopEmptyMissed(t) == Branch(t, "pop_empty", "pop_unlock")
PopEmpty(t) ==
  \/ fifo_head = fifo_tail /\ Branch(t, "pop_empty", "pop_ready")
  \/ fifo_head # fifo_tail /\ Branch(t, "pop_empty", "pop_unlock")

PopReady(t) ==
  \/ LoadStatus(t, "pop_ready", "pop_clear")
  \/ StoreStatus(t, "pop_clear", "pop_unlock", bits[t] \ {"FIFO_READY"})

PopUnlock(t) == UnlockAndReturn(t, "pop_unlock")

Pop(t) == \/ PopWait(t) \/ PopSpin(t) \/ PopLock(t) \/ PopCheck(t)
          \/ PopBad(t) \/ PopGet(t) \/ PopNext(t) \/ PopTail(t)
          \/ PopPhase(t) \/ PopDrq(t) \/ PopSize(t) \/ PopEmpty(t)
          \/ PopReady(t) \/ PopUnlock(t)

-----------------------------------------------------------------------------
(* fifo_push *)

PushCall(t, b) ==
  /\ Goto(t, "caller", "push_wait")
  /\ val' = [val EXCEPT ![t] = b]
  /\ UNCHANGED <<ring, fifo_size, fifoLock, regStatus, irqRaised, command,
                 idx, acc, bits, history>>

PushWait(t) == /\ fifo_size < BUBBLEFIFOSIZE - 1
               /\ Branch(t, "push_wait", "push_spin")
PushSpin(t) == ~fifoLock /\ Branch(t, "push_spin", "push_lock")
PushLock(t) == Lock(t, "push_lock", "push_next")

PushNext(t) ==
  /\ Goto(t, "push_next", "push_room")
  /\ idx' = [idx EXCEPT ![t] = Inc(fifo_head)]
  /\ UNCHANGED <<ring, fifo_size, fifoLock, regStatus, irqRaised, command,
                 val, acc, bits, history>>

\* Mutant: no test for room.
PushRoomUnchecked(t) == Branch(t, "push_room", "push_put")

\* No room: the byte is dropped without a trace.
PushRoom(t) ==
  \/ idx[t] # fifo_tail /\ Branch(t, "push_room", "push_put")
  \/ idx[t] = fifo_tail /\ Branch(t, "push_room", "push_unlock")

PushPut(t) ==
  /\ Goto(t, "push_put", "push_head")
  /\ fifoArray' = [fifoArray EXCEPT ![fifo_head] = val[t]]
  /\ UNCHANGED <<fifo_head, fifo_tail, fifo_size, fifoLock, regStatus,
                 irqRaised, command, locals, history>>

PushHead(t) ==
  /\ Goto(t, "push_head", "push_size")
  /\ fifo_head' = idx[t]
  /\ UNCHANGED <<fifoArray, fifo_tail, fifo_size, fifoLock, regStatus,
                 irqRaised, command, locals, history>>

PushSize(t) == \/ LoadSize(t, "push_size", "push_inc")
               \/ StoreSize(t, "push_inc", "push_ready", acc[t] + 1)

PushReady(t) ==
  \/ LoadStatus(t, "push_ready", "push_set")
  \/ StoreStatus(t, "push_set", "push_phase", bits[t] \cup {"FIFO_READY"})

PushPhase(t) ==
  \/ mainExecPhase = "EXEC" /\ Branch(t, "push_phase", "push_drq")
  \/ mainExecPhase # "EXEC" /\ Branch(t, "push_phase", "push_unlock")

PushDrq(t) == update_drq(t, "push_drq", "push_unlock")

\* Mutant: fifoLock is left set.
PushUnlockForgotten(t) == Branch(t, "push_unlock", "caller")
PushUnlock(t) == UnlockAndReturn(t, "push_unlock")

Push(t) == \/ PushWait(t) \/ PushSpin(t) \/ PushLock(t) \/ PushNext(t)
           \/ PushRoom(t) \/ PushPut(t) \/ PushHead(t) \/ PushSize(t)
           \/ PushReady(t) \/ PushPhase(t) \/ PushDrq(t) \/ PushUnlock(t)

-----------------------------------------------------------------------------
(* fifo_clear: takes no lock *)

ClearFrom(t, from) ==
  /\ Goto(t, from, "clear_size")
  /\ TornIf(\E u \in Threads \ {t} : InCritical(u))
  /\ UNCHANGED <<ring, fifo_size, fifoLock, regStatus, irqRaised, command,
                 locals, overlapped>>

ClearCall(t) == ClearFrom(t, "caller")

ClearSize(t) ==
  /\ Goto(t, "clear_size", "clear_tail")
  /\ fifo_size' = 0
  /\ UNCHANGED <<ring, fifoLock, regStatus, irqRaised, command, locals,
                 history>>

ClearTail(t) ==
  /\ Goto(t, "clear_tail", "clear_head")
  /\ fifo_tail' = 0
  /\ UNCHANGED <<fifoArray, fifo_head, fifo_size, fifoLock, regStatus,
                 irqRaised, command, locals, history>>

ClearHead(t) ==
  /\ Goto(t, "clear_head", "clear_ready")
  /\ fifo_head' = 0
  /\ UNCHANGED <<fifoArray, fifo_tail, fifo_size, fifoLock, regStatus,
                 irqRaised, command, locals, history>>

\* Mutant: FIFO READY is left on.
ClearReadyKept(t) == Branch(t, "clear_ready", "clear_drq")

ClearReady(t) ==
  \/ LoadStatus(t, "clear_ready", "clear_clear")
  \/ StoreStatus(t, "clear_clear", "clear_drq", bits[t] \ {"FIFO_READY"})

ClearDrq(t) == update_drq(t, "clear_drq", "caller")

Clear(t) == \/ ClearSize(t) \/ ClearTail(t) \/ ClearHead(t)
            \/ ClearReady(t) \/ ClearDrq(t)

-----------------------------------------------------------------------------
FifoInit ==
  /\ fifoArray = [i \in Slots |-> 0]
  /\ fifo_head = 0 /\ fifo_tail = 0 /\ fifo_size = 0
  /\ fifoLock = FALSE
  /\ regStatus = {}
  /\ irqRaised = FALSE
  /\ pc = [t \in Threads |-> "caller"]
  /\ val = [t \in Threads |-> 0]
  /\ idx = [t \in Threads |-> 0]
  /\ acc = [t \in Threads |-> 0]
  /\ bits = [t \in Threads |-> {}]
  /\ clobbered = {}
  /\ overlapped = FALSE

\* The command in progress, or the one the guest has issued meanwhile.
Init == /\ FifoInit
        /\ \E start \in Starts :
             mainExecPhase = start[1] /\ bubbleCommand = start[2]

\* fifo_clear is called by the commands that empty the FIFO only.
ClearsFifo == bubbleCommand \in ClearingCommands

Calls(t) == IF t = "cpu" THEN CpuCalls ELSE BubbleCalls

Call(t) == \/ "pop" \in Calls(t) /\ PopCall(t)
           \/ "push" \in Calls(t) /\ \E b \in Bytes : PushCall(t, b)
           \/ "clear" \in Calls(t) /\ ClearsFifo /\ ClearCall(t)

\* The accesses of a FIFO function that has been called.
Run(t) == Pop(t) \/ Push(t) \/ Clear(t)

Next == \E t \in Threads : Call(t) \/ Run(t)

Spec == Init /\ [][Next]_vars

\* bubble_thread never stops, and the guest reads until it has every byte.
Fairness == /\ WF_vars(Run("cpu") \/ ("pop" \in CpuCalls /\ PopCall("cpu")))
            /\ WF_vars(Run("bubble"))

FairSpec == Spec /\ Fairness

-----------------------------------------------------------------------------
(* Properties *)

PopLabels  == {"pop_wait", "pop_spin", "pop_lock", "pop_check", "bad_ready",
               "bad_clear", "bad_unlock", "pop_get", "pop_next", "pop_tail",
               "pop_phase", "pop_drq", "pop_size", "pop_dec", "pop_empty",
               "pop_ready", "pop_clear", "pop_unlock"}
PushLabels == {"push_wait", "push_spin", "push_lock", "push_next", "push_room",
               "push_put", "push_head", "push_size", "push_inc", "push_ready",
               "push_set", "push_phase", "push_drq", "push_unlock"}
ClearLabels == {"clear_size", "clear_tail", "clear_head", "clear_ready",
                "clear_clear", "clear_drq"}

\* Every variable keeps its type: in particular the indices stay inside
\* fifoArray whatever the two threads do (i7220.c:164-166).
TypeOK ==
  /\ fifoArray \in [Slots -> Bytes]
  /\ fifo_head \in Slots /\ fifo_tail \in Slots
  /\ fifo_size \in -(INT8_MAX + 1) .. INT8_MAX
  /\ fifoLock \in BOOLEAN
  /\ regStatus \subseteq StatusBits
  /\ irqRaised \in BOOLEAN
  /\ mainExecPhase \in Phases /\ bubbleCommand \in Commands
  /\ pc \in [Threads -> {"caller"} \cup PopLabels \cup PushLabels
                        \cup ClearLabels]
  /\ val \in [Threads -> Bytes]
  /\ idx \in [Threads -> Slots]
  /\ acc \in [Threads -> -(INT8_MAX + 1) .. INT8_MAX]
  /\ bits \in [Threads -> SUBSET StatusBits]
  /\ clobbered \subseteq Recorded
  /\ overlapped \in BOOLEAN

\* Bytes between tail and head, and what they are, oldest first.
Count    == IF fifo_head >= fifo_tail THEN fifo_head - fifo_tail
            ELSE fifo_head - fifo_tail + BUBBLEFIFOSIZE
Slot(k)  == IF fifo_tail + k - 1 < BUBBLEFIFOSIZE THEN fifo_tail + k - 1
            ELSE fifo_tail + k - 1 - BUBBLEFIFOSIZE
Contents == [k \in 1 .. Count |-> fifoArray[Slot(k)]]

Damaged  == "fifo_size" \in clobbered

\* The byte a push has not published yet, the byte a pop has taken.
Offered  == IF pc["bubble"] \in {"push_wait", "push_spin", "push_lock",
                                "push_next", "push_room", "push_put",
                                "push_head"}
            THEN val["bubble"] ELSE None
Taken    == IF pc["cpu"] \in {"pop_phase", "pop_drq", "pop_size", "pop_dec",
                             "pop_empty", "pop_ready", "pop_clear",
                             "pop_unlock"}
            THEN val["cpu"] ELSE None

Abstract == INSTANCE LossyFifo
              WITH Capacity <- BUBBLEFIFOSIZE - 1, queue <- Contents,
                   offer <- Offered, hand <- Taken, damaged <- Damaged,
                   emptied <- ("clear" \in BubbleCalls /\ ClearsFifo)

\* While bubble_thread pushes and the guest pops, and no command empties the
\* FIFO, the bytes come out in the order they went in, unchanged and once each,
\* although fifoLock lets both threads in together; one is dropped
\* (i7220.c:375) only after an update of fifo_size (353, 378) has been lost.
FifoOrder == Abstract!Spec

IsTorn == "ring" \in clobbered

\* Until an update of fifo_size is lost or a fifo_clear meets a pop or push,
\* fifo_size is the number of bytes in the ring, give or take the byte of the
\* call in progress.
SizeTracksContents ==
  ~Damaged /\ ~IsTorn /\ (\A t \in Threads : ~Clearing(t)) =>
    fifo_size = Count
      + (IF pc["cpu"] \in {"pop_phase", "pop_drq", "pop_size", "pop_dec"}
         THEN 1 ELSE 0)
      - (IF pc["bubble"] \in {"push_size", "push_inc"} THEN 1 ELSE 0)

\* If the threads never were inside fifoLock together, nor one of them inside
\* fifo_clear meanwhile, then outside the guest-visible FIFO READY bit says
\* whether there is a byte (324, 355, 379).
ReadyIsExact ==
  ~overlapped /\ ~IsTorn /\ (\A t \in Threads : ~InCritical(t) /\ ~Clearing(t)) =>
    (("FIFO_READY" \in regStatus) <=> Count # 0)

\* A guest that keeps reading lets every push return, unless the spins have
\* been decoupled from the ring by a damaged fifo_size or a fifo_clear.
PushReturns ==
  pc["bubble"] = "push_wait" ~> (pc["bubble"] = "caller" \/ Damaged \/ IsTorn)

\* The branch i7220.c:342 reports as "fifo pop: this is bad" is not reached.
PopNeverBad == \A t \in Threads : pc[t] # "bad_ready"
==============================================================================

------------------------ MODULE BubbleControllerProofs ------------------------
(***************************************************************************)
(* Theorems about BubbleFifo and BubbleController.  First the FIFO alone:  *)
(* for a ring of any size and any byte values, whatever the two threads    *)
(* call, and, in a Read, that it implements LossyFifo.  Then the           *)
(* controller: for a ring and pages of any size, any register values and   *)
(* any commands, with a guest that follows the driver's protocol           *)
(* (assumption Driving).                                                   *)
(***************************************************************************)
EXTENDS BubbleController, SequenceTheorems, TLAPS

-----------------------------------------------------------------------------
(* The FIFO *)

Labels == {"caller"} \cup PopLabels \cup PushLabels \cup ClearLabels

-----------------------------------------------------------------------------
(* The arithmetic of the indices and of the fill count *)

\* The index after i: i + 1, or 0 at the end of fifoArray (i7220.c:349, 374).
LEMMA IncNext ==
  ASSUME NEW i \in Slots
  PROVE  /\ Inc(i) = IF i + 1 = BUBBLEFIFOSIZE THEN 0 ELSE i + 1
         /\ Inc(i) \in Slots
BY SizeAssumption DEF Slots, Inc

\* A store in the int8_t leaves an int8_t (i7220.c:164).
LEMMA Int8Range ==
  ASSUME NEW x \in Int
  PROVE  Int8(x) \in -(INT8_MAX + 1) .. INT8_MAX
BY SizeAssumption DEF Int8

\* A value that fits is stored as it is.
LEMMA Int8Exact ==
  ASSUME NEW x \in -(INT8_MAX + 1) .. INT8_MAX
  PROVE  Int8(x) = x
BY SizeAssumption DEF Int8

\* Distinct indices have distinct successors.
LEMMA IncInjective ==
  ASSUME NEW i \in Slots, NEW j \in Slots, Inc(i) = Inc(j)
  PROVE  i = j
BY IncNext, SizeAssumption DEF Slots

-----------------------------------------------------------------------------
(* Type correctness: one lemma for each kind of access *)

\* A test of shared memory keeps the types.
LEMMA BranchTyped ==
  ASSUME TypeOK, NEW t \in Threads, NEW from, NEW to \in Labels,
         Branch(t, from, to)
  PROVE  TypeOK'
BY DEF TypeOK, Branch, Goto, Labels, ring, command, locals, history

\* So does the load of regStatus.
LEMMA LoadStatusTyped ==
  ASSUME TypeOK, NEW t \in Threads, NEW from, NEW to \in Labels,
         LoadStatus(t, from, to)
  PROVE  TypeOK'
BY DEF TypeOK, LoadStatus, Goto, Labels, ring, command, history

\* So does its store.
LEMMA StoreStatusTyped ==
  ASSUME TypeOK, NEW t \in Threads, NEW from, NEW to \in Labels,
         NEW S \in SUBSET StatusBits, StoreStatus(t, from, to, S)
  PROVE  TypeOK'
BY DEF TypeOK, StoreStatus, Overwrites, Goto, Labels, ring, command

\* So does the load of fifo_size.
LEMMA LoadSizeTyped ==
  ASSUME TypeOK, NEW t \in Threads, NEW from, NEW to \in Labels,
         LoadSize(t, from, to)
  PROVE  TypeOK'
BY DEF TypeOK, LoadSize, Goto, Labels, ring, command, history

\* So does its store, whatever the number.
LEMMA StoreSizeTyped ==
  ASSUME TypeOK, NEW t \in Threads, NEW from, NEW to \in Labels,
         NEW n \in Int, StoreSize(t, from, to, n)
  PROVE  TypeOK'
<1>1. Int8(n) \in -(INT8_MAX + 1) .. INT8_MAX
  BY Int8Range
<1> QED
  BY <1>1, SizeAssumption
  DEF TypeOK, StoreSize, Overwrites, Goto, Labels, ring, command

\* So does taking fifoLock.
LEMMA LockTyped ==
  ASSUME TypeOK, NEW t \in Threads, NEW from, NEW to \in Labels,
         Lock(t, from, to)
  PROVE  TypeOK'
<1>1. overlapped' \in BOOLEAN /\ clobbered' \subseteq Recorded
  BY DEF TypeOK, Lock, TornIf
<1> QED
  BY <1>1 DEF TypeOK, Lock, Goto, Labels, ring, command, locals

\* So does giving it back.
LEMMA UnlockTyped ==
  ASSUME TypeOK, NEW t \in Threads, NEW from, UnlockAndReturn(t, from)
  PROVE  TypeOK'
<1>1. 0 \in Slots /\ 0 \in Bytes
  BY SizeAssumption, BytesAssumption DEF Slots
<1>2. /\ pc' \in [Threads -> Labels]
      /\ val' \in [Threads -> Bytes] /\ idx' \in [Threads -> Slots]
  BY <1>1 DEF TypeOK, UnlockAndReturn, Goto, Labels
<1> QED
  BY <1>2 DEF TypeOK, UnlockAndReturn, Labels, ring, command, history

\* So does update_drq.
LEMMA DrqTyped ==
  ASSUME TypeOK, NEW t \in Threads, NEW from, NEW to \in Labels,
         update_drq(t, from, to)
  PROVE  TypeOK'
<1>1. irqRaised' \in BOOLEAN
  BY DEF TypeOK, update_drq, RaisesIrq
<1> QED
  BY <1>1 DEF TypeOK, update_drq, Goto, Labels, ring, command, locals, history

-----------------------------------------------------------------------------
\* fifo_pop keeps the types.
LEMMA PopTyped ==
  ASSUME TypeOK, NEW t \in Threads, Pop(t)
  PROVE  TypeOK'
<1> USE DEF Labels, PopLabels
<1>1. CASE PopWait(t) \/ PopSpin(t) \/ PopCheck(t) \/ PopPhase(t) \/ PopEmpty(t)
  BY <1>1, BranchTyped DEF PopWait, PopSpin, PopCheck, PopPhase, PopEmpty
<1>2. CASE PopLock(t)
  BY <1>2, LockTyped DEF PopLock
<1>3. CASE PopUnlock(t)
  BY <1>3, UnlockTyped DEF PopUnlock
<1>4. CASE PopBad(t) \/ PopReady(t)
  <2>1. bits[t] \ {"FIFO_READY"} \in SUBSET StatusBits
    BY DEF TypeOK
  <2> QED
    BY <1>4, <2>1, LoadStatusTyped, StoreStatusTyped, UnlockTyped
    DEF PopBad, PopReady
<1>5. CASE PopDrq(t)
  BY <1>5, DrqTyped DEF PopDrq
<1>6. CASE PopSize(t)
  <2>1. acc[t] - 1 \in Int
    BY SizeAssumption DEF TypeOK
  <2> QED
    BY <1>6, <2>1, LoadSizeTyped, StoreSizeTyped DEF PopSize
<1>7. CASE PopGet(t)
  BY <1>7 DEF TypeOK, PopGet, Goto, ring, command, history
<1>8. CASE PopNext(t)
  <2>1. Inc(fifo_tail) \in Slots
    BY IncNext DEF TypeOK
  <2> QED
    BY <1>8, <2>1 DEF TypeOK, PopNext, Goto, ring, command, history
<1>9. CASE PopTail(t)
  BY <1>9 DEF TypeOK, PopTail, Goto, command, locals, history
<1> QED
  BY <1>1, <1>2, <1>3, <1>4, <1>5, <1>6, <1>7, <1>8, <1>9 DEF Pop

\* fifo_push keeps the types.
LEMMA PushTyped ==
  ASSUME TypeOK, NEW t \in Threads, Push(t)
  PROVE  TypeOK'
<1> USE DEF Labels, PushLabels
<1>1. CASE PushWait(t) \/ PushSpin(t) \/ PushRoom(t) \/ PushPhase(t)
  BY <1>1, BranchTyped DEF PushWait, PushSpin, PushRoom, PushPhase
<1>2. CASE PushLock(t)
  BY <1>2, LockTyped DEF PushLock
<1>3. CASE PushUnlock(t)
  BY <1>3, UnlockTyped DEF PushUnlock
<1>4. CASE PushReady(t)
  <2>1. bits[t] \cup {"FIFO_READY"} \in SUBSET StatusBits
    BY DEF TypeOK, StatusBits
  <2> QED
    BY <1>4, <2>1, LoadStatusTyped, StoreStatusTyped DEF PushReady
<1>5. CASE PushDrq(t)
  BY <1>5, DrqTyped DEF PushDrq
<1>6. CASE PushSize(t)
  <2>1. acc[t] + 1 \in Int
    BY SizeAssumption DEF TypeOK
  <2> QED
    BY <1>6, <2>1, LoadSizeTyped, StoreSizeTyped DEF PushSize
<1>7. CASE PushNext(t)
  <2>1. Inc(fifo_head) \in Slots
    BY IncNext DEF TypeOK
  <2> QED
    BY <1>7, <2>1 DEF TypeOK, PushNext, Goto, ring, command, history
<1>8. CASE PushPut(t)
  BY <1>8 DEF TypeOK, PushPut, Goto, command, locals, history
<1>9. CASE PushHead(t)
  BY <1>9 DEF TypeOK, PushHead, Goto, command, locals, history
<1> QED
  BY <1>1, <1>2, <1>3, <1>4, <1>5, <1>6, <1>7, <1>8, <1>9 DEF Push

\* fifo_clear keeps the types.
LEMMA ClearTyped ==
  ASSUME TypeOK, NEW t \in Threads, Clear(t)
  PROVE  TypeOK'
<1> USE DEF Labels, ClearLabels
<1>1. CASE ClearReady(t)
  <2>1. bits[t] \ {"FIFO_READY"} \in SUBSET StatusBits
    BY DEF TypeOK
  <2> QED
    BY <1>1, <2>1, LoadStatusTyped, StoreStatusTyped DEF ClearReady
<1>2. CASE ClearDrq(t)
  BY <1>2, DrqTyped DEF ClearDrq
<1>3. CASE ClearSize(t)
  BY <1>3, SizeAssumption
  DEF TypeOK, ClearSize, Goto, ring, command, locals, history
<1>4. 0 \in Slots
  BY SizeAssumption DEF Slots
<1>5. CASE ClearTail(t)
  BY <1>4, <1>5 DEF TypeOK, ClearTail, Goto, command, locals, history
<1>6. CASE ClearHead(t)
  BY <1>4, <1>6 DEF TypeOK, ClearHead, Goto, command, locals, history
<1> QED
  BY <1>1, <1>2, <1>3, <1>5, <1>6 DEF Clear

\* So do the calls of the three.
LEMMA CallTyped ==
  ASSUME TypeOK, NEW t \in Threads, Call(t)
  PROVE  TypeOK'
<1> USE DEF Labels
<1>1. CASE PopCall(t)
  BY <1>1, BranchTyped DEF PopCall, PopLabels
<1>3. CASE ClearCall(t)
  <2>1. clobbered' \subseteq Recorded
    BY <1>3 DEF TypeOK, ClearCall, ClearFrom, TornIf
  <2> QED
    BY <1>3, <2>1
    DEF TypeOK, ClearCall, ClearFrom, Goto, ClearLabels, ring, command, locals
<1>2. CASE \E b \in Bytes : PushCall(t, b)
  BY <1>2 DEF TypeOK, PushCall, Goto, PushLabels, ring, command, history
<1> QED
  BY <1>1, <1>2, <1>3 DEF Call

\* Whatever the two threads call and however their accesses interleave, every
\* variable keeps its type: the indices never leave fifoArray (i7220.c:164-166).
THEOREM TypeCorrect == Spec => []TypeOK
<1>1. Init => TypeOK
  <2>1. 0 \in Slots /\ 0 \in Bytes /\ 0 \in -(INT8_MAX + 1) .. INT8_MAX
    BY SizeAssumption, BytesAssumption DEF Slots
  <2> SUFFICES ASSUME Init PROVE TypeOK
    OBVIOUS
  <2>2. mainExecPhase \in Phases /\ bubbleCommand \in Commands
    <3>1. PICK start \in Starts :
            mainExecPhase = start[1] /\ bubbleCommand = start[2]
      BY DEF Init
    <3> QED
      BY <3>1, StartsAssumption DEF Phases, Commands
  <2>3. /\ fifoArray \in [Slots -> Bytes]
        /\ val \in [Threads -> Bytes] /\ idx \in [Threads -> Slots]
        /\ acc \in [Threads -> -(INT8_MAX + 1) .. INT8_MAX]
        /\ bits \in [Threads -> SUBSET StatusBits]
    BY <2>1 DEF Init, FifoInit
  <2>4. pc \in [Threads -> Labels]
    BY DEF Init, FifoInit, Labels
  <2> QED
    BY <2>1, <2>2, <2>3, <2>4 DEF Init, FifoInit, TypeOK, Labels
<1>2. TypeOK /\ [Next]_vars => TypeOK'
  <2> SUFFICES ASSUME TypeOK, [Next]_vars
               PROVE  TypeOK'
    OBVIOUS
  <2>1. CASE Next
    BY <2>1, CallTyped, PopTyped, PushTyped, ClearTyped DEF Next, Run
  <2>2. CASE UNCHANGED vars
    BY <2>2 DEF TypeOK, vars, ring, command, locals, history
  <2> QED
    BY <2>1, <2>2
<1> QED
  BY <1>1, <1>2, PTL DEF Spec
-----------------------------------------------------------------------------
(* A Read: the guest pops, bubble_thread pushes *)

Reading == CpuCalls = {"pop"} /\ BubbleCalls = {"push"}

BadLabels == {"bad_ready", "bad_clear", "bad_unlock"}

\* Each thread stays in its function, and fifo_pop off its "bad" branch.
Roles == /\ pc["cpu"] \in ({"caller"} \cup PopLabels) \ BadLabels
         /\ pc["bubble"] \in {"caller"} \cup PushLabels

\* Past its first spin fifo_pop has a byte to take, and what it has computed
\* stays true while bubble_thread goes on.
PopFacts ==
  /\ pc["cpu"] \in {"pop_spin", "pop_lock", "pop_check", "pop_get", "pop_next",
                    "pop_tail"} => fifo_head # fifo_tail
  /\ pc["cpu"] \in {"pop_next", "pop_tail"} => val["cpu"] = fifoArray[fifo_tail]
  /\ pc["cpu"] = "pop_tail" => idx["cpu"] = Inc(fifo_tail)

\* Past its test for room fifo_push owns the slot at fifo_head.
PushFacts ==
  /\ pc["bubble"] \in {"push_room", "push_put", "push_head"}
       => idx["bubble"] = Inc(fifo_head)
  /\ pc["bubble"] \in {"push_put", "push_head"} => idx["bubble"] # fifo_tail
  /\ pc["bubble"] = "push_head" => fifoArray[fifo_head] = val["bubble"]

\* An undamaged fill count that let fifo_push in has not risen since.
RoomFacts ==
  ~Damaged /\ pc["bubble"] \in {"push_spin", "push_lock", "push_next", "push_room"}
    => fifo_size < BUBBLEFIFOSIZE - 1

\* The fill count counts, give or take the call in progress.
SizeFacts ==
  ~Damaged =>
    fifo_size = Count
      + (IF pc["cpu"] \in {"pop_phase", "pop_drq", "pop_size", "pop_dec"}
         THEN 1 ELSE 0)
      - (IF pc["bubble"] \in {"push_size", "push_inc"} THEN 1 ELSE 0)

ReadInv == Roles /\ PopFacts /\ PushFacts /\ RoomFacts /\ SizeFacts

-----------------------------------------------------------------------------
\* In a Read only fifo_pop runs on the main thread and only fifo_push on
\* bubble_thread.
LEMMA ReadMoves ==
  ASSUME Reading, Roles, Next
  PROVE  \/ PopCall("cpu")
         \/ Pop("cpu") /\ ~PopBad("cpu")
         \/ Push("bubble")
         \/ \E b \in Bytes : PushCall("bubble", b)
<1>1. PICK t \in Threads : Call(t) \/ Run(t)
  BY DEF Next
<1>2. CASE Call(t)
  BY <1>1, <1>2 DEF Call, Calls, Reading, Threads
<1>3. ~Clear("cpu") /\ ~Clear("bubble")
  BY DEF Roles, PopLabels, PushLabels, Clear, ClearSize, ClearTail, ClearHead,
         ClearReady, ClearDrq, LoadStatus, StoreStatus, update_drq, Goto
<1>4. ~Push("cpu")
  BY DEF Roles, PopLabels, Push, PushWait, PushSpin, PushLock, PushNext, PushRoom,
         PushPut, PushHead, PushSize, PushReady, PushPhase, PushDrq, PushUnlock,
         Branch, Lock, LoadSize, StoreSize, LoadStatus, StoreStatus, update_drq,
         UnlockAndReturn, Goto
<1>5. ~Pop("bubble")
  BY DEF Roles, PushLabels, Pop, PopWait, PopSpin, PopLock, PopCheck, PopBad,
         PopGet, PopNext, PopTail, PopPhase, PopDrq, PopSize, PopEmpty, PopReady,
         PopUnlock, Branch, Lock, LoadSize, StoreSize, LoadStatus, StoreStatus,
         update_drq, UnlockAndReturn, Goto
<1>6. ~PopBad("cpu")
  BY DEF Roles, BadLabels, PopBad, LoadStatus, StoreStatus, UnlockAndReturn, Goto
<1> QED
  BY <1>1, <1>2, <1>3, <1>4, <1>5, <1>6 DEF Run, Threads

-----------------------------------------------------------------------------
(* The number of bytes in the ring *)

\* It fits the ring; it is 0, or one less than the ring's size, as the indices
\* say the ring is empty or full.
LEMMA CountRange ==
  ASSUME fifo_head \in Slots, fifo_tail \in Slots
  PROVE  /\ Count \in 0 .. BUBBLEFIFOSIZE - 1
         /\ (Count = 0) <=> (fifo_head = fifo_tail)
         /\ (Count = BUBBLEFIFOSIZE - 1) <=> (Inc(fifo_head) = fifo_tail)
BY IncNext, SizeAssumption DEF Count, Slots

\* fifo_push adds one when there is room (i7220.c:374-377).
LEMMA CountPushed ==
  ASSUME fifo_head \in Slots, fifo_tail \in Slots, Inc(fifo_head) # fifo_tail,
         fifo_head' = Inc(fifo_head), fifo_tail' = fifo_tail
  PROVE  Count' = Count + 1
BY IncNext, SizeAssumption DEF Count, Slots

\* fifo_pop takes one when there is one (i7220.c:349).
LEMMA CountPopped ==
  ASSUME fifo_head \in Slots, fifo_tail \in Slots, fifo_head # fifo_tail,
         fifo_tail' = Inc(fifo_tail), fifo_head' = fifo_head
  PROVE  Count' = Count - 1
BY IncNext, SizeAssumption DEF Count, Slots

\* An update of fifo_size that is not lost starts from its value, and none was
\* lost before.
LEMMA StoreExact ==
  ASSUME TypeOK, NEW t \in Threads, NEW from, NEW to, NEW n \in Int,
         StoreSize(t, from, to, n), ~Damaged'
  PROVE  ~Damaged /\ fifo_size = acc[t] /\ fifo_size' = Int8(n)
BY RecordedAssumption DEF TypeOK, StoreSize, Overwrites, Damaged

-----------------------------------------------------------------------------
\* Every access of fifo_pop keeps ReadInv.
LEMMA PopKeeps ==
  ASSUME TypeOK, ReadInv, Pop("cpu"), ~PopBad("cpu")
  PROVE  ReadInv'
<1> USE DEF ReadInv, Roles, PopLabels, BadLabels, PopFacts, PushFacts, RoomFacts,
        SizeFacts, Damaged, Goto, ring, Threads
<1>1. CASE PopWait("cpu") \/ PopSpin("cpu")
  BY <1>1 DEF TypeOK, PopWait, PopSpin, Branch, history, locals, Count
<1>2. CASE PopLock("cpu")
  BY <1>2 DEF TypeOK, PopLock, Lock, TornIf, locals, Count
<1>3. CASE PopCheck("cpu") \/ PopPhase("cpu") \/ PopEmpty("cpu")
  BY <1>3 DEF TypeOK, PopCheck, PopPhase, PopEmpty, Branch, history, locals, Count
<1>4. CASE PopGet("cpu")
  BY <1>4 DEF TypeOK, PopGet, history, Count
<1>5. CASE PopNext("cpu")
  BY <1>5 DEF TypeOK, PopNext, history, Count
<1>6. CASE PopTail("cpu")
  <2>1. Count' = Count - 1
    BY <1>6, CountPopped DEF TypeOK, PopTail
  <2>2. Inc(fifo_head) # Inc(fifo_tail)
    BY <1>6, IncInjective DEF TypeOK, PopTail
  <2>3. PushFacts'
    BY <1>6, <2>2 DEF TypeOK, PopTail, locals
  <2>4. Roles' /\ PopFacts' /\ RoomFacts'
    BY <1>6 DEF TypeOK, PopTail, locals, history
  <2> QED
    BY <1>6, <2>1, <2>3, <2>4, CountRange DEF TypeOK, PopTail, history
<1>7. CASE PopDrq("cpu")
  BY <1>7 DEF TypeOK, PopDrq, update_drq, history, locals, Count
<1>8. CASE PopSize("cpu")
  <2>1. CASE LoadSize("cpu", "pop_size", "pop_dec")
    BY <2>1 DEF TypeOK, LoadSize, history, Count
  <2>2. CASE StoreSize("cpu", "pop_dec", "pop_empty", acc["cpu"] - 1)
    <3>1. ASSUME ~Damaged'
          PROVE  ~Damaged /\ fifo_size' = fifo_size - 1
      <4>1. acc["cpu"] - 1 \in Int
        BY SizeAssumption DEF TypeOK
      <4>2. ~Damaged /\ fifo_size = acc["cpu"] /\ fifo_size' = Int8(acc["cpu"] - 1)
        BY <2>2, <3>1, <4>1, StoreExact
      <4>3. fifo_size - 1 \in -(INT8_MAX + 1) .. INT8_MAX
        BY <2>2, <4>2, CountRange, SizeAssumption DEF TypeOK, StoreSize
      <4> QED
        BY <4>2, <4>3, Int8Exact
    <3>2. Count' = Count
      BY <2>2 DEF StoreSize, Count
    <3>3. Roles' /\ PopFacts' /\ PushFacts'
      BY <2>2 DEF TypeOK, StoreSize
    <3>4. RoomFacts'
      BY <2>2, <3>1, SizeAssumption DEF TypeOK, StoreSize
    <3>5. SizeFacts'
      BY <2>2, <3>1, <3>2, CountRange, SizeAssumption DEF TypeOK, StoreSize
    <3> QED
      BY <3>3, <3>4, <3>5
  <2> QED
    BY <1>8, <2>1, <2>2 DEF PopSize
<1>9. CASE PopReady("cpu")
  BY <1>9 DEF TypeOK, PopReady, LoadStatus, StoreStatus, Overwrites, history, Count
<1>10. CASE PopUnlock("cpu")
  BY <1>10 DEF TypeOK, PopUnlock, UnlockAndReturn, history, Count
<1> QED
  BY <1>1, <1>2, <1>3, <1>4, <1>5, <1>6, <1>7, <1>8, <1>9, <1>10 DEF Pop

\* Every access of fifo_push keeps ReadInv.
LEMMA PushKeeps ==
  ASSUME TypeOK, ReadInv, Push("bubble")
  PROVE  ReadInv'
<1> USE DEF ReadInv, Roles, PushLabels, PopFacts, PushFacts, RoomFacts,
        SizeFacts, Damaged, Goto, ring, Threads
<1>1. CASE PushWait("bubble")
  BY <1>1 DEF TypeOK, PushWait, Branch, history, locals, Count
<1>2. CASE PushSpin("bubble") \/ PushRoom("bubble") \/ PushPhase("bubble")
  BY <1>2 DEF TypeOK, PushSpin, PushRoom, PushPhase, Branch, history, locals, Count
<1>3. CASE PushLock("bubble")
  BY <1>3 DEF TypeOK, PushLock, Lock, TornIf, locals, Count
<1>4. CASE PushNext("bubble")
  BY <1>4 DEF TypeOK, PushNext, history, Count
<1>5. CASE PushPut("bubble")
  <2>1. Count' = Count
    BY <1>5 DEF PushPut, Count
  <2>2. PopFacts'
    BY <1>5 DEF TypeOK, PushPut, locals
  <2>3. PushFacts'
    BY <1>5 DEF TypeOK, PushPut, locals
  <2> QED
    BY <1>5, <2>1, <2>2, <2>3 DEF TypeOK, PushPut, locals, history
<1>6. CASE PushHead("bubble")
  <2>1. Count' = Count + 1
    BY <1>6, CountPushed DEF TypeOK, PushHead
  <2>2. Roles' /\ PopFacts' /\ PushFacts' /\ RoomFacts'
    BY <1>6 DEF TypeOK, PushHead, locals, history
  <2> QED
    BY <1>6, <2>1, <2>2, CountRange DEF TypeOK, PushHead, history
<1>7. CASE PushDrq("bubble")
  BY <1>7 DEF TypeOK, PushDrq, update_drq, history, locals, Count
<1>8. CASE PushSize("bubble")
  <2>1. CASE LoadSize("bubble", "push_size", "push_inc")
    BY <2>1 DEF TypeOK, LoadSize, history, Count
  <2>2. CASE StoreSize("bubble", "push_inc", "push_ready", acc["bubble"] + 1)
    <3>1. ASSUME ~Damaged'
          PROVE  ~Damaged /\ fifo_size' = fifo_size + 1
      <4>1. acc["bubble"] + 1 \in Int
        BY SizeAssumption DEF TypeOK
      <4>2. /\ ~Damaged
            /\ fifo_size = acc["bubble"] /\ fifo_size' = Int8(acc["bubble"] + 1)
        BY <2>2, <3>1, <4>1, StoreExact
      <4>3. fifo_size + 1 \in -(INT8_MAX + 1) .. INT8_MAX
        BY <2>2, <4>2, CountRange, SizeAssumption DEF TypeOK, StoreSize
      <4> QED
        BY <4>2, <4>3, Int8Exact
    <3>2. Count' = Count
      BY <2>2 DEF StoreSize, Count
    <3>3. Roles' /\ PopFacts' /\ PushFacts' /\ RoomFacts'
      BY <2>2 DEF TypeOK, StoreSize
    <3>4. SizeFacts'
      BY <2>2, <3>1, <3>2, CountRange, SizeAssumption DEF TypeOK, StoreSize
    <3> QED
      BY <3>3, <3>4
  <2> QED
    BY <1>8, <2>1, <2>2 DEF PushSize
<1>9. CASE PushReady("bubble")
  BY <1>9 DEF TypeOK, PushReady, LoadStatus, StoreStatus, Overwrites, history, Count
<1>10. CASE PushUnlock("bubble")
  BY <1>10 DEF TypeOK, PushUnlock, UnlockAndReturn, history, Count
<1> QED
  BY <1>1, <1>2, <1>3, <1>4, <1>5, <1>6, <1>7, <1>8, <1>9, <1>10 DEF Push

\* ReadInv is an invariant of a Read.
LEMMA ReadInvariant ==
  ASSUME Reading
  PROVE  Spec => [](TypeOK /\ ReadInv)
<1>1. Init => ReadInv
  BY SizeAssumption
  DEF Init, FifoInit, ReadInv, Roles, PopLabels, BadLabels, PopFacts, PushFacts,
      RoomFacts, SizeFacts, Count, Threads
<1>2. TypeOK /\ ReadInv /\ [Next]_vars => ReadInv'
  <2> SUFFICES ASSUME TypeOK, ReadInv, [Next]_vars
               PROVE  ReadInv'
    OBVIOUS
  <2>1. CASE PopCall("cpu")
    BY <2>1 DEF TypeOK, ReadInv, Roles, PopLabels, BadLabels, PopFacts, PushFacts,
                RoomFacts, SizeFacts, Damaged, Count, PopCall, Branch,
                Goto, ring, locals, history, Threads
  <2>2. CASE \E b \in Bytes : PushCall("bubble", b)
    BY <2>2 DEF TypeOK, ReadInv, Roles, PushLabels, PopFacts, PushFacts,
                RoomFacts, SizeFacts, Damaged, Count, PushCall, Goto,
                ring, history, Threads
  <2>3. CASE Next
    BY <2>1, <2>2, <2>3, ReadMoves, PopKeeps, PushKeeps, Reading DEF ReadInv
  <2>4. CASE UNCHANGED vars
    BY <2>4 DEF vars, ring, locals, history, ReadInv, Roles, PopFacts, PushFacts,
                RoomFacts, SizeFacts, Damaged, Count
  <2> QED
    BY <2>3, <2>4
<1> QED
  BY <1>1, <1>2, TypeCorrect, PTL DEF Spec

\* While bubble_thread pushes and the guest pops, in every interleaving and for
\* a ring of any size, fifo_size is the number of bytes in the ring, give or
\* take the call in progress, until one of its updates is lost (i7220.c:353, 378).
THEOREM SizeCorrect ==
  ASSUME Reading
  PROVE  Spec => []SizeTracksContents
<1>1. SizeFacts => SizeTracksContents
  BY DEF SizeFacts, SizeTracksContents
<1> QED
  BY <1>1, ReadInvariant, PTL DEF ReadInv

\* In a Read fifo_pop never takes the branch it reports as bad (i7220.c:341-345):
\* the byte its first spin saw (330) is still there behind the lock.
THEOREM PopsGood ==
  ASSUME Reading
  PROVE  Spec => []PopNeverBad
<1>1. Roles => PopNeverBad
  BY DEF Roles, BadLabels, PushLabels, PopNeverBad, Threads
<1> QED
  BY <1>1, ReadInvariant, PTL DEF ReadInv

-----------------------------------------------------------------------------
(* FIFO READY, as long as fifoLock has kept the threads apart *)

\* fifo_pop has moved fifo_tail but not looked at the ring again; it found the
\* ring empty and is about to say so; fifo_push has moved fifo_head but not set
\* FIFO READY yet.
PopUnsettled  == {"pop_phase", "pop_drq", "pop_size", "pop_dec", "pop_empty"}
PopEmptied    == {"pop_ready", "pop_clear"}
PushUnsettled == {"push_size", "push_inc", "push_ready", "push_set"}

Exclusion == ~(InCritical("cpu") /\ InCritical("bubble"))

ReadyFacts ==
  ~overlapped =>
    /\ Exclusion
    /\ pc["cpu"] \in PopUnsettled => "FIFO_READY" \in regStatus
    /\ pc["cpu"] \in PopEmptied => fifo_head = fifo_tail
    /\ pc["bubble"] \in PushUnsettled => fifo_head # fifo_tail
    /\ pc["cpu"] \notin PopUnsettled \cup PopEmptied
         /\ pc["bubble"] \notin PushUnsettled
       => (("FIFO_READY" \in regStatus) <=> fifo_head # fifo_tail)

\* Every access of fifo_pop keeps ReadyFacts.
LEMMA PopKeepsReady ==
  ASSUME TypeOK, ReadInv, ReadyFacts, Pop("cpu"), ~PopBad("cpu")
  PROVE  ReadyFacts'
<1> USE DEF ReadyFacts, Exclusion, InCritical, PopUnsettled, PopEmptied,
            PushUnsettled, Goto, ring, Threads
<1>1. CASE PopWait("cpu") \/ PopSpin("cpu")
  BY <1>1 DEF TypeOK, PopWait, PopSpin, Branch, history, locals
<1>2. CASE PopLock("cpu")
  <2>1. ~overlapped' => ~overlapped /\ ~InCritical("bubble")
    BY <1>2 DEF TypeOK, PopLock, Lock
  <2> QED
    BY <1>2, <2>1 DEF TypeOK, PopLock, Lock, TornIf, locals
<1>3. CASE PopCheck("cpu") \/ PopPhase("cpu")
  BY <1>3 DEF TypeOK, ReadInv, PopFacts, PopCheck, PopPhase, Branch, history, locals
<1>4. CASE PopEmpty("cpu")
  BY <1>4 DEF TypeOK, PopEmpty, Branch, history, locals
<1>5. CASE PopGet("cpu") \/ PopNext("cpu")
  BY <1>5 DEF TypeOK, PopGet, PopNext, history
<1>6. CASE PopTail("cpu")
  BY <1>6 DEF TypeOK, ReadInv, PopFacts, PopTail, history, locals
<1>7. CASE PopDrq("cpu")
  BY <1>7 DEF TypeOK, PopDrq, update_drq, history, locals
<1>8. CASE PopSize("cpu")
  BY <1>8 DEF TypeOK, PopSize, LoadSize, StoreSize, Overwrites, history
<1>9. CASE PopReady("cpu")
  <2>1. CASE LoadStatus("cpu", "pop_ready", "pop_clear")
    BY <2>1 DEF TypeOK, LoadStatus, history
  <2>2. CASE StoreStatus("cpu", "pop_clear", "pop_unlock",
                         bits["cpu"] \ {"FIFO_READY"})
    BY <2>2 DEF TypeOK, StoreStatus, Overwrites
  <2> QED
    BY <1>9, <2>1, <2>2 DEF PopReady
<1>10. CASE PopUnlock("cpu")
  BY <1>10 DEF TypeOK, PopUnlock, UnlockAndReturn, history
<1> QED
  BY <1>1, <1>2, <1>3, <1>4, <1>5, <1>6, <1>7, <1>8, <1>9, <1>10 DEF Pop

\* Every access of fifo_push keeps ReadyFacts.
LEMMA PushKeepsReady ==
  ASSUME TypeOK, ReadInv, ReadyFacts, Push("bubble")
  PROVE  ReadyFacts'
<1> USE DEF ReadyFacts, Exclusion, InCritical, PopUnsettled, PopEmptied,
            PushUnsettled, Goto, ring, Threads
<1>1. CASE \/ PushWait("bubble") \/ PushSpin("bubble") \/ PushRoom("bubble")
           \/ PushPhase("bubble")
  BY <1>1 DEF TypeOK, PushWait, PushSpin, PushRoom, PushPhase, Branch, history,
              locals
<1>2. CASE PushLock("bubble")
  BY <1>2 DEF TypeOK, PushLock, Lock, TornIf, locals
<1>3. CASE PushNext("bubble") \/ PushPut("bubble")
  BY <1>3 DEF TypeOK, PushNext, PushPut, history, locals
<1>4. CASE PushHead("bubble")
  BY <1>4 DEF TypeOK, ReadInv, PushFacts, PushHead, history, locals
<1>5. CASE PushDrq("bubble")
  BY <1>5 DEF TypeOK, PushDrq, update_drq, history, locals
<1>6. CASE PushSize("bubble")
  BY <1>6 DEF TypeOK, PushSize, LoadSize, StoreSize, Overwrites, history
<1>7. CASE PushReady("bubble")
  <2>1. CASE LoadStatus("bubble", "push_ready", "push_set")
    BY <2>1 DEF TypeOK, LoadStatus, history
  <2>2. CASE StoreStatus("bubble", "push_set", "push_phase",
                         bits["bubble"] \cup {"FIFO_READY"})
    BY <2>2 DEF TypeOK, StoreStatus, Overwrites
  <2> QED
    BY <1>7, <2>1, <2>2 DEF PushReady
<1>8. CASE PushUnlock("bubble")
  BY <1>8 DEF TypeOK, PushUnlock, UnlockAndReturn, history
<1> QED
  BY <1>1, <1>2, <1>3, <1>4, <1>5, <1>6, <1>7, <1>8 DEF Push

\* As long as the two threads have never been inside fifoLock together, the
\* FIFO READY bit the guest polls says whether there is a byte whenever neither
\* is inside (i7220.c:354-355, 379).
THEOREM ReadyCorrect ==
  ASSUME Reading
  PROVE  Spec => []ReadyIsExact
<1>1. Init => ReadyFacts
  BY DEF Init, FifoInit, ReadyFacts, Exclusion, InCritical, PopUnsettled,
         PopEmptied, PushUnsettled, Threads
<1>2. TypeOK /\ ReadInv /\ ReadyFacts /\ [Next]_vars => ReadyFacts'
  <2> SUFFICES ASSUME TypeOK, ReadInv, ReadyFacts, [Next]_vars
               PROVE  ReadyFacts'
    OBVIOUS
  <2> USE DEF ReadyFacts, Exclusion, InCritical, PopUnsettled, PopEmptied,
              PushUnsettled
  <2>1. CASE PopCall("cpu")
    BY <2>1 DEF TypeOK, PopCall, Branch, Goto, ring, locals, history, Threads
  <2>2. CASE \E b \in Bytes : PushCall("bubble", b)
    BY <2>2 DEF TypeOK, PushCall, Goto, ring, history, Threads
  <2>3. CASE Next
    BY <2>1, <2>2, <2>3, ReadMoves, PopKeepsReady, PushKeepsReady, Reading
    DEF ReadInv
  <2>4. CASE UNCHANGED vars
    BY <2>4 DEF vars, ring, locals, history
  <2> QED
    BY <2>3, <2>4
<1>3. TypeOK /\ ReadInv /\ ReadyFacts => ReadyIsExact
  BY CountRange
  DEF TypeOK, ReadyFacts, ReadyIsExact, InCritical, PopUnsettled, PopEmptied,
      PushUnsettled, Threads
<1> QED
  BY <1>1, <1>2, <1>3, ReadInvariant, PTL DEF Spec

-----------------------------------------------------------------------------
(* The ring read as a sequence *)

\* The k-th byte of the queue is in the array, and never in the slot the next
\* fifo_push will fill (i7220.c:376).
LEMMA SlotInside ==
  ASSUME TypeOK, NEW k \in 1 .. Count
  PROVE  Slot(k) \in Slots /\ Slot(k) # fifo_head
BY SizeAssumption DEF TypeOK, Slot, Count, Slots

\* The queue is a sequence of bytes as long as Count says.
LEMMA ContentsIsSeq ==
  TypeOK => Contents \in Seq(Bytes) /\ Len(Contents) = Count
<1> SUFFICES ASSUME TypeOK
             PROVE  Contents \in Seq(Bytes) /\ Len(Contents) = Count
  OBVIOUS
<1>1. Count \in Nat
  BY CountRange, SizeAssumption DEF TypeOK
<1>2. Contents \in [1 .. Count -> Bytes]
  BY SlotInside DEF TypeOK, Contents
<1> QED
  BY <1>1, <1>2, SeqDef

\* So it is after a step.
LEMMA ContentsIsSeqNext ==
  TypeOK' => Contents' \in Seq(Bytes) /\ Len(Contents') = Count'
<1>1. (TypeOK => Contents \in Seq(Bytes) /\ Len(Contents) = Count)'
  BY ContentsIsSeq, PTL
<1> QED
  BY <1>1

\* Two queues of one length with the same bytes are the same.
LEMMA SameContents ==
  ASSUME TypeOK, TypeOK', Count' = Count,
         \A k \in 1 .. Count : fifoArray'[Slot(k)'] = fifoArray[Slot(k)]
  PROVE  Contents' = Contents
BY DEF Contents

\* Nothing but a step of the ring changes the queue.
LEMMA RingSame ==
  ASSUME UNCHANGED ring
  PROVE  Contents' = Contents
BY DEF ring, Contents, Count, Slot

\* Storing in the slot at fifo_head does not change it either (i7220.c:376).
LEMMA PutSame ==
  ASSUME TypeOK, TypeOK', PushPut("bubble")
  PROVE  Contents' = Contents
<1>1. fifo_head' = fifo_head /\ fifo_tail' = fifo_tail /\ Count' = Count
  BY DEF PushPut, Count
<1>2. ASSUME NEW k \in 1 .. Count
      PROVE  fifoArray'[Slot(k)'] = fifoArray[Slot(k)]
  <2>1. Slot(k)' = Slot(k)
    BY <1>1 DEF Slot
  <2> QED
    BY <2>1, SlotInside DEF TypeOK, PushPut
<1> QED
  BY <1>1, <1>2, SameContents

\* Moving fifo_head on appends the byte stored there (i7220.c:377).
LEMMA HeadAppends ==
  ASSUME TypeOK, TypeOK', ReadInv, PushHead("bubble")
  PROVE  Contents' = Append(Contents, val["bubble"])
<1>1. /\ fifo_tail' = fifo_tail /\ fifoArray' = fifoArray
      /\ fifo_head' = Inc(fifo_head) /\ Inc(fifo_head) # fifo_tail
      /\ fifoArray[fifo_head] = val["bubble"]
  BY DEF PushHead, Goto, ReadInv, PushFacts
<1>2. Count' = Count + 1
  BY <1>1, CountPushed DEF TypeOK
<1>3. Slot(Count + 1) = fifo_head
  BY SizeAssumption DEF TypeOK, Slot, Count, Slots
<1>4. \A k \in Nat : Slot(k)' = Slot(k)
  BY <1>1 DEF Slot
<1>5. Count \in Nat
  BY CountRange, SizeAssumption DEF TypeOK
<1>6. val["bubble"] \in Bytes
  BY DEF TypeOK, Threads
<1>7. /\ Append(Contents, val["bubble"]) \in Seq(Bytes)
      /\ Len(Append(Contents, val["bubble"])) = Count + 1
      /\ \A i \in 1 .. Count + 1 :
           Append(Contents, val["bubble"])[i] =
             IF i <= Count THEN Contents[i] ELSE val["bubble"]
  BY <1>5, <1>6, ContentsIsSeq
<1>8. Contents' \in Seq(Bytes) /\ Len(Contents') = Count + 1
  BY <1>2, ContentsIsSeqNext
<1>9. ASSUME NEW i \in 1 .. Count + 1
      PROVE  Contents'[i] = Append(Contents, val["bubble"])[i]
  <2>1. Contents'[i] = fifoArray[Slot(i)]
    BY <1>1, <1>2, <1>4, <1>5 DEF Contents
  <2>2. CASE i <= Count
    BY <2>1, <2>2, <1>5, <1>7 DEF Contents
  <2>3. CASE i = Count + 1
    BY <2>1, <2>3, <1>1, <1>3, <1>5, <1>7
  <2>4. i <= Count \/ i = Count + 1
    BY <1>5
  <2> QED
    BY <2>2, <2>3, <2>4
<1> QED
  BY <1>7, <1>8, <1>9, SeqEqual

\* Moving fifo_tail on takes the first byte off (i7220.c:348-349).
LEMMA TailTakes ==
  ASSUME TypeOK, TypeOK', ReadInv, PopTail("cpu")
  PROVE  /\ Contents # <<>>
         /\ val["cpu"] = Head(Contents)
         /\ Contents' = Tail(Contents)
<1>1. /\ fifo_head' = fifo_head /\ fifoArray' = fifoArray
      /\ fifo_tail' = Inc(fifo_tail) /\ fifo_head # fifo_tail
      /\ val["cpu"] = fifoArray[fifo_tail]
  BY DEF PopTail, Goto, ReadInv, PopFacts
<1>2. Count' = Count - 1 /\ Count \in Nat \ {0}
  BY <1>1, CountPopped, CountRange, SizeAssumption DEF TypeOK
<1>3. Slot(1) = fifo_tail
  BY SizeAssumption DEF TypeOK, Slot, Slots
<1>4. ASSUME NEW k \in 1 .. Count - 1
      PROVE  Slot(k)' = Slot(k + 1)
  <2>1. fifo_tail' = IF fifo_tail + 1 = BUBBLEFIFOSIZE THEN 0 ELSE fifo_tail + 1
    BY <1>1, IncNext DEF TypeOK
  <2> QED
    BY <1>2, <2>1, CountRange, SizeAssumption DEF TypeOK, Slot, Slots
<1>5. Contents # <<>> /\ Contents \in Seq(Bytes) /\ Len(Contents) = Count
  BY <1>2, ContentsIsSeq
<1>6. Head(Contents) = val["cpu"]
  BY <1>1, <1>2, <1>3, <1>5 DEF Contents
<1>7. /\ Tail(Contents) \in Seq(Bytes) /\ Len(Tail(Contents)) = Count - 1
      /\ \A i \in 1 .. Count - 1 : Tail(Contents)[i] = Contents[i + 1]
  BY <1>5, HeadTailProperties
<1>8. Contents' \in Seq(Bytes) /\ Len(Contents') = Count - 1
  BY <1>2, ContentsIsSeqNext
<1>9. ASSUME NEW i \in 1 .. Count - 1
      PROVE  Contents'[i] = Tail(Contents)[i]
  BY <1>1, <1>2, <1>4, <1>7 DEF Contents
<1> QED
  BY <1>5, <1>6, <1>7, <1>8, <1>9, SeqEqual

-----------------------------------------------------------------------------
(* Every access is a step of LossyFifo or changes nothing it shows *)

AbstractStep == [Abstract!Next]_(Abstract!fifoVars)

\* An access that leaves queue and hands alone is a stuttering step, or the loss
\* of an update of fifo_size.
LEMMA Stutters ==
  ASSUME Contents' = Contents, Offered' = Offered, Taken' = Taken,
         Damaged => Damaged'
  PROVE  AbstractStep
<1>1. CASE Damaged' = Damaged
  BY <1>1 DEF AbstractStep, Abstract!fifoVars
<1>2. CASE Damaged' # Damaged
  <2>1. Damaged' = TRUE
    BY <1>2 DEF Damaged
  <2> QED
    BY <2>1 DEF AbstractStep, Abstract!Next, Abstract!Damage
<1> QED
  BY <1>1, <1>2

\* fifo_pop: the byte is taken at the store of fifo_tail and returned with the
\* lock; the other accesses stutter.
LEMMA PopRefines ==
  ASSUME TypeOK, TypeOK', ReadInv, Pop("cpu"), ~PopBad("cpu")
  PROVE  AbstractStep
<1> USE DEF Offered, Taken, Damaged, Goto, Threads
<1>1. CASE PopTail("cpu")
  <2>1. Offered' = Offered /\ Damaged' = Damaged
    BY <1>1 DEF TypeOK, PopTail, locals, history
  <2>2. Taken = None /\ Taken' = val["cpu"]
    BY <1>1 DEF TypeOK, PopTail, locals
  <2> QED
    BY <1>1, <2>1, <2>2, TailTakes
    DEF AbstractStep, Abstract!Next, Abstract!Take
<1>2. CASE PopUnlock("cpu")
  <2>1. Offered' = Offered /\ Damaged' = Damaged /\ Contents' = Contents
    BY <1>2, RingSame DEF TypeOK, PopUnlock, UnlockAndReturn, history
  <2>2. Taken # None /\ Taken' = None
    BY <1>2, BytesAssumption DEF TypeOK, PopUnlock, UnlockAndReturn
  <2> QED
    BY <2>1, <2>2 DEF AbstractStep, Abstract!Next, Abstract!Deliver
<1>3. CASE \/ PopWait("cpu") \/ PopSpin("cpu") \/ PopCheck("cpu")
           \/ PopPhase("cpu") \/ PopEmpty("cpu")
  BY <1>3, RingSame, Stutters
  DEF TypeOK, PopWait, PopSpin, PopCheck, PopPhase, PopEmpty, Branch, locals,
      history
<1>4. CASE PopLock("cpu")
  BY <1>4, RingSame, Stutters DEF TypeOK, PopLock, Lock, TornIf, locals
<1>5. CASE PopGet("cpu") \/ PopNext("cpu")
  BY <1>5, RingSame, Stutters DEF TypeOK, PopGet, PopNext, history
<1>6. CASE PopDrq("cpu")
  BY <1>6, RingSame, Stutters DEF TypeOK, PopDrq, update_drq, locals, history
<1>7. CASE PopSize("cpu")
  BY <1>7, RingSame, Stutters
  DEF TypeOK, PopSize, LoadSize, StoreSize, Overwrites, history
<1>8. CASE PopReady("cpu")
  BY <1>8, RingSame, Stutters
  DEF TypeOK, PopReady, LoadStatus, StoreStatus, Overwrites, history
<1> QED
  BY <1>1, <1>2, <1>3, <1>4, <1>5, <1>6, <1>7, <1>8 DEF Pop

\* A byte for which there is no room is dropped only when the fill count, which
\* let fifo_push in, is damaged (i7220.c:363, 375).
LEMMA DropsDamaged ==
  ASSUME TypeOK, ReadInv, pc["bubble"] = "push_room", idx["bubble"] = fifo_tail
  PROVE  Damaged
<1>1. Count = BUBBLEFIFOSIZE - 1
  BY CountRange DEF TypeOK, ReadInv, PushFacts
<1> QED
  BY <1>1, SizeAssumption DEF TypeOK, ReadInv, RoomFacts, SizeFacts

\* fifo_push: the byte is offered by the call and put at the store of fifo_head.
LEMMA PushRefines ==
  ASSUME TypeOK, TypeOK', ReadInv, Push("bubble")
  PROVE  AbstractStep
<1> USE DEF Offered, Taken, Damaged, Goto, Threads
<1>1. CASE PushHead("bubble")
  <2>1. Taken' = Taken /\ Damaged' = Damaged
    BY <1>1 DEF TypeOK, PushHead, locals, history
  <2>2. Offered = val["bubble"] /\ Offered # None /\ Offered' = None
    BY <1>1, BytesAssumption DEF TypeOK, PushHead, locals
  <2>3. Len(Contents) < BUBBLEFIFOSIZE - 1
    BY <1>1, ContentsIsSeq, CountRange, SizeAssumption
    DEF TypeOK, PushHead, ReadInv, PushFacts
  <2> QED
    BY <1>1, <2>1, <2>2, <2>3, HeadAppends
    DEF AbstractStep, Abstract!Next, Abstract!Put
<1>2. CASE PushRoom("bubble")
  <2>1. Contents' = Contents /\ Taken' = Taken /\ Damaged' = Damaged
    BY <1>2, RingSame DEF TypeOK, PushRoom, Branch, locals, history
  <2>2. CASE idx["bubble"] # fifo_tail
    BY <1>2, <2>1, <2>2, Stutters DEF TypeOK, PushRoom, Branch, locals
  <2>3. CASE idx["bubble"] = fifo_tail
    <3>1. Offered # None /\ Offered' = None
      BY <1>2, <2>3, BytesAssumption DEF TypeOK, PushRoom, Branch, locals
    <3>2. Damaged
      BY <1>2, <2>3, DropsDamaged DEF PushRoom, Branch
    <3> QED
      BY <2>1, <3>1, <3>2 DEF AbstractStep, Abstract!Next, Abstract!Lose
  <2> QED
    BY <2>2, <2>3
<1>3. CASE PushPut("bubble")
  BY <1>3, PutSame, Stutters DEF TypeOK, PushPut, locals, history
<1>4. CASE PushWait("bubble") \/ PushSpin("bubble") \/ PushPhase("bubble")
  BY <1>4, RingSame, Stutters
  DEF TypeOK, PushWait, PushSpin, PushPhase, Branch, locals, history
<1>5. CASE PushLock("bubble")
  BY <1>5, RingSame, Stutters DEF TypeOK, PushLock, Lock, TornIf, locals
<1>6. CASE PushNext("bubble")
  BY <1>6, RingSame, Stutters DEF TypeOK, PushNext, history
<1>7. CASE PushSize("bubble")
  BY <1>7, RingSame, Stutters
  DEF TypeOK, PushSize, LoadSize, StoreSize, Overwrites, history
<1>8. CASE PushReady("bubble")
  BY <1>8, RingSame, Stutters
  DEF TypeOK, PushReady, LoadStatus, StoreStatus, Overwrites, history
<1>9. CASE PushDrq("bubble")
  BY <1>9, RingSame, Stutters DEF TypeOK, PushDrq, update_drq, locals, history
<1>10. CASE PushUnlock("bubble")
  BY <1>10, RingSame, Stutters DEF TypeOK, PushUnlock, UnlockAndReturn, history
<1> QED
  BY <1>1, <1>2, <1>3, <1>4, <1>5, <1>6, <1>7, <1>8, <1>9, <1>10 DEF Push

\* While bubble_thread pushes and the guest pops, whatever both do to fifoLock
\* and fifo_size, the FIFO implements LossyFifo: bytes come out in the order
\* they went in, unchanged and once each, and one is dropped only after an
\* update of fifo_size was lost (i7220.c:329-387).
THEOREM FifoImplements ==
  ASSUME Reading
  PROVE  Spec => FifoOrder
<1>1. Init => Abstract!Init
  <2> SUFFICES ASSUME Init
               PROVE  Abstract!Init
    OBVIOUS
  <2>1. Contents = <<>>
    BY DEF Init, FifoInit, Contents, Count
  <2> QED
    BY <2>1
    DEF Init, FifoInit, Abstract!Init, Offered, Taken, Damaged, Threads
<1>2. TypeOK /\ ReadInv /\ TypeOK' /\ [Next]_vars => AbstractStep
  <2> SUFFICES ASSUME TypeOK, ReadInv, TypeOK', [Next]_vars
               PROVE  AbstractStep
    OBVIOUS
  <2>1. CASE PopCall("cpu")
    BY <2>1, RingSame, Stutters
    DEF TypeOK, PopCall, Branch, Goto, Offered, Taken, Damaged, locals, history,
        Threads
  <2>2. CASE \E b \in Bytes : PushCall("bubble", b)
    <3>1. PICK b \in Bytes : PushCall("bubble", b)
      BY <2>2
    <3>2. Contents' = Contents /\ Taken' = Taken /\ Damaged' = Damaged
      BY <3>1, RingSame
      DEF TypeOK, PushCall, Goto, Taken, Damaged, history, Threads
    <3>3. Offered = None /\ Offered' = b
      BY <3>1 DEF TypeOK, PushCall, Goto, Offered, Threads
    <3> QED
      BY <3>2, <3>3 DEF AbstractStep, Abstract!Next, Abstract!Offer
  <2>3. CASE Next
    BY <2>1, <2>2, <2>3, ReadMoves, PopRefines, PushRefines, Reading DEF ReadInv
  <2>4. CASE UNCHANGED vars
    BY <2>4, RingSame, Stutters
    DEF vars, locals, history, Offered, Taken, Damaged
  <2> QED
    BY <2>3, <2>4
<1> QED
  BY <1>1, <1>2, ReadInvariant, PTL
  DEF Spec, FifoOrder, Abstract!Spec, AbstractStep

-----------------------------------------------------------------------------
(* The controller *)

\* The guest polls the status register before it programs the controller, and
\* the history records a lost update of regStatus as well as of fifo_size.
Driving == Driver /\ "regStatus" \in Recorded

-----------------------------------------------------------------------------
(* Types *)

CommandLabels == {"cmd_busy", "cmd_setBusy", "cmd_complete", "cmd_clearComplete",
                  "cmd_phase"}
EndLabels     == {"end_outcome", "end_setOutcome", "end_busy", "end_clearBusy"}
Executing     == {"switch", "page", "hung", "caller"} \cup PushLabels \cup ClearLabels
                   \cup EndLabels
Quiet         == {"loop", "end_phase", "last"}
CpuLabels     == {"caller"} \cup PopLabels \cup PushLabels \cup CommandLabels
BubbleLabels  == {"start", "exec"} \cup Quiet \cup Executing

FifoTypes ==
  /\ fifoArray \in [Slots -> Bytes]
  /\ fifo_head \in Slots /\ fifo_tail \in Slots
  /\ fifo_size \in -(INT8_MAX + 1) .. INT8_MAX
  /\ fifoLock \in BOOLEAN
  /\ regStatus \subseteq StatusBits
  /\ irqRaised \in BOOLEAN
  /\ val \in [Threads -> Bytes]
  /\ idx \in [Threads -> Slots]
  /\ acc \in [Threads -> -(INT8_MAX + 1) .. INT8_MAX]
  /\ bits \in [Threads -> SUBSET StatusBits]
  /\ clobbered \subseteq Recorded
  /\ overlapped \in BOOLEAN

PcTypes ==
  /\ pc \in [Threads -> CpuLabels \cup BubbleLabels]
  /\ pc["cpu"] \in CpuLabels
  /\ pc["bubble"] \in BubbleLabels

ThreadTypes ==
  /\ mainExecPhase \in Phases /\ bubbleCommand \in Commands
  /\ regRAC \in 0 .. 15 /\ bubbleFile \in {"opened", "stray"}
  /\ regArray \in [Registers -> 0 .. 255]
  /\ lastCommand \in Commands /\ prev \in Commands /\ cmd \in Commands
  /\ regBubbleCounter \in Nat /\ regBubbleLimit \in Nat
  /\ filePage \in Nat /\ bufferPage \in Int
  /\ byteNo \in 0 .. PageBytes /\ moved \in Nat /\ asked \in Nat
  /\ sucess \in BOOLEAN /\ phaseLost \in BOOLEAN /\ failed \in BOOLEAN

\* Every variable of the controller keeps its type.
ControllerTypeOK == FifoTypes /\ PcTypes /\ ThreadTypes

-----------------------------------------------------------------------------
(* Who is where *)

\* No update of regStatus, fifo_size or mainExecPhase has been lost.
Intact == clobbered = {} /\ ~phaseLost

\* A command has been given, and has not ended.
Pending == mainExecPhase = "CMD" \/ pc["bubble"] \in Executing

\* What the thread does, it does for the command it took.
Doing ==
  /\ pc["bubble"] \in {"page"} \cup PushLabels => cmd = cmdReadBubbleData
  /\ pc["bubble"] \in ClearLabels => cmd \in ClearingCommands
  /\ pc["bubble"] = "caller" => cmd \in {cmdReadBubbleData} \cup ClearingCommands

\* mainExecPhase says where bubble_thread is, and BUSY where the command is.
Phased ==
  /\ pc["cpu"] \in CommandLabels => pc["bubble"] \in Quiet /\ mainExecPhase # "CMD"
  /\ mainExecPhase = "CMD" => pc["bubble"] \in {"start", "exec"} \cup Quiet
  /\ pc["bubble"] \in {"start", "exec"} => mainExecPhase = "CMD"
  /\ pc["bubble"] \in {"loop", "last"} => mainExecPhase # "EXEC"
  /\ "BUSY" \in regStatus <=>
       Pending \/ pc["cpu"] \in {"cmd_complete", "cmd_clearComplete", "cmd_phase"}

\* While a command is pending the guest does nothing but read the data of a Read,
\* and the command and the registers stay what they were when it was given.
Disciplined ==
  /\ pc["bubble"] \in {"exec"} \cup Executing => cmd = bubbleCommand
  /\ Pending /\ pc["cpu"] \in PopLabels => bubbleCommand = cmdReadBubbleData
  /\ Pending => pc["cpu"] \notin PushLabels
  /\ Pending \/ pc["cpu"] \in CommandLabels => asked = FirstPage

-----------------------------------------------------------------------------
(* What the status register says of the command *)

Reported ==
  /\ IF \/ mainExecPhase = "CMD"
        \/ pc["cpu"] = "cmd_phase"
        \/ pc["bubble"] \in Executing \ {"end_busy", "end_clearBusy"}
     THEN "OP_COMPLETE" \notin regStatus
     ELSE pc["bubble"] \in {"end_busy", "end_clearBusy"} \cup Quiet
            => ("OP_COMPLETE" \in regStatus <=> sucess)
  /\ IF pc["bubble"] \in {"end_outcome", "end_setOutcome"} /\ ~sucess
     THEN failed
     ELSE "OP_FAIL" \in regStatus <=> failed

Conducted == Phased /\ Disciplined /\ Reported

-----------------------------------------------------------------------------
(* The FIFO *)

\* One step after the other fifo_clear empties it.
Cleared ==
  pc["bubble"] \in ClearLabels \cup {"caller", "end_outcome"}
    /\ cmd \in ClearingCommands =>
    /\ pc["bubble"] # "clear_size" => fifo_size = 0
    /\ pc["bubble"] \notin {"clear_size", "clear_tail"} => fifo_tail = 0
    /\ pc["bubble"] \notin {"clear_size", "clear_tail", "clear_head"} => fifo_head = 0
    /\ pc["bubble"] \in {"clear_drq", "caller", "end_outcome"}
         => "FIFO_READY" \notin regStatus

\* fifo_pop has a byte to take.
Popping ==
  /\ pc["cpu"] \notin BadLabels
  /\ pc["cpu"] \in {"pop_spin", "pop_lock", "pop_check", "pop_get", "pop_next",
                    "pop_tail"} => fifo_head # fifo_tail
  /\ pc["cpu"] = "pop_tail" => idx["cpu"] = Inc(fifo_tail)

\* fifo_push of thread t was let in by a fill count that has not risen since,
\* and behind its test for room owns the slot at fifo_head.
PushingBy(t) ==
  /\ pc[t] \in {"push_spin", "push_lock", "push_next", "push_room"}
       => fifo_size < BUBBLEFIFOSIZE - 1
  /\ pc[t] \in {"push_room", "push_put", "push_head"} => idx[t] = Inc(fifo_head)
  /\ pc[t] \in {"push_put", "push_head"} => idx[t] # fifo_tail
Pushing == PushingBy("cpu") /\ PushingBy("bubble")

\* The fill count counts, give or take the call in progress; fifo_clear sets it
\* ahead of the indices.
CountPending(t) ==
  IF pc[t] \in {"pop_phase", "pop_drq", "pop_size", "pop_dec"} THEN 1
  ELSE IF pc[t] \in {"push_size", "push_inc"} THEN -1
  ELSE 0
Counted ==
  pc["bubble"] \notin {"clear_tail", "clear_head"} =>
    fifo_size = Count + CountPending("cpu") + CountPending("bubble")

FifoSound == Cleared /\ Popping /\ Pushing /\ Counted

-----------------------------------------------------------------------------
(* What a Read has read and moved *)

InRead == pc["bubble"] \in {"caller"} \cup PushLabels /\ cmd = cmdReadBubbleData

Positioned ==
  bubbleFile = "opened" /\ asked + regBubbleCounter < ImagePages =>
    /\ pc["bubble"] = "page" => filePage = asked + regBubbleCounter
    /\ InRead => /\ bufferPage = asked + regBubbleCounter
                 /\ filePage = asked + regBubbleCounter + 1

\* The page counter stands at its limit except in the loop of a Read.
Metered ==
  IF InRead THEN regBubbleCounter < regBubbleLimit
  ELSE IF pc["bubble"] \in {"page", "hung"} THEN regBubbleCounter <= regBubbleLimit
  ELSE regBubbleCounter = regBubbleLimit

BeforeHead == {"push_wait", "push_spin", "push_lock", "push_next", "push_room",
               "push_put", "push_head"}

Moved ==
  /\ pc["bubble"] = "switch" => moved = 0
  /\ pc["bubble"] \in PushLabels => byteNo > 0
  /\ lastCommand = prev /\ (pc["bubble"] = "page" \/ InRead) =>
       IF prev = cmdReadBubbleData
       THEN regBubbleCounter = regBubbleLimit /\ moved = 0
       ELSE /\ regBubbleLimit = regBlockLenCount * regBlockLen_nfc
            /\ moved = PageBytes * regBubbleCounter
                         + (IF pc["bubble"] = "page" THEN 0
                            ELSE IF pc["bubble"] \in BeforeHead THEN byteNo - 1
                            ELSE byteNo)

ControllerInv ==
  /\ Doing /\ Metered
  /\ Intact => Conducted /\ FifoSound /\ Positioned /\ Moved

-----------------------------------------------------------------------------
(* Lemmas on the registers *)

\* What the registers say changes with the registers only.
LEMMA RegsSame ==
  ASSUME regArray' = regArray
  PROVE  /\ FirstPage' = FirstPage
         /\ regBlockLenCount' = regBlockLenCount
         /\ regBlockLen_nfc' = regBlockLen_nfc
         /\ ReadAllowed' = ReadAllowed
BY DEF FirstPage, regBlockLenCount, regBlockLen_nfc, ReadAllowed, regAddress_mbm,
       regAddress_addr, regAddress, regBlockLen

\* A product of naturals is one.
LEMMA ProductNat ==
  ASSUME NEW a \in Nat, NEW b \in Nat
  PROVE  a * b \in Nat
OBVIOUS

\* A product of three.
LEMMA ProductAssociates ==
  ASSUME NEW a \in Nat, NEW b \in Nat, NEW c \in Nat
  PROVE  a * (b * c) = a * b * c
OBVIOUS

\* The registers hold natural numbers (i7220.c:389-395).
LEMMA RegsTyped ==
  ASSUME ThreadTypes
  PROVE  /\ FirstPage \in Nat
         /\ regBlockLenCount \in Nat
         /\ regBlockLen_nfc \in Nat
<1>1. regBlockLen \in Nat /\ regAddress \in Nat
  <2>1. \A r \in 10 .. 15 : regArray[r] \in Nat
    BY DEF ThreadTypes, Registers
  <2>2. /\ regArray[regBlockLenMSB] \in Nat /\ regArray[regBlockLenLSB] \in Nat
        /\ regArray[regAddressMSB] \in Nat /\ regArray[regAddressLSB] \in Nat
    BY <2>1 DEF regBlockLenMSB, regBlockLenLSB, regAddressMSB, regAddressLSB
  <2> QED
    BY <2>2 DEF regBlockLen, regAddress
<1>2. /\ regBlockLenCount \in Nat /\ regBlockLen_nfc \in Nat
      /\ regAddress_mbm \in Nat /\ regAddress_addr \in Nat
  BY <1>1 DEF regBlockLenCount, regBlockLen_nfc, regAddress_mbm, regAddress_addr
<1>3. /\ regAddress_addr * regBlockLen_nfc \in Nat
      /\ regAddress_mbm * MbmPages \in Nat
  BY <1>2, ProductNat, ControllerAssumption
<1> QED
  BY <1>2, <1>3 DEF FirstPage

-----------------------------------------------------------------------------
(* The accesses of a FIFO function *)

FifoLabels == PopLabels \cup PushLabels \cup ClearLabels

\* Thread t is and stays in one FIFO function, or returns from it.
StaysIn(t, labels) == pc[t] \in labels /\ pc'[t] \in labels \cup {"caller"}

\* An access moves its thread inside its function or back to the caller, touches
\* neither mainExecPhase nor bubbleCommand, and forgets no lost update.
RunFrame(t) ==
  /\ pc' = [pc EXCEPT ![t] = pc'[t]]
  /\ StaysIn(t, PopLabels) \/ StaysIn(t, PushLabels) \/ StaysIn(t, ClearLabels)
  /\ UNCHANGED command
  /\ clobbered \subseteq clobbered'

\* An access of one thread to the FIFO has the frame of one (i7220.c:69-166).
LEMMA RunFramed ==
  ASSUME PcTypes, NEW t \in Threads, Run(t)
  PROVE  RunFrame(t)
<1> USE DEF PcTypes, RunFrame, StaysIn, Goto, Branch, Lock, TornIf, LoadStatus,
            StoreStatus, LoadSize, StoreSize, Overwrites, UnlockAndReturn,
            update_drq, history
<1>1. CASE Pop(t)
  BY <1>1 DEF PopLabels, Pop, PopWait, PopSpin, PopLock, PopCheck, PopBad, PopGet,
              PopNext, PopTail, PopPhase, PopDrq, PopSize, PopEmpty, PopReady,
              PopUnlock
<1>2. CASE Push(t)
  BY <1>2 DEF PushLabels, Push, PushWait, PushSpin, PushLock, PushNext, PushRoom,
              PushPut, PushHead, PushSize, PushReady, PushPhase, PushDrq, PushUnlock
<1>3. CASE Clear(t)
  BY <1>3 DEF ClearLabels, Clear, ClearSize, ClearTail, ClearHead, ClearReady, ClearDrq
<1> QED
  BY <1>1, <1>2, <1>3 DEF Run

-----------------------------------------------------------------------------
(* Type correctness *)

\* What the FIFO's types are about, left alone, keeps them.
LEMMA FifoTypesSame ==
  ASSUME FifoTypes, UNCHANGED <<ring, fifo_size, fifoLock, regStatus, irqRaised,
                                locals, history>>
  PROVE  FifoTypes'
BY DEF FifoTypes, ring, locals, history

\* A branch of a FIFO function changes no data.
LEMMA BranchKeepsTypes ==
  ASSUME FifoTypes, NEW t \in Threads, NEW from, NEW to, Branch(t, from, to)
  PROVE  FifoTypes'
BY FifoTypesSame DEF Branch

\* A load of regStatus keeps the types.
LEMMA LoadStatusKeepsTypes ==
  ASSUME FifoTypes, NEW t \in Threads, NEW from, NEW to, LoadStatus(t, from, to)
  PROVE  FifoTypes'
BY DEF FifoTypes, LoadStatus, ring, history

\* A store of status bits to regStatus keeps the types.
LEMMA StoreStatusKeepsTypes ==
  ASSUME FifoTypes, NEW t \in Threads, NEW from, NEW to,
         NEW S \in SUBSET StatusBits, StoreStatus(t, from, to, S)
  PROVE  FifoTypes'
BY DEF FifoTypes, StoreStatus, Overwrites, ring

\* A store to fifo_size, an int8_t, keeps the types whatever is stored.
LEMMA StoreSizeKeepsTypes ==
  ASSUME FifoTypes, NEW t \in Threads, NEW from, NEW to, NEW n \in Int,
         StoreSize(t, from, to, n)
  PROVE  FifoTypes'
<1>1. Int8(n) \in -(INT8_MAX + 1) .. INT8_MAX
  BY Int8Range
<1> QED
  BY <1>1, SizeAssumption DEF FifoTypes, StoreSize, Overwrites, ring

\* A load of fifo_size keeps the types.
LEMMA LoadSizeKeepsTypes ==
  ASSUME FifoTypes, NEW t \in Threads, NEW from, NEW to, LoadSize(t, from, to)
  PROVE  FifoTypes'
BY DEF FifoTypes, LoadSize, ring, history

\* Taking fifoLock keeps the types.
LEMMA LockKeepsTypes ==
  ASSUME FifoTypes, NEW t \in Threads, NEW from, NEW to, Lock(t, from, to)
  PROVE  FifoTypes'
<1>1. overlapped' \in BOOLEAN /\ clobbered' \subseteq Recorded
  BY DEF FifoTypes, Lock, TornIf
<1> QED
  BY <1>1 DEF FifoTypes, Lock, ring, locals

\* Releasing fifoLock and returning, with the locals reset, keeps the types.
LEMMA UnlockKeepsTypes ==
  ASSUME FifoTypes, NEW t \in Threads, NEW from, UnlockAndReturn(t, from)
  PROVE  FifoTypes'
<1>1. 0 \in Slots /\ 0 \in Bytes
  BY SizeAssumption, BytesAssumption DEF Slots
<1>2. val' \in [Threads -> Bytes] /\ idx' \in [Threads -> Slots]
  BY <1>1 DEF FifoTypes, UnlockAndReturn
<1> QED
  BY <1>2 DEF FifoTypes, UnlockAndReturn, ring, history

\* update_drq keeps the types.
LEMMA DrqKeepsTypes ==
  ASSUME FifoTypes, NEW t \in Threads, NEW from, NEW to, update_drq(t, from, to)
  PROVE  FifoTypes'
<1>1. irqRaised' \in BOOLEAN
  BY DEF FifoTypes, update_drq, RaisesIrq
<1> QED
  BY <1>1 DEF FifoTypes, update_drq, ring, locals, history

\* Every access of a FIFO function keeps the types.
LEMMA RunKeepsTypes ==
  ASSUME FifoTypes, NEW t \in Threads, Run(t)
  PROVE  FifoTypes'
<1>1. bits[t] \ {"FIFO_READY"} \in SUBSET StatusBits
      /\ bits[t] \cup {"FIFO_READY"} \in SUBSET StatusBits
  BY DEF FifoTypes, StatusBits
<1>2. acc[t] - 1 \in Int /\ acc[t] + 1 \in Int
  BY SizeAssumption DEF FifoTypes
<1>3. Inc(fifo_tail) \in Slots /\ Inc(fifo_head) \in Slots /\ 0 \in Slots
  BY IncNext, SizeAssumption DEF FifoTypes, Slots
<1>4. CASE Pop(t)
  <2>1. CASE PopWait(t) \/ PopSpin(t) \/ PopCheck(t) \/ PopPhase(t) \/ PopEmpty(t)
    BY <2>1, BranchKeepsTypes DEF PopWait, PopSpin, PopCheck, PopPhase, PopEmpty
  <2>2. CASE PopLock(t)
    BY <2>2, LockKeepsTypes DEF PopLock
  <2>3. CASE PopBad(t) \/ PopReady(t) \/ PopUnlock(t)
    BY <1>1, <2>3, LoadStatusKeepsTypes, StoreStatusKeepsTypes, UnlockKeepsTypes
    DEF PopBad, PopReady, PopUnlock
  <2>4. CASE PopDrq(t)
    BY <2>4, DrqKeepsTypes DEF PopDrq
  <2>5. CASE PopSize(t)
    BY <1>2, <2>5, LoadSizeKeepsTypes, StoreSizeKeepsTypes DEF PopSize
  <2>6. CASE PopGet(t) \/ PopNext(t) \/ PopTail(t)
    BY <1>3, <2>6 DEF FifoTypes, PopGet, PopNext, PopTail, ring, history, locals
  <2> QED
    BY <1>4, <2>1, <2>2, <2>3, <2>4, <2>5, <2>6 DEF Pop
<1>5. CASE Push(t)
  <2>1. CASE PushWait(t) \/ PushSpin(t) \/ PushRoom(t) \/ PushPhase(t)
    BY <2>1, BranchKeepsTypes DEF PushWait, PushSpin, PushRoom, PushPhase
  <2>2. CASE PushLock(t)
    BY <2>2, LockKeepsTypes DEF PushLock
  <2>3. CASE PushReady(t) \/ PushUnlock(t)
    BY <1>1, <2>3, LoadStatusKeepsTypes, StoreStatusKeepsTypes, UnlockKeepsTypes
    DEF PushReady, PushUnlock
  <2>4. CASE PushDrq(t)
    BY <2>4, DrqKeepsTypes DEF PushDrq
  <2>5. CASE PushSize(t)
    BY <1>2, <2>5, LoadSizeKeepsTypes, StoreSizeKeepsTypes DEF PushSize
  <2>6. CASE PushNext(t) \/ PushPut(t) \/ PushHead(t)
    BY <1>3, <2>6 DEF FifoTypes, PushNext, PushPut, PushHead, ring, history, locals
  <2> QED
    BY <1>5, <2>1, <2>2, <2>3, <2>4, <2>5, <2>6 DEF Push
<1>6. CASE Clear(t)
  <2>1. CASE ClearReady(t)
    BY <1>1, <2>1, LoadStatusKeepsTypes, StoreStatusKeepsTypes DEF ClearReady
  <2>2. CASE ClearDrq(t)
    BY <2>2, DrqKeepsTypes DEF ClearDrq
  <2>3. CASE ClearSize(t) \/ ClearTail(t) \/ ClearHead(t)
    BY <1>3, <2>3, SizeAssumption
    DEF FifoTypes, ClearSize, ClearTail, ClearHead, ring, history, locals
  <2> QED
    BY <1>6, <2>1, <2>2, <2>3 DEF Clear
<1> QED
  BY <1>4, <1>5, <1>6 DEF Run

\* A step of the guest keeps the types.
LEMMA GuestKeepsTypes ==
  ASSUME ControllerTypeOK, Guest
  PROVE  ControllerTypeOK'
<1> USE DEF ControllerTypeOK, Goto, CpuLabels, Threads
<1>1. CASE \/ SelectRegister \/ WriteRegister \/ WriteOnAddress \/ WriteOnFile
           \/ ReadRegister \/ ReadQuietly
  <2>1. UNCHANGED <<vars, thread, ghosts>>
    BY <1>1
    DEF SelectRegister, WriteRegister, WriteOnAddress, WriteOnFile, ReadRegister,
        ReadQuietly, ctlVars
  <2>2. regRAC' \in 0 .. 15
    <3>1. \A r \in Nat : (r + 1) % 16 \in 0 .. 15
      OBVIOUS
    <3>2. CASE SelectRegister
      BY <3>2, ControllerAssumption DEF SelectRegister
    <3>3. CASE WriteRegister \/ ReadRegister
      BY <3>1, <3>3 DEF ThreadTypes, WriteRegister, ReadRegister
    <3>4. CASE WriteOnAddress
      <4>1. PICK v \in WriteValues[9] : regRAC' = (v + 1) % 16
        BY <3>4 DEF WriteOnAddress, OnAddress
      <4>2. v \in Nat
        BY <4>1, ControllerAssumption
      <4> QED
        BY <3>1, <4>1, <4>2
    <3>5. CASE WriteOnFile
      BY <3>5 DEF WriteOnFile, OnFile
    <3>6. CASE ReadQuietly
      BY <3>6 DEF ThreadTypes, ReadQuietly, ctlVars, regs
    <3> QED
      BY <1>1, <3>2, <3>3, <3>4, <3>5, <3>6
  <2>3. regArray' \in [Registers -> 0 .. 255]
    <3>1. CASE WriteRegister
      <4>1. regRAC \in Registers /\ regRAC \in 1 .. 15
        BY <3>1 DEF WriteRegister, Registers
      <4>2. PICK v \in WriteValues[regRAC] :
              regArray' = [regArray EXCEPT ![regRAC] = v]
        BY <3>1 DEF WriteRegister
      <4>3. v \in 0 .. 255
        BY <4>1, <4>2, ControllerAssumption
      <4> QED
        BY <4>1, <4>2, <4>3 DEF ThreadTypes
    <3>2. CASE ~WriteRegister
      BY <1>1, <3>2
      DEF ThreadTypes, SelectRegister, WriteOnAddress, WriteOnFile, ReadRegister,
          ReadQuietly, ctlVars, regs
    <3> QED
      BY <3>1, <3>2
  <2>5. bubbleFile' \in {"opened", "stray"}
    BY <1>1
    DEF ThreadTypes, SelectRegister, WriteRegister, WriteOnAddress, WriteOnFile,
        ReadRegister, ReadQuietly, ctlVars, regs
  <2>4. FifoTypes'
    BY <2>1, FifoTypesSame DEF vars
  <2>6. PcTypes' /\ ThreadTypes'
    BY <2>1, <2>2, <2>3, <2>5
    DEF PcTypes, ThreadTypes, vars, command, thread, counters, file, ghosts
  <2> QED
    BY <2>4, <2>6
<1>2. CASE ReadFifo
  BY <1>2, BranchKeepsTypes
  DEF ReadFifo, PopCall, Branch, PcTypes, ThreadTypes, PopLabels, command, regs,
      thread, counters, file, ghosts
<1>3. CASE WriteFifo
  <2>1. PICK b \in Bytes : PushCall("cpu", b)
    BY <1>3 DEF WriteFifo
  <2>2. FifoTypes'
    BY <2>1 DEF FifoTypes, PushCall, ring, history
  <2>3. PcTypes' /\ ThreadTypes'
    BY <1>3, <2>1
    DEF WriteFifo, PushCall, PcTypes, ThreadTypes, PushLabels, command, regs,
        thread, counters, file, ghosts
  <2> QED
    BY <2>2, <2>3
<1>4. CASE CpuFifo
  <2>1. RunFrame("cpu") /\ FifoTypes'
    BY <1>4, RunFramed, RunKeepsTypes DEF CpuFifo
  <2>2. pc["cpu"] \notin ClearLabels
    BY DEF PcTypes, ClearLabels, PopLabels, PushLabels, CommandLabels
  <2> QED
    BY <1>4, <2>1, <2>2
    DEF CpuFifo, RunFrame, StaysIn, PcTypes, ThreadTypes, command, regs, thread,
        counters, file, ghosts
<1>5. CASE WriteCommand
  <2>1. FifoTypes'
    BY <1>5, FifoTypesSame DEF WriteCommand
  <2> QED
    BY <1>5, <2>1, RegsTyped, ControllerAssumption
    DEF WriteCommand, PcTypes, ThreadTypes, CommandLabels, regs, thread, counters,
        file
<1>6. CASE SetBusy
  <2>1. /\ bits["cpu"] \cup {"BUSY"} \in SUBSET StatusBits
        /\ bits["cpu"] \ {"OP_COMPLETE"} \in SUBSET StatusBits
    BY DEF FifoTypes, StatusBits
  <2>2. FifoTypes'
    BY <1>6, <2>1, LoadStatusKeepsTypes, StoreStatusKeepsTypes DEF SetBusy
  <2>3. PcTypes' /\ ThreadTypes'
    BY <1>6
    DEF SetBusy, LoadStatus, StoreStatus, PcTypes, ThreadTypes, CommandLabels,
        command, regs, thread, counters, file, ghosts
  <2> QED
    BY <2>2, <2>3
<1>7. CASE SetPhase
  BY <1>7, FifoTypesSame
  DEF SetPhase, PcTypes, ThreadTypes, Phases, regs, thread, counters, file, ghosts
<1> QED
  BY <1>1, <1>2, <1>3, <1>4, <1>5, <1>6, <1>7 DEF Guest

\* A step of bubble_thread keeps the types.
LEMMA BubbleKeepsTypes ==
  ASSUME ControllerTypeOK, Bubble
  PROVE  ControllerTypeOK'
<1> USE DEF ControllerTypeOK, Goto, BubbleLabels, Executing, Quiet, EndLabels, Threads
<1>1. CASE SeeCommand \/ TakeCommand \/ EnterExec
  BY <1>1, FifoTypesSame
  DEF SeeCommand, TakeCommand, EnterExec, Branch, PcTypes, ThreadTypes, Phases,
      command, regs, thread, counters, file, ghosts
<1>2. ASSUME NEW ok \in BOOLEAN, NEW from, EndWith(ok, from)
      PROVE  ControllerTypeOK'
  BY <1>2, BranchKeepsTypes
  DEF EndWith, Branch, PcTypes, ThreadTypes, command, regs, counters, file
<1>3. CASE \/ SwitchInitialize \/ SwitchReadRefused \/ SwitchDefault
           \/ ClearReturns \/ ReadDone
  BY <1>2, <1>3
  DEF SwitchInitialize, SwitchReadRefused, SwitchDefault, ClearReturns, ReadDone
<1>4. CASE SwitchClear
  <2>1. clobbered' \subseteq Recorded
    BY <1>4 DEF SwitchClear, ClearFrom, TornIf, FifoTypes
  <2>2. FifoTypes'
    BY <1>4, <2>1 DEF SwitchClear, ClearFrom, FifoTypes, ring, locals
  <2> QED
    BY <1>4, <2>2
    DEF SwitchClear, ClearFrom, PcTypes, ThreadTypes, ClearLabels, command, regs,
        thread, counters, file, ghosts
<1>5. CASE SwitchRead
  <2>1. regBubbleCounter' \in Nat /\ regBubbleLimit' \in Nat
    BY <1>5, RegsTyped, ProductNat DEF SwitchRead, StartCounting, ThreadTypes, counters
  <2>2. filePage' \in Nat
    BY <1>5, <2>1, RegsTyped DEF SwitchRead, ThreadTypes
  <2>3. FifoTypes'
    BY <1>5, BranchKeepsTypes DEF SwitchRead
  <2>4. PcTypes'
    BY <1>5 DEF SwitchRead, Branch, PcTypes
  <2>5. ThreadTypes'
    BY <1>5, <2>1, <2>2 DEF SwitchRead, Branch, ThreadTypes, command, regs, ghosts
  <2> QED
    BY <2>3, <2>4, <2>5
<1>6. CASE ReadPage
  <2>1. filePage' \in Nat /\ bufferPage' \in Int
    BY <1>6 DEF ReadPage, sectorRead, ThreadTypes, file
  <2>2. FifoTypes'
    BY <1>6, BranchKeepsTypes DEF ReadPage
  <2>3. PcTypes'
    BY <1>6 DEF ReadPage, Branch, PcTypes
  <2>4. ThreadTypes'
    BY <1>6, <2>1, ControllerAssumption
    DEF ReadPage, Branch, ThreadTypes, command, regs, counters, ghosts
  <2> QED
    BY <2>2, <2>3, <2>4
<1>7. CASE PushByte
  <2>1. PICK b \in Bytes : PushCall("bubble", b)
    BY <1>7 DEF PushByte
  <2>2. FifoTypes'
    BY <2>1 DEF FifoTypes, PushCall, ring, history
  <2>3. PcTypes' /\ ThreadTypes'
    BY <1>7, <2>1, ControllerAssumption
    DEF PushByte, PushCall, PcTypes, ThreadTypes, PushLabels, command, regs,
        counters, file, ghosts
  <2> QED
    BY <2>2, <2>3
<1>8. CASE PageDone
  <2>1. FifoTypes'
    BY <1>8, BranchKeepsTypes DEF PageDone
  <2>2. PcTypes'
    BY <1>8 DEF PageDone, Branch, PcTypes
  <2>3. ThreadTypes'
    BY <1>8, ControllerAssumption
    DEF PageDone, Branch, ThreadTypes, command, regs, file, ghosts
  <2> QED
    BY <2>1, <2>2, <2>3
<1>9. CASE SetOutcome
  <2>1. /\ bits["bubble"] \cup {IF sucess THEN "OP_COMPLETE" ELSE "OP_FAIL"}
             \in SUBSET StatusBits
        /\ bits["bubble"] \ {"BUSY"} \in SUBSET StatusBits
    BY DEF FifoTypes, StatusBits
  <2>2. FifoTypes'
    BY <1>9, <2>1, LoadStatusKeepsTypes, StoreStatusKeepsTypes DEF SetOutcome
  <2>3. PcTypes' /\ ThreadTypes'
    BY <1>9
    DEF SetOutcome, LoadStatus, StoreStatus, PcTypes, ThreadTypes, command, regs,
        thread, counters, file, ghosts
  <2> QED
    BY <2>2, <2>3
<1>10. CASE EndPhase \/ RememberCommand
  <2>1. FifoTypes'
    BY <1>10, FifoTypesSame DEF EndPhase, RememberCommand, Branch
  <2>2. PcTypes'
    BY <1>10 DEF EndPhase, RememberCommand, Branch, PcTypes
  <2>3. ThreadTypes'
    <3>1. phaseLost' \in BOOLEAN
      BY <1>10 DEF EndPhase, RememberCommand, ThreadTypes
    <3>2. CASE EndPhase
      BY <3>1, <3>2
      DEF EndPhase, ThreadTypes, Phases, regs, thread, counters, file
    <3>3. CASE RememberCommand
      BY <3>3
      DEF RememberCommand, Branch, ThreadTypes, command, regs, counters, file
    <3> QED
      BY <1>10, <3>2, <3>3
  <2> QED
    BY <2>1, <2>2, <2>3
<1>11. CASE BubbleFifoStep
  <2>1. RunFrame("bubble") /\ FifoTypes'
    BY <1>11, RunFramed, RunKeepsTypes DEF BubbleFifoStep
  <2>2. pc["bubble"] \notin PopLabels
    BY DEF PcTypes, ClearLabels, PopLabels, PushLabels
  <2> QED
    BY <1>11, <2>1, <2>2
    DEF BubbleFifoStep, RunFrame, StaysIn, PcTypes, ThreadTypes, command, regs,
        thread, counters, file, ghosts
<1>12. CASE CallHangs
  BY <1>12, FifoTypesSame
  DEF CallHangs, Branch, PcTypes, ThreadTypes, command, regs, thread, counters, file,
      ghosts
<1> QED
  BY <1>1, <1>3, <1>4, <1>5, <1>6, <1>7, <1>8, <1>9, <1>10, <1>11, <1>12 DEF Bubble

\* Whatever the guest does, with or without the driver's protocol and whichever of
\* the sixteen register addresses it selects and writes to, the FIFO's indices stay
\* inside fifoArray, the register address keeps its four bits and the page counter
\* is a number.  A write to an address the chip does not have is a step of its own:
\* it stores in front of regArray (i7220.c:266, 282), and the theorem says what it
\* can reach there, regRAC and bubbleFile, and nothing of the ring or the registers.
THEOREM ControllerTypeCorrect == ControllerSpec => []ControllerTypeOK
<1>1. ControllerInit => ControllerTypeOK
  <2> SUFFICES ASSUME ControllerInit
               PROVE  ControllerTypeOK
    OBVIOUS
  <2>1. 0 \in Slots /\ 0 \in Bytes /\ 0 \in -(INT8_MAX + 1) .. INT8_MAX
    BY SizeAssumption, BytesAssumption DEF Slots
  <2>2. FifoTypes
    BY <2>1 DEF ControllerInit, FifoTypes
  <2>3. PcTypes
    BY DEF ControllerInit, PcTypes, Threads, CpuLabels, BubbleLabels, Quiet
  <2>4. ThreadTypes
    <3>1. regArray \in [Registers -> 0 .. 255] /\ byteNo \in 0 .. PageBytes
      BY ControllerAssumption DEF ControllerInit
    <3>2. /\ regBubbleCounter \in Nat /\ regBubbleLimit \in Nat
          /\ filePage \in Nat /\ bufferPage \in Int /\ moved \in Nat /\ asked \in Nat
      BY DEF ControllerInit
    <3>3. /\ lastCommand \in Commands /\ prev \in Commands /\ cmd \in Commands
          /\ bubbleCommand \in Commands
      BY DEF ControllerInit, Commands
    <3>4. regRAC \in 0 .. 15 /\ bubbleFile \in {"opened", "stray"}
      BY DEF ControllerInit
    <3> QED
      BY <3>1, <3>2, <3>3, <3>4 DEF ControllerInit, ThreadTypes, Phases
  <2> QED
    BY <2>2, <2>3, <2>4 DEF ControllerTypeOK
<1>2. ControllerTypeOK /\ [ControllerNext]_ctlVars => ControllerTypeOK'
  <2>1. CASE UNCHANGED ctlVars
    BY <2>1
    DEF ControllerTypeOK, FifoTypes, PcTypes, ThreadTypes, ctlVars, vars, ring, command,
        locals, history, regs, thread, counters, file, ghosts
  <2> QED
    BY <2>1, GuestKeepsTypes, BubbleKeepsTypes DEF ControllerNext
<1> QED
  BY <1>1, <1>2, PTL DEF ControllerSpec

-----------------------------------------------------------------------------
(* Lost updates *)

\* A store of regStatus that loses no update starts from what the word holds.
LEMMA StatusKept ==
  ASSUME Driving, NEW t \in Threads, NEW from, NEW to, NEW S,
         StoreStatus(t, from, to, S), clobbered' = {}
  PROVE  regStatus = bits[t] /\ clobbered = {}
BY DEF Driving, StoreStatus, Overwrites

\* So does one of fifo_size.
LEMMA SizeKept ==
  ASSUME NEW t \in Threads, NEW from, NEW to, NEW n,
         StoreSize(t, from, to, n), clobbered' = {}
  PROVE  fifo_size = acc[t] /\ clobbered = {}
BY RecordedAssumption DEF StoreSize, Overwrites

\* What has been lost stays lost.
LEMMA IntactBefore ==
  ASSUME ControllerTypeOK, ControllerNext, Intact'
  PROVE  Intact
<1> USE DEF Intact
<1>1. CASE CpuFifo \/ BubbleFifoStep
  <2>1. clobbered \subseteq clobbered'
    BY <1>1, RunFramed DEF ControllerTypeOK, CpuFifo, BubbleFifoStep, RunFrame, Threads
  <2> QED
    BY <1>1, <2>1 DEF CpuFifo, BubbleFifoStep, ghosts
<1>2. CASE \/ SelectRegister \/ WriteRegister \/ WriteOnAddress \/ WriteOnFile
           \/ ReadRegister \/ ReadQuietly
           \/ ReadFifo \/ WriteFifo
  BY <1>2
  DEF SelectRegister, WriteRegister, WriteOnAddress, WriteOnFile, ReadRegister,
      ReadQuietly, ctlVars, vars, ReadFifo, PopCall, WriteFifo, PushCall, Branch,
      history, ghosts
<1>3. CASE WriteCommand \/ SetBusy \/ SetPhase
  BY <1>3 DEF WriteCommand, SetBusy, SetPhase, LoadStatus, StoreStatus, Overwrites,
              history, ghosts
<1>4. CASE \/ SeeCommand \/ TakeCommand \/ EnterExec \/ SwitchRead \/ ReadPage
           \/ PushByte \/ PageDone \/ RememberCommand \/ CallHangs
  BY <1>4
  DEF SeeCommand, TakeCommand, EnterExec, SwitchRead, ReadPage, PushByte, CallHangs,
      PushCall, PageDone, RememberCommand, Branch, history, ghosts
<1>5. CASE SwitchClear
  BY <1>5 DEF SwitchClear, ClearFrom, TornIf, ghosts
<1>6. CASE EndPhase
  <2>1. phaseLost \in BOOLEAN
    BY DEF ControllerTypeOK, ThreadTypes
  <2> QED
    BY <1>6, <2>1 DEF EndPhase, history
<1>7. CASE \/ SwitchInitialize \/ SwitchReadRefused \/ SwitchDefault
           \/ ClearReturns \/ ReadDone \/ SetOutcome
  BY <1>7 DEF SwitchInitialize, SwitchReadRefused, SwitchDefault, ClearReturns,
              ReadDone, EndWith, Branch, SetOutcome, LoadStatus, StoreStatus,
              Overwrites, history, ghosts
<1> QED
  BY <1>1, <1>2, <1>3, <1>4, <1>5, <1>6, <1>7 DEF ControllerNext, Guest, Bubble

\* An access of a FIFO function that loses no update changes FIFO READY and no
\* other bit of regStatus.
LEMMA RunStatus ==
  ASSUME FifoTypes, Driving, NEW t \in Threads, Run(t), clobbered' = {}
  PROVE  \A b \in {"BUSY", "OP_COMPLETE", "OP_FAIL"} :
           b \in regStatus' <=> b \in regStatus
<1>1. CASE UNCHANGED regStatus
  BY <1>1
<1>2. ASSUME NEW from, NEW to, NEW S, StoreStatus(t, from, to, S),
             S \in {bits[t] \ {"FIFO_READY"}, bits[t] \cup {"FIFO_READY"}}
      PROVE  \A b \in {"BUSY", "OP_COMPLETE", "OP_FAIL"} :
               b \in regStatus' <=> b \in regStatus
  BY <1>2, StatusKept DEF StoreStatus
<1>3. CASE PopBad(t) \/ PopReady(t) \/ PushReady(t) \/ ClearReady(t)
  <2>1. CASE PopBad(t)
    BY <1>1, <1>2, <2>1 DEF PopBad, LoadStatus, UnlockAndReturn
  <2>2. CASE PopReady(t)
    BY <1>1, <1>2, <2>2 DEF PopReady, LoadStatus
  <2>3. CASE PushReady(t)
    BY <1>1, <1>2, <2>3 DEF PushReady, LoadStatus
  <2>4. CASE ClearReady(t)
    BY <1>1, <1>2, <2>4 DEF ClearReady, LoadStatus
  <2> QED
    BY <1>3, <2>1, <2>2, <2>3, <2>4
<1>4. CASE Pop(t) /\ ~PopBad(t) /\ ~PopReady(t)
  <2>1. UNCHANGED regStatus
    BY <1>4 DEF Pop, PopWait, PopSpin, PopLock, PopCheck, PopGet, PopNext, PopTail,
                PopPhase, PopDrq, PopSize, PopEmpty, PopUnlock, Branch, Lock,
                update_drq, LoadSize, StoreSize, UnlockAndReturn
  <2> QED
    BY <1>1, <2>1
<1>5. CASE Push(t) /\ ~PushReady(t)
  <2>1. UNCHANGED regStatus
    BY <1>5 DEF Push, PushWait, PushSpin, PushLock, PushNext, PushRoom, PushPut,
                PushHead, PushSize, PushPhase, PushDrq, PushUnlock, Branch, Lock,
                update_drq, LoadSize, StoreSize, UnlockAndReturn
  <2> QED
    BY <1>1, <2>1
<1>6. CASE Clear(t) /\ ~ClearReady(t)
  <2>1. UNCHANGED regStatus
    BY <1>6 DEF Clear, ClearSize, ClearTail, ClearHead, ClearDrq, update_drq
  <2> QED
    BY <1>1, <2>1
<1> QED
  BY <1>3, <1>4, <1>5, <1>6 DEF Run

-----------------------------------------------------------------------------
(* Who is where: what keeps the threads out of each other's way *)

\* While bubble_thread clears the FIFO, and until commandEnd has begun, the guest
\* is between two instructions.  The threads never push at the same time.
LEMMA Apart ==
  ASSUME PcTypes, Doing, Phased, Disciplined
  PROVE  /\ \/ pc["bubble"] \in ClearLabels
            \/ pc["bubble"] \in {"caller", "end_outcome"} /\ cmd \in ClearingCommands
           => pc["cpu"] = "caller"
         /\ pc["bubble"] \in PushLabels => pc["cpu"] \in PopLabels \cup {"caller"}
         /\ pc["cpu"] \in PushLabels => pc["bubble"] \in Quiet
         /\ pc["cpu"] \in PopLabels => pc["bubble"] \notin ClearLabels
<1>1. pc["bubble"] \in Executing => pc["cpu"] \notin CommandLabels
  BY DEF Phased, Executing, Quiet, PushLabels, ClearLabels, EndLabels
<1>2. pc["bubble"] \in Executing => pc["cpu"] \in {"caller"} \cup PopLabels
  BY <1>1 DEF PcTypes, CpuLabels, Disciplined, Pending
<1>3. pc["bubble"] \in Executing /\ pc["cpu"] \in PopLabels => cmd = cmdReadBubbleData
  BY DEF Disciplined, Pending
<1>4. cmdReadBubbleData \notin ClearingCommands
  BY DEF ClearingCommands, cmdReadBubbleData, cmdAbort, cmdResetFifo, cmdSoftReset
<1>5. pc["cpu"] \in PushLabels => pc["bubble"] \in Quiet
  BY DEF PcTypes, BubbleLabels, Phased, Disciplined, Pending
<1>6. ClearLabels \cup {"caller", "end_outcome"} \cup PushLabels \subseteq Executing
  BY DEF Executing, EndLabels
<1> QED
  BY <1>2, <1>3, <1>4, <1>5, <1>6 DEF Doing

\* The control points outside the accesses that read or write the ring or the
\* fill count: a step between two of them leaves the FIFO as it is.
Outside == CommandLabels \cup EndLabels \cup Quiet
             \cup {"caller", "start", "exec", "switch", "page", "hung",
                   "pop_wait", "push_wait", "clear_size"}

\* A step of thread t that stays outside keeps the ring and its count.
LEMMA OutsideKeeps ==
  ASSUME PcTypes, Popping, Pushing, Counted, NEW t \in Threads,
         pc[t] \in Outside, pc'[t] \in Outside,
         pc' = [pc EXCEPT ![t] = pc'[t]],
         UNCHANGED <<ring, fifo_size, idx>>
  PROVE  Popping' /\ Pushing' /\ Counted'
<1> USE DEF Outside, CommandLabels, EndLabels, Quiet, Threads, ring
<1>1. Popping'
  BY DEF PcTypes, Popping, BadLabels
<1>2. Pushing'
  BY DEF PcTypes, Pushing, PushingBy
<1>3. Count' = Count
  BY DEF Count
<1>4. Counted'
  BY <1>3 DEF PcTypes, Counted, CountPending
<1> QED
  BY <1>1, <1>2, <1>4

-----------------------------------------------------------------------------
(* The FIFO: each access that loses no update *)

\* fifo_pop, whatever bubble_thread pushes meanwhile (i7220.c:330-361).
LEMMA PopSound ==
  ASSUME FifoTypes, PcTypes, Popping, Pushing, Counted, Pop("cpu"),
         pc["bubble"] \notin ClearLabels, clobbered' = {}
  PROVE  Popping' /\ Pushing' /\ Counted'
<1> USE DEF FifoTypes, PcTypes, Popping, BadLabels, Pushing, PushingBy, Counted,
            CountPending, ClearLabels, Goto, ring, Threads
<1>1. CASE PopWait("cpu") \/ PopSpin("cpu")
  BY <1>1 DEF PopWait, PopSpin, Branch, locals, Count
<1>2. CASE PopLock("cpu")
  BY <1>2 DEF PopLock, Lock, locals, Count
<1>3. CASE PopCheck("cpu") \/ PopPhase("cpu") \/ PopEmpty("cpu")
  BY <1>3 DEF PopCheck, PopPhase, PopEmpty, Branch, locals, Count
<1>4. CASE PopBad("cpu")
  BY <1>4 DEF PopBad, LoadStatus, StoreStatus, UnlockAndReturn
<1>5. CASE PopGet("cpu") \/ PopNext("cpu")
  BY <1>5 DEF PopGet, PopNext, Count
<1>6. CASE PopTail("cpu")
  <2>1. Count' = Count - 1
    BY <1>6, CountPopped DEF PopTail
  <2>2. Inc(fifo_head) # Inc(fifo_tail)
    BY <1>6, IncInjective DEF PopTail
  <2> QED
    BY <1>6, <2>1, <2>2, CountRange DEF PopTail, locals
<1>7. CASE PopDrq("cpu")
  BY <1>7 DEF PopDrq, update_drq, locals, Count
<1>8. CASE PopSize("cpu")
  <2>1. CASE LoadSize("cpu", "pop_size", "pop_dec")
    BY <2>1 DEF LoadSize, Count
  <2>2. CASE StoreSize("cpu", "pop_dec", "pop_empty", acc["cpu"] - 1)
    <3>1. fifo_size - 1 \in -(INT8_MAX + 1) .. INT8_MAX
      BY <2>2, CountRange, SizeAssumption DEF StoreSize
    <3>2. fifo_size' = fifo_size - 1
      BY <2>2, <3>1, SizeKept, Int8Exact DEF StoreSize
    <3>3. Count' = Count
      BY <2>2 DEF StoreSize, Count
    <3> QED
      BY <2>2, <3>2, <3>3, CountRange, SizeAssumption DEF StoreSize
  <2> QED
    BY <1>8, <2>1, <2>2 DEF PopSize
<1>9. CASE PopReady("cpu")
  BY <1>9 DEF PopReady, LoadStatus, StoreStatus, Count
<1>10. CASE PopUnlock("cpu")
  BY <1>10 DEF PopUnlock, UnlockAndReturn, Count
<1> QED
  BY <1>1, <1>2, <1>3, <1>4, <1>5, <1>6, <1>7, <1>8, <1>9, <1>10 DEF Pop

\* fifo_push of one thread, while the other is not in one (i7220.c:364-386).
LEMMA PushSound ==
  ASSUME FifoTypes, PcTypes, Popping, Pushing, Counted, NEW t \in Threads, Push(t),
         \A u \in Threads \ {t} : pc[u] \notin PushLabels,
         pc["bubble"] \notin ClearLabels, clobbered' = {}
  PROVE  Popping' /\ Pushing' /\ Counted'
<1> USE DEF FifoTypes, PcTypes, Popping, BadLabels, Pushing, PushingBy, Counted,
            CountPending, ClearLabels, PushLabels, Goto, ring, Threads
<1>1. CASE PushWait(t)
  BY <1>1 DEF PushWait, Branch, locals, Count
<1>2. CASE PushSpin(t) \/ PushRoom(t) \/ PushPhase(t)
  BY <1>2 DEF PushSpin, PushRoom, PushPhase, Branch, locals, Count
<1>3. CASE PushLock(t)
  BY <1>3 DEF PushLock, Lock, locals, Count
<1>4. CASE PushNext(t)
  BY <1>4 DEF PushNext, Count
<1>5. CASE PushPut(t)
  BY <1>5 DEF PushPut, locals, Count
<1>6. CASE PushHead(t)
  <2>1. Count' = Count + 1
    BY <1>6, CountPushed DEF PushHead
  <2>2. fifo_head' # fifo_tail'
    BY <1>6 DEF PushHead
  <2> QED
    BY <1>6, <2>1, <2>2, CountRange DEF PushHead, locals
<1>7. CASE PushDrq(t)
  BY <1>7 DEF PushDrq, update_drq, locals, Count
<1>8. CASE PushSize(t)
  <2>1. CASE LoadSize(t, "push_size", "push_inc")
    BY <2>1 DEF LoadSize, Count
  <2>2. CASE StoreSize(t, "push_inc", "push_ready", acc[t] + 1)
    <3>1. fifo_size + 1 \in -(INT8_MAX + 1) .. INT8_MAX
      BY <2>2, CountRange, SizeAssumption DEF StoreSize
    <3>2. fifo_size' = fifo_size + 1
      BY <2>2, <3>1, SizeKept, Int8Exact DEF StoreSize
    <3>3. Count' = Count
      BY <2>2 DEF StoreSize, Count
    <3> QED
      BY <2>2, <3>2, <3>3, CountRange, SizeAssumption DEF StoreSize
  <2> QED
    BY <1>8, <2>1, <2>2 DEF PushSize
<1>9. CASE PushReady(t)
  BY <1>9 DEF PushReady, LoadStatus, StoreStatus, Count
<1>10. CASE PushUnlock(t)
  BY <1>10 DEF PushUnlock, UnlockAndReturn, Count
<1> QED
  BY <1>1, <1>2, <1>3, <1>4, <1>5, <1>6, <1>7, <1>8, <1>9, <1>10 DEF Push

\* fifo_clear, while the guest is between two instructions (i7220.c:321-326).
LEMMA ClearSound ==
  ASSUME FifoTypes, PcTypes, Driving, Popping, Pushing, Counted, Cleared,
         cmd \in ClearingCommands, UNCHANGED cmd, Clear("bubble"),
         pc["cpu"] = "caller", clobbered' = {}
  PROVE  Popping' /\ Pushing' /\ Counted' /\ Cleared'
<1> USE DEF FifoTypes, PcTypes, Cleared, ClearLabels, Goto, ring, Threads
<1>1. Popping' /\ Pushing'
  BY DEF Clear, ClearSize, ClearTail, ClearHead, ClearReady, ClearDrq, LoadStatus,
         StoreStatus, update_drq, Popping, Pushing, PushingBy, BadLabels
<1>2. Cleared'
  <2>1. CASE ClearSize("bubble")
    BY <2>1 DEF ClearSize
  <2>2. CASE ClearTail("bubble")
    BY <2>2 DEF ClearTail
  <2>3. CASE ClearHead("bubble")
    BY <2>3 DEF ClearHead
  <2>4. CASE ClearReady("bubble")
    BY <2>4 DEF ClearReady, LoadStatus, StoreStatus
  <2>5. CASE ClearDrq("bubble")
    BY <2>5 DEF ClearDrq, update_drq
  <2> QED
    BY <2>1, <2>2, <2>3, <2>4, <2>5 DEF Clear
<1>3. Counted'
  <2>1. CASE pc'["bubble"] \in {"clear_tail", "clear_head"}
    BY <2>1 DEF Counted
  <2>2. CASE pc'["bubble"] \notin {"clear_tail", "clear_head"}
    <3>1. fifo_size' = 0 /\ fifo_tail' = 0 /\ fifo_head' = 0
      BY <1>2, <2>2
      DEF Clear, ClearSize, ClearTail, ClearHead, ClearReady, ClearDrq, LoadStatus,
          StoreStatus, update_drq
    <3>2. /\ pc'["cpu"] = "caller"
          /\ pc'["bubble"] \in {"clear_ready", "clear_clear", "clear_drq", "caller"}
      BY <2>2
      DEF Clear, ClearSize, ClearTail, ClearHead, ClearReady, ClearDrq, LoadStatus,
          StoreStatus, update_drq
    <3>3. Count' = 0
      BY <3>1 DEF Count
    <3> QED
      BY <3>1, <3>2, <3>3 DEF Counted, CountPending
  <2> QED
    BY <2>1, <2>2
<1> QED
  BY <1>1, <1>2, <1>3

-----------------------------------------------------------------------------
(* The FIFO: each step *)

\* A step of the guest that loses no update keeps the FIFO sound.
LEMMA GuestKeepsFifo ==
  ASSUME ControllerTypeOK, Doing, Phased, Disciplined, FifoSound, Guest,
         clobbered' = {}
  PROVE  FifoSound'
<1> USE DEF ControllerTypeOK, FifoSound
<1>1. CASE \/ SelectRegister \/ WriteRegister \/ WriteOnAddress \/ WriteOnFile
           \/ ReadRegister \/ ReadQuietly
  <2>1. UNCHANGED <<vars, thread, ghosts>>
    BY <1>1
    DEF SelectRegister, WriteRegister, WriteOnAddress, WriteOnFile, ReadRegister,
        ReadQuietly, ctlVars
  <2> QED
    BY <2>1 DEF vars, ring, locals, thread, Cleared, Popping, Pushing, PushingBy,
                Counted, CountPending, Count
<1>2. CASE CpuFifo
  <2>1. pc["cpu"] \in PopLabels \cup PushLabels /\ pc'["bubble"] = pc["bubble"]
    BY <1>2, RunFramed
    DEF CpuFifo, RunFrame, StaysIn, PcTypes, CpuLabels, CommandLabels, ClearLabels,
        Threads
  <2>2. Cleared'
    <3>1. pc["cpu"] # "caller"
      BY <2>1 DEF PopLabels, PushLabels
    <3> QED
      BY <1>2, <2>1, <3>1, Apart DEF CpuFifo, thread, Cleared
  <2>3. CASE Pop("cpu")
    <3>1. pc["cpu"] \in PopLabels
      BY <2>1, <2>3
      DEF Pop, PopWait, PopSpin, PopLock, PopCheck, PopBad, PopGet, PopNext, PopTail,
          PopPhase, PopDrq, PopSize, PopEmpty, PopReady, PopUnlock, PopLabels, Branch,
          Lock, LoadStatus, StoreStatus, UnlockAndReturn, LoadSize, StoreSize,
          update_drq, Goto
    <3> QED
      BY <2>2, <2>3, <3>1, Apart, PopSound
  <2>4. CASE Push("cpu")
    <3>1. pc["cpu"] \in PushLabels
      BY <2>1, <2>4
      DEF Push, PushWait, PushSpin, PushLock, PushNext, PushRoom, PushPut, PushHead,
          PushSize, PushReady, PushPhase, PushDrq, PushUnlock, PushLabels, Branch,
          Lock, LoadStatus, StoreStatus, UnlockAndReturn, LoadSize, StoreSize,
          update_drq, Goto
    <3>2. pc["bubble"] \notin PushLabels \cup ClearLabels
      BY <3>1, Apart DEF Quiet, PushLabels, ClearLabels
    <3> QED
      BY <2>2, <2>4, <3>2, PushSound DEF Threads
  <2>5. CASE Clear("cpu")
    BY <2>1, <2>5
    DEF Clear, ClearSize, ClearTail, ClearHead, ClearReady, ClearDrq, LoadStatus,
        StoreStatus, update_drq, Goto, PopLabels, PushLabels
  <2> QED
    BY <1>2, <2>3, <2>4, <2>5 DEF CpuFifo, Run
<1>3. CASE ReadFifo \/ WriteFifo \/ WriteCommand \/ SetPhase \/ SetBusy
  <2>1. /\ pc["cpu"] \in Outside /\ pc'["cpu"] \in Outside
        /\ pc' = [pc EXCEPT !["cpu"] = pc'["cpu"]]
        /\ UNCHANGED <<ring, fifo_size, idx, cmd>>
    BY <1>3
    DEF ReadFifo, PopCall, WriteFifo, PushCall, WriteCommand, SetPhase, SetBusy,
        LoadStatus, StoreStatus, Branch, Goto, Outside, CommandLabels, locals, thread,
        PcTypes, Threads
  <2>2. Popping' /\ Pushing' /\ Counted'
    BY <2>1, OutsideKeeps DEF Threads
  <2>3. Cleared'
    <3>1. CASE pc["cpu"] = "caller"
      BY <1>3, <2>1, <3>1
      DEF ReadFifo, PopCall, WriteFifo, PushCall, WriteCommand, SetPhase, SetBusy,
          LoadStatus, StoreStatus, Branch, Goto, PcTypes, Threads, Cleared, ring
    <3>2. CASE pc["cpu"] # "caller"
      BY <2>1, <3>2, Apart DEF Cleared, PcTypes, Threads
    <3> QED
      BY <3>1, <3>2
  <2> QED
    BY <2>2, <2>3
<1> QED
  BY <1>1, <1>2, <1>3 DEF Guest

\* So does one of bubble_thread.
LEMMA BubbleKeepsFifo ==
  ASSUME ControllerTypeOK, Driving, Doing, Phased, Disciplined, FifoSound, Bubble,
         clobbered' = {}
  PROVE  FifoSound'
<1> USE DEF ControllerTypeOK, FifoSound
<1>1. CASE BubbleFifoStep
  <2>1. pc["bubble"] \in PushLabels \cup ClearLabels /\ pc'["cpu"] = pc["cpu"]
    BY <1>1, RunFramed
    DEF BubbleFifoStep, RunFrame, StaysIn, PcTypes, BubbleLabels, Executing, Quiet,
        EndLabels, PopLabels, PushLabels, ClearLabels, Threads
  <2>2. CASE Pop("bubble")
    BY <2>1, <2>2
    DEF Pop, PopWait, PopSpin, PopLock, PopCheck, PopBad, PopGet, PopNext, PopTail,
        PopPhase, PopDrq, PopSize, PopEmpty, PopReady, PopUnlock, Branch, Lock,
        LoadStatus, StoreStatus, UnlockAndReturn, LoadSize, StoreSize, update_drq,
        Goto, PushLabels, ClearLabels
  <2>3. CASE Push("bubble")
    <3>1. pc["bubble"] \in PushLabels /\ pc["bubble"] \notin ClearLabels
      BY <2>1, <2>3
      DEF Push, PushWait, PushSpin, PushLock, PushNext, PushRoom, PushPut, PushHead,
          PushSize, PushReady, PushPhase, PushDrq, PushUnlock, PushLabels, Branch,
          Lock, LoadStatus, StoreStatus, UnlockAndReturn, LoadSize, StoreSize,
          update_drq, Goto, ClearLabels
    <3>2. pc["cpu"] \notin PushLabels
      BY <3>1, Apart DEF PopLabels, PushLabels
    <3>3. cmd' \notin ClearingCommands
      BY <1>1, <3>1
      DEF Doing, BubbleFifoStep, thread, ClearingCommands, cmdReadBubbleData, cmdAbort,
          cmdResetFifo, cmdSoftReset
    <3>4. Popping' /\ Pushing' /\ Counted'
      BY <2>3, <3>1, <3>2, PushSound DEF Threads
    <3> QED
      BY <3>3, <3>4 DEF Cleared
  <2>4. CASE Clear("bubble")
    <3>1. pc["bubble"] \in ClearLabels
      BY <2>4
      DEF Clear, ClearSize, ClearTail, ClearHead, ClearReady, ClearDrq, LoadStatus,
          StoreStatus, update_drq, Goto, ClearLabels
    <3>2. pc["cpu"] = "caller" /\ cmd \in ClearingCommands
      BY <3>1, Apart DEF Doing
    <3> QED
      BY <1>1, <2>4, <3>2, ClearSound DEF BubbleFifoStep, thread
  <2> QED
    BY <1>1, <2>2, <2>3, <2>4 DEF BubbleFifoStep, Run
<1>2. CASE ~BubbleFifoStep
  <2>1. /\ pc["bubble"] \in Outside /\ pc'["bubble"] \in Outside
        /\ pc' = [pc EXCEPT !["bubble"] = pc'["bubble"]]
        /\ UNCHANGED <<ring, fifo_size, idx>>
    <3>1. CASE \/ SeeCommand \/ TakeCommand \/ EnterExec \/ SwitchClear \/ SwitchRead
               \/ EndPhase \/ RememberCommand \/ CallHangs
      BY <3>1
      DEF CallHangs, SeeCommand, TakeCommand, EnterExec, SwitchClear, ClearFrom,
          SwitchRead, EndPhase, RememberCommand, Branch, Goto, Outside, Quiet,
          locals, PcTypes, Threads
    <3>2. CASE ReadPage \/ PushByte \/ PageDone \/ SetOutcome
      BY <3>2
      DEF ReadPage, PushByte, PushCall, PageDone, SetOutcome, LoadStatus, StoreStatus,
          Branch, Goto, Outside, Quiet, EndLabels, locals, PcTypes, Threads
    <3>3. CASE \/ SwitchInitialize \/ SwitchReadRefused \/ SwitchDefault
               \/ ClearReturns \/ ReadDone
      BY <3>3
      DEF SwitchInitialize, SwitchReadRefused, SwitchDefault, ClearReturns, ReadDone,
          EndWith, Branch, Goto, Outside, EndLabels, locals, PcTypes, Threads
    <3> QED
      BY <1>2, <3>1, <3>2, <3>3 DEF Bubble
  <2>2. Popping' /\ Pushing' /\ Counted'
    BY <2>1, OutsideKeeps DEF Threads
  <2>3. Cleared'
    <3>1. CASE ClearReturns
      BY <2>1, <3>1
      DEF ClearReturns, EndWith, Branch, Goto, Cleared, PcTypes, Threads, ring,
          ClearLabels
    <3>2. CASE SwitchClear
      BY <3>2 DEF SwitchClear, ClearFrom, Goto, Cleared, PcTypes, Threads
    <3>3. CASE ~ClearReturns /\ ~SwitchClear
      <4>1. pc'["bubble"] \in ClearLabels \cup {"caller", "end_outcome"}
              => cmd' \notin ClearingCommands
        <5>1. CASE \/ SeeCommand \/ TakeCommand \/ EnterExec \/ SwitchRead \/ EndPhase
                   \/ RememberCommand \/ PushByte \/ PageDone \/ SetOutcome
                   \/ CallHangs
          BY <5>1
          DEF CallHangs, SeeCommand, TakeCommand, EnterExec, SwitchRead, EndPhase,
              RememberCommand, PushByte, PushCall, PageDone, SetOutcome, LoadStatus,
              StoreStatus, Branch, Goto, ClearLabels, PcTypes, Threads
        <5>2. CASE ReadPage
          BY <5>2 DEF ReadPage, Branch, Goto, Doing, ClearingCommands,
                      cmdReadBubbleData, cmdAbort, cmdResetFifo, cmdSoftReset
        <5>3. CASE \/ SwitchInitialize \/ SwitchReadRefused \/ SwitchDefault
                   \/ ReadDone
          BY <5>3
          DEF SwitchInitialize, SwitchReadRefused, SwitchDefault, ReadDone, EndWith,
              Branch, Goto, Doing, ClearingCommands, cmdInitialize,
              cmdReadBubbleData, cmdAbort, cmdResetFifo, cmdSoftReset
        <5> QED
          BY <1>2, <3>3, <5>1, <5>2, <5>3 DEF Bubble
      <4> QED
        BY <4>1 DEF Cleared
    <3> QED
      BY <3>1, <3>2, <3>3
  <2> QED
    BY <2>2, <2>3
<1> QED
  BY <1>1, <1>2

-----------------------------------------------------------------------------
(* Phase and status: each step *)

\* Commands, phase and status go together, whatever the guest does next.
LEMMA GuestConducted ==
  ASSUME ControllerTypeOK, Driving, Doing, Conducted, Guest, Intact'
  PROVE  Conducted'
<1> USE DEF ControllerTypeOK, PcTypes, Conducted, Goto, Threads
<1>1. CASE \/ SelectRegister \/ WriteRegister \/ WriteOnAddress \/ WriteOnFile
           \/ ReadRegister \/ ReadQuietly
  <2>1. /\ "BUSY" \notin regStatus /\ AtGuest
        /\ UNCHANGED <<vars, thread, ghosts>>
    BY <1>1
    DEF SelectRegister, WriteRegister, WriteOnAddress, WriteOnFile, ReadRegister,
        ReadQuietly, MayProgram, Driving, ctlVars
  <2>2. ~Pending /\ ~Pending' /\ pc["cpu"] = "caller" /\ pc'["cpu"] = "caller"
    BY <2>1 DEF Phased, Pending, vars, command, AtGuest
  <2>3. Phased' /\ Reported'
    BY <2>1 DEF vars, command, thread, ghosts, Phased, Reported, Pending
  <2>4. Disciplined'
    BY <2>1, <2>2 DEF vars, command, thread, ghosts, Disciplined, CommandLabels
  <2> QED
    BY <2>3, <2>4
<1>2. CASE ReadFifo
  <2>1. Phased' /\ Reported'
    BY <1>2 DEF ReadFifo, PopCall, Branch, command, thread, ghosts, Phased, Reported,
                Pending, CommandLabels
  <2>2. Pending => bubbleCommand = cmdReadBubbleData
    BY <1>2 DEF ReadFifo, MayRead, AtGuest, Driving, Phased
  <2>3. FirstPage' = FirstPage
    BY <1>2, RegsSame DEF ReadFifo, regs
  <2>4. Disciplined'
    BY <1>2, <2>2, <2>3
    DEF ReadFifo, PopCall, Branch, command, thread, ghosts, Disciplined, Pending,
        CommandLabels, PushLabels
  <2> QED
    BY <2>1, <2>4
<1>3. CASE WriteFifo
  <2>1. Phased' /\ Reported'
    BY <1>3 DEF WriteFifo, PushCall, command, thread, counters, file, ghosts, Phased,
                Reported, Pending, CommandLabels
  <2>2. ~Pending
    BY <1>3 DEF WriteFifo, MayProgram, AtGuest, Driving, Phased
  <2>3. FirstPage' = FirstPage
    BY <1>3, RegsSame DEF WriteFifo, regs
  <2>4. Disciplined'
    BY <1>3, <2>2, <2>3
    DEF WriteFifo, PushCall, command, thread, ghosts, Disciplined, Pending,
        CommandLabels, PopLabels
  <2> QED
    BY <2>1, <2>4
<1>4. CASE WriteCommand
  <2>1. ~Pending
    BY <1>4 DEF WriteCommand, MayCommand, Driving, Phased
  <2>2. pc["bubble"] \in Quiet /\ mainExecPhase # "CMD"
    BY <2>1 DEF Phased, Pending, BubbleLabels
  <2>3. Phased'
    BY <1>4, <2>1, <2>2
    DEF WriteCommand, thread, Phased, Pending, CommandLabels, MayCommand, Driving
  <2>4. Reported'
    BY <1>4, <2>2
    DEF WriteCommand, thread, Reported, CommandLabels
  <2>5. Disciplined'
    <3>1. FirstPage' = FirstPage
      BY <1>4, RegsSame DEF WriteCommand, regs
    <3>2. ~Pending' /\ pc'["bubble"] \in Quiet
      BY <1>4, <2>1, <2>2 DEF WriteCommand, Pending
    <3> QED
      BY <1>4, <3>1, <3>2
      DEF WriteCommand, Disciplined, CommandLabels, Quiet, Pending, PopLabels
  <2> QED
    BY <2>3, <2>4, <2>5
<1>5. CASE SetBusy
  <2>1. /\ pc["cpu"] \in CommandLabels /\ pc'["cpu"] \in CommandLabels
        /\ pc["bubble"] \in Quiet /\ mainExecPhase # "CMD"
        /\ pc'["bubble"] = pc["bubble"]
        /\ UNCHANGED <<command, regs, thread, ghosts>>
    BY <1>5 DEF SetBusy, LoadStatus, StoreStatus, CommandLabels, Phased
  <2>2. ~Pending /\ ~Pending'
    BY <2>1 DEF Pending, command, Executing, Quiet, EndLabels, PushLabels, ClearLabels
  <2>3. FirstPage' = FirstPage
    BY <2>1, RegsSame DEF regs
  <2>4. Disciplined'
    BY <2>1, <2>2, <2>3
    DEF Disciplined, Pending, command, thread, ghosts, CommandLabels, Quiet,
        Executing, EndLabels, PushLabels, ClearLabels
  <2>5. CASE LoadStatus("cpu", "cmd_busy", "cmd_setBusy")
             \/ LoadStatus("cpu", "cmd_complete", "cmd_clearComplete")
    <3>1. Phased'
      BY <2>1, <2>5 DEF LoadStatus, Phased, Pending, command, thread, CommandLabels
    <3>2. Reported'
      BY <2>1, <2>5 DEF LoadStatus, Reported, command, thread, ghosts, CommandLabels
    <3> QED
      BY <2>4, <3>1, <3>2
  <2>6. CASE StoreStatus("cpu", "cmd_setBusy", "cmd_complete",
                         bits["cpu"] \cup {"BUSY"})
    <3>1. regStatus' = regStatus \cup {"BUSY"}
      BY <2>6, StatusKept DEF Intact, StoreStatus
    <3>2. Phased'
      BY <2>1, <2>6, <3>1
      DEF StoreStatus, Phased, Pending, command, thread, CommandLabels
    <3>3. Reported'
      BY <2>1, <2>6, <3>1
      DEF StoreStatus, Reported, command, thread, ghosts, CommandLabels
    <3> QED
      BY <2>4, <3>2, <3>3
  <2>7. CASE StoreStatus("cpu", "cmd_clearComplete", "cmd_phase",
                         bits["cpu"] \ {"OP_COMPLETE"})
    <3>1. regStatus' = regStatus \ {"OP_COMPLETE"}
      BY <2>7, StatusKept DEF Intact, StoreStatus
    <3>2. Phased'
      BY <2>1, <2>7, <3>1
      DEF StoreStatus, Phased, Pending, command, thread, CommandLabels
    <3>3. Reported'
      BY <2>1, <2>7, <3>1
      DEF StoreStatus, Reported, command, thread, ghosts, CommandLabels
    <3> QED
      BY <2>4, <3>2, <3>3
  <2> QED
    BY <1>5, <2>5, <2>6, <2>7 DEF SetBusy
<1>6. CASE SetPhase
  <2>1. pc["bubble"] \in Quiet
    BY <1>6 DEF SetPhase, Phased, CommandLabels
  <2>2. Phased'
    BY <1>6, <2>1 DEF SetPhase, Phased, Pending, CommandLabels, thread, Quiet
  <2>3. Reported'
    BY <1>6, <2>1
    DEF SetPhase, Reported, thread, ghosts, Quiet, Executing, EndLabels, PushLabels,
        ClearLabels
  <2>4. FirstPage' = FirstPage
    BY <1>6, RegsSame DEF SetPhase, regs
  <2>5. Disciplined'
    BY <1>6, <2>1, <2>4
    DEF SetPhase, Disciplined, Pending, thread, ghosts, Quiet, Executing, EndLabels,
        PushLabels, ClearLabels, CommandLabels, PopLabels
  <2> QED
    BY <2>2, <2>3, <2>5
<1>7. CASE CpuFifo
  <2>1. /\ StaysIn("cpu", PopLabels) \/ StaysIn("cpu", PushLabels)
        /\ pc'["bubble"] = pc["bubble"]
        /\ UNCHANGED <<command, regs, thread, ghosts>>
    <3>1. pc["cpu"] \notin ClearLabels
      BY DEF CpuLabels, ClearLabels, PopLabels, PushLabels, CommandLabels
    <3> QED
      BY <1>7, <3>1, RunFramed DEF CpuFifo, RunFrame, StaysIn
  <2>2. \A b \in {"BUSY", "OP_COMPLETE", "OP_FAIL"} :
           b \in regStatus' <=> b \in regStatus
    BY <1>7, RunStatus DEF CpuFifo, Intact
  <2>3. pc["cpu"] \notin CommandLabels /\ pc'["cpu"] \notin CommandLabels
    BY <2>1 DEF StaysIn, PopLabels, PushLabels, CommandLabels
  <2>4. Phased'
    BY <2>1, <2>2, <2>3 DEF Phased, Pending, command, CommandLabels
  <2>5. Reported'
    BY <2>1, <2>2, <2>3 DEF Reported, command, thread, ghosts, CommandLabels
  <2>6. FirstPage' = FirstPage
    BY <2>1, RegsSame DEF regs
  <2>7. Disciplined'
    <3>1. pc'["cpu"] \in PopLabels => pc["cpu"] \in PopLabels
      BY <2>1 DEF StaysIn, PopLabels, PushLabels
    <3>2. pc'["cpu"] \in PushLabels => pc["cpu"] \in PushLabels
      BY <2>1 DEF StaysIn, PopLabels, PushLabels
    <3> QED
      BY <2>1, <2>3, <2>6, <3>1, <3>2 DEF Disciplined, Pending, command, thread, ghosts
  <2> QED
    BY <2>4, <2>5, <2>7
<1> QED
  BY <1>1, <1>2, <1>3, <1>4, <1>5, <1>6, <1>7 DEF Guest

\* So do they whatever bubble_thread does next.
LEMMA BubbleConducted ==
  ASSUME ControllerTypeOK, Driving, Doing, Conducted, Bubble, Intact'
  PROVE  Conducted'
<1> USE DEF ControllerTypeOK, PcTypes, Conducted, Goto, Threads
<1>1. FirstPage' = FirstPage
  BY RegsSame
  DEF Bubble, SeeCommand, TakeCommand, EnterExec, SwitchInitialize, SwitchReadRefused,
      SwitchDefault, SwitchClear, ClearReturns, SwitchRead, CallHangs, ReadPage, PushByte,
      PageDone, ReadDone, SetOutcome, EndPhase, RememberCommand, BubbleFifoStep,
      EndWith, regs
<1>2. pc'["cpu"] = pc["cpu"]
  <2>1. CASE BubbleFifoStep
    BY <2>1, RunFramed DEF BubbleFifoStep, RunFrame
  <2>2. CASE ~BubbleFifoStep
    BY <2>2
    DEF Bubble, SeeCommand, TakeCommand, EnterExec, SwitchInitialize,
        SwitchReadRefused, SwitchDefault, SwitchClear, ClearFrom, ClearReturns,
        SwitchRead, CallHangs, ReadPage, PushByte, PushCall, PageDone, ReadDone,
        SetOutcome, LoadStatus, StoreStatus, EndPhase, RememberCommand, EndWith,
        Branch
  <2> QED
    BY <2>1, <2>2
<1>3. \* The steps inside a command that leave regStatus and the outcome alone.
      ASSUME pc["bubble"] \in Executing \ {"end_outcome", "end_setOutcome", "end_busy",
                                           "end_clearBusy"},
             pc'["bubble"] \in Executing \ {"end_outcome", "end_setOutcome",
                                            "end_busy", "end_clearBusy"},
             \A b \in {"BUSY", "OP_COMPLETE", "OP_FAIL"} :
               b \in regStatus' <=> b \in regStatus,
             UNCHANGED <<command, cmd, sucess, failed, asked>>
      PROVE  Conducted'
  <2>1. Phased'
    BY <1>2, <1>3
    DEF Phased, Pending, command, Executing, PushLabels, ClearLabels, EndLabels, Quiet
  <2>2. Disciplined'
    BY <1>1, <1>2, <1>3 DEF Disciplined, Pending, command
  <2>3. Reported'
    BY <1>2, <1>3 DEF Reported, command
  <2> QED
    BY <2>1, <2>2, <2>3
<1>4. \* The calls of commandEnd.
      ASSUME NEW ok \in BOOLEAN, NEW from \in {"switch", "page", "caller"},
             EndWith(ok, from)
      PROVE  Conducted'
  <2>1. /\ pc["bubble"] = from /\ pc'["bubble"] = "end_outcome"
        /\ UNCHANGED <<regStatus, command, cmd, asked>>
        /\ sucess' = ok /\ failed' = (failed \/ ~ok)
    BY <1>4 DEF EndWith, Branch
  <2>2. Phased'
    BY <1>2, <2>1
    DEF Phased, Pending, command, Executing, PushLabels, ClearLabels, EndLabels, Quiet
  <2>3. Disciplined'
    BY <1>1, <1>2, <2>1
    DEF Disciplined, Pending, command, Executing, EndLabels
  <2>4. Reported'
    BY <1>2, <2>1 DEF Reported, command, Executing, EndLabels
  <2> QED
    BY <2>2, <2>3, <2>4
<1>5. CASE SeeCommand
  <2>1. /\ pc["bubble"] = "loop" /\ pc'["bubble"] = "start" /\ mainExecPhase = "CMD"
        /\ UNCHANGED <<regStatus, command, cmd, sucess, failed, asked>>
    BY <1>5 DEF SeeCommand, Branch, thread, ghosts
  <2>2. pc["cpu"] \notin CommandLabels
    BY <2>1 DEF Phased
  <2>3. Phased'
    BY <1>2, <2>1, <2>2 DEF Phased, Pending, command
  <2>4. Disciplined'
    BY <1>1, <1>2, <2>1, <2>2
    DEF Disciplined, Pending, command, Executing, EndLabels, PushLabels, ClearLabels
  <2>5. Reported'
    BY <1>2, <2>1 DEF Reported, command
  <2> QED
    BY <2>3, <2>4, <2>5
<1>6. CASE TakeCommand
  <2>1. /\ pc["bubble"] = "start" /\ pc'["bubble"] = "exec" /\ mainExecPhase = "CMD"
        /\ cmd' = bubbleCommand
        /\ UNCHANGED <<regStatus, command, sucess, failed, asked>>
    BY <1>6 DEF TakeCommand, Phased, ghosts
  <2>2. pc["cpu"] \notin CommandLabels
    BY <2>1 DEF Phased, Quiet
  <2>3. Phased'
    BY <1>2, <2>1, <2>2 DEF Phased, Pending, command
  <2>4. Disciplined'
    BY <1>1, <1>2, <2>1, <2>2 DEF Disciplined, Pending, command
  <2>5. Reported'
    BY <1>2, <2>1 DEF Reported, command
  <2> QED
    BY <2>3, <2>4, <2>5
<1>7. CASE EnterExec
  <2>1. /\ pc["bubble"] = "exec" /\ pc'["bubble"] = "switch"
        /\ mainExecPhase = "CMD" /\ mainExecPhase' = "EXEC"
        /\ UNCHANGED <<regStatus, bubbleCommand, cmd, sucess, failed, asked>>
    BY <1>7 DEF EnterExec, Phased, thread
  <2>2. pc["cpu"] \notin CommandLabels
    BY <2>1 DEF Phased, Quiet
  <2>3. Phased'
    BY <1>2, <2>1, <2>2 DEF Phased, Pending, Executing
  <2>4. Disciplined'
    BY <1>1, <1>2, <2>1, <2>2 DEF Disciplined, Pending
  <2>5. Reported'
    BY <1>2, <2>1 DEF Reported, Executing
  <2> QED
    BY <2>3, <2>4, <2>5
<1>8. CASE SwitchInitialize \/ SwitchReadRefused \/ SwitchDefault \/ ClearReturns \/ ReadDone
  <2>1. (regBlockLen_nfc = 2) \in BOOLEAN
    OBVIOUS
  <2> QED
    BY <1>4, <1>8, <2>1
    DEF SwitchInitialize, SwitchReadRefused, SwitchDefault, ClearReturns, ReadDone
<1>9. CASE SwitchClear \/ SwitchRead \/ CallHangs \/ ReadPage \/ PushByte \/ PageDone
  BY <1>3, <1>9
  DEF CallHangs, SwitchClear, ClearFrom, SwitchRead, ReadPage, PushByte, PushCall,
      PageDone, Branch, Executing, PushLabels, ClearLabels, thread, ghosts
<1>10. CASE BubbleFifoStep
  <2>1. pc["bubble"] \in PushLabels \cup ClearLabels
        /\ pc'["bubble"] \in PushLabels \cup ClearLabels \cup {"caller"}
    BY <1>10, RunFramed
    DEF BubbleFifoStep, RunFrame, StaysIn, BubbleLabels, Executing, Quiet, EndLabels,
        PopLabels, PushLabels, ClearLabels
  <2>2. \A b \in {"BUSY", "OP_COMPLETE", "OP_FAIL"} :
           b \in regStatus' <=> b \in regStatus
    BY <1>10, RunStatus DEF BubbleFifoStep, Intact
  <2>3. UNCHANGED command
    BY <1>10, RunFramed DEF BubbleFifoStep, RunFrame
  <2> QED
    BY <1>3, <1>10, <2>1, <2>2, <2>3
    DEF BubbleFifoStep, thread, Executing, PushLabels, ClearLabels
<1>11. CASE SetOutcome
  <2>1. /\ pc["bubble"] \in EndLabels
        /\ pc'["bubble"] \in EndLabels \cup {"end_phase"}
        /\ UNCHANGED <<command, cmd, sucess, failed, asked>>
    BY <1>11 DEF SetOutcome, LoadStatus, StoreStatus, EndLabels, thread, ghosts
  <2>2. pc["cpu"] \notin CommandLabels /\ mainExecPhase # "CMD" /\ Pending
    BY <2>1 DEF Phased, Pending, Executing, EndLabels, Quiet
  <2>3. Disciplined'
    BY <1>1, <1>2, <2>1, <2>2
    DEF Disciplined, Pending, command, Executing, EndLabels, PushLabels, ClearLabels
  <2>4. CASE LoadStatus("bubble", "end_outcome", "end_setOutcome")
             \/ LoadStatus("bubble", "end_busy", "end_clearBusy")
    <3>1. Phased'
      BY <1>2, <2>1, <2>2, <2>4
      DEF LoadStatus, Phased, Pending, command, Executing, EndLabels
    <3>2. Reported'
      BY <1>2, <2>1, <2>4 DEF LoadStatus, Reported, command, Executing, EndLabels
    <3> QED
      BY <2>3, <3>1, <3>2
  <2>5. CASE StoreStatus("bubble", "end_setOutcome", "end_busy",
                         bits["bubble"] \cup {IF sucess THEN "OP_COMPLETE"
                                              ELSE "OP_FAIL"})
    <3>1. regStatus' = regStatus \cup {IF sucess THEN "OP_COMPLETE" ELSE "OP_FAIL"}
      BY <2>5, StatusKept DEF Intact, StoreStatus
    <3>2. Phased'
      BY <1>2, <2>1, <2>2, <2>5, <3>1
      DEF StoreStatus, Phased, Pending, command, Executing, EndLabels
    <3>3. Reported'
      BY <1>2, <2>1, <2>2, <2>5, <3>1
      DEF StoreStatus, Reported, command, Executing, EndLabels, CommandLabels
    <3> QED
      BY <2>3, <3>2, <3>3
  <2>6. CASE StoreStatus("bubble", "end_clearBusy", "end_phase",
                         bits["bubble"] \ {"BUSY"})
    <3>1. regStatus' = regStatus \ {"BUSY"}
      BY <2>6, StatusKept DEF Intact, StoreStatus
    <3>2. Phased'
      BY <1>2, <2>1, <2>2, <2>6, <3>1
      DEF StoreStatus, Phased, Pending, command, Executing, EndLabels, PushLabels,
          ClearLabels, Quiet, CommandLabels
    <3>3. Reported'
      BY <1>2, <2>1, <2>2, <2>6, <3>1
      DEF StoreStatus, Reported, command, Executing, EndLabels, PushLabels,
          ClearLabels, Quiet, CommandLabels
    <3> QED
      BY <2>3, <3>2, <3>3
  <2> QED
    BY <1>11, <2>4, <2>5, <2>6 DEF SetOutcome
<1>12. CASE EndPhase
  <2>1. /\ pc["bubble"] = "end_phase" /\ pc'["bubble"] = "last"
        /\ mainExecPhase # "CMD" /\ mainExecPhase' = "IDLE"
        /\ UNCHANGED <<regStatus, bubbleCommand, cmd, sucess, failed, asked>>
    BY <1>12 DEF EndPhase, Intact, thread
  <2>2. Phased'
    BY <1>2, <2>1
    DEF Phased, Pending, Quiet, Executing, EndLabels, PushLabels, ClearLabels
  <2>3. Disciplined'
    BY <1>1, <1>2, <2>1
    DEF Disciplined, Pending, Executing, EndLabels, PushLabels, ClearLabels
  <2>4. Reported'
    BY <1>2, <2>1
    DEF Reported, Quiet, Executing, EndLabels, PushLabels, ClearLabels
  <2> QED
    BY <2>2, <2>3, <2>4
<1>13. CASE RememberCommand
  <2>1. /\ pc["bubble"] = "last" /\ pc'["bubble"] = "loop"
        /\ UNCHANGED <<regStatus, command, cmd, sucess, failed, asked>>
    BY <1>13 DEF RememberCommand, Branch
  <2>2. Phased'
    BY <1>2, <2>1
    DEF Phased, Pending, command, Quiet, Executing, EndLabels, PushLabels, ClearLabels
  <2>3. Disciplined'
    BY <1>1, <1>2, <2>1
    DEF Disciplined, Pending, command, Executing, EndLabels, PushLabels, ClearLabels
  <2>4. Reported'
    BY <1>2, <2>1
    DEF Reported, command, Quiet, Executing, EndLabels, PushLabels, ClearLabels
  <2> QED
    BY <2>2, <2>3, <2>4
<1> QED
  BY <1>5, <1>6, <1>7, <1>8, <1>9, <1>10, <1>11, <1>12, <1>13 DEF Bubble

-----------------------------------------------------------------------------
(* Pages and bytes: each step *)

\* The thread executes what it took, and its page counter never passes its limit,
\* lost updates or not (i7220.c:389-411, 469-494).
LEMMA CountingKept ==
  ASSUME ControllerTypeOK, Doing, Metered, ControllerNext
  PROVE  Doing' /\ Metered'
<1> USE DEF ControllerTypeOK, PcTypes, Goto, Threads
<1>1. CASE Guest
  <2>1. pc'["bubble"] = pc["bubble"] /\ UNCHANGED thread
    <3>1. CASE CpuFifo
      BY <3>1, RunFramed DEF CpuFifo, RunFrame
    <3>2. CASE ~CpuFifo
      BY <1>1, <3>2
      DEF Guest, SelectRegister, WriteRegister, WriteOnAddress, WriteOnFile,
          ReadRegister, ReadQuietly, ctlVars, vars, ReadFifo, PopCall, WriteFifo,
          PushCall, Branch, WriteCommand, SetBusy, LoadStatus, StoreStatus, SetPhase
    <3> QED
      BY <3>1, <3>2
  <2> QED
    BY <2>1 DEF Doing, Metered, InRead, thread, counters
<1>2. CASE BubbleFifoStep
  <2>1. \/ pc["bubble"] \in PushLabels /\ pc'["bubble"] \in PushLabels \cup {"caller"}
        \/ pc["bubble"] \in ClearLabels /\ pc'["bubble"] \in ClearLabels \cup {"caller"}
    BY <1>2, RunFramed
    DEF BubbleFifoStep, RunFrame, StaysIn, BubbleLabels, Executing, Quiet, EndLabels,
        PopLabels, PushLabels, ClearLabels
  <2>2. UNCHANGED <<cmd, counters>>
    BY <1>2 DEF BubbleFifoStep, thread
  <2>3. Doing'
    BY <2>1, <2>2 DEF Doing, PushLabels, ClearLabels
  <2>4. InRead' = InRead
    BY <2>1, <2>2
    DEF Doing, InRead, PushLabels, ClearLabels, ClearingCommands, cmdReadBubbleData,
        cmdAbort, cmdResetFifo, cmdSoftReset
  <2>5. Metered'
    BY <2>1, <2>2, <2>4 DEF Metered, counters, PushLabels, ClearLabels
  <2> QED
    BY <2>3, <2>5
<1>3. CASE SwitchRead
  <2>1. /\ pc'["bubble"] = "page" /\ cmd' = cmd /\ cmd = cmdReadBubbleData
        /\ pc["bubble"] = "switch"
    BY <1>3 DEF SwitchRead, Branch
  <2>2. regBubbleCounter' <= regBubbleLimit'
    <3>1. regBlockLenCount * regBlockLen_nfc \in Nat
      BY RegsTyped, ProductNat
    <3>2. regBubbleCounter = regBubbleLimit
      BY <2>1 DEF Metered, InRead, PushLabels
    <3> QED
      BY <1>3, <3>1, <3>2 DEF SwitchRead, StartCounting, counters, ThreadTypes
  <2> QED
    BY <2>1, <2>2 DEF Doing, Metered, InRead, PushLabels, ClearLabels
<1>4. CASE ReadPage
  <2>1. /\ pc["bubble"] = "page" /\ pc'["bubble"] = "caller"
        /\ UNCHANGED <<cmd, counters>> /\ regBubbleCounter < regBubbleLimit
    BY <1>4 DEF ReadPage, Branch
  <2> QED
    BY <2>1 DEF Doing, Metered, InRead, counters, PushLabels, ClearLabels
<1>5. CASE PushByte
  <2>1. /\ pc["bubble"] = "caller" /\ pc'["bubble"] = "push_wait"
        /\ cmd = cmdReadBubbleData /\ UNCHANGED <<cmd, counters>>
    BY <1>5 DEF PushByte, PushCall
  <2> QED
    BY <2>1 DEF Doing, Metered, InRead, counters, PushLabels, ClearLabels
<1>6. CASE PageDone
  <2>1. /\ pc["bubble"] = "caller" /\ pc'["bubble"] = "page"
        /\ cmd = cmdReadBubbleData /\ UNCHANGED <<cmd, regBubbleLimit>>
        /\ regBubbleCounter' = regBubbleCounter + 1
    BY <1>6 DEF PageDone, Branch
  <2>2. regBubbleCounter' <= regBubbleLimit'
    BY <2>1 DEF Metered, InRead, ThreadTypes
  <2> QED
    BY <2>1, <2>2 DEF Doing, Metered, InRead, PushLabels, ClearLabels
<1>7. CASE \/ SwitchInitialize \/ SwitchReadRefused \/ SwitchDefault
           \/ ClearReturns \/ ReadDone
  <2>1. /\ pc["bubble"] \in {"switch", "page", "caller"}
        /\ pc'["bubble"] = "end_outcome"
        /\ UNCHANGED <<cmd, counters>>
        /\ pc["bubble"] = "page" => regBubbleCounter >= regBubbleLimit
        /\ pc["bubble"] = "caller" => cmd \in ClearingCommands
    BY <1>7
    DEF SwitchInitialize, SwitchReadRefused, SwitchDefault, ClearReturns, ReadDone,
        EndWith, Branch
  <2>2. Doing'
    BY <2>1 DEF Doing, PushLabels, ClearLabels
  <2>3. regBubbleCounter = regBubbleLimit
    BY <2>1
    DEF Metered, InRead, ThreadTypes, PushLabels, ClearingCommands,
        cmdReadBubbleData, cmdAbort, cmdResetFifo, cmdSoftReset
  <2>4. Metered'
    BY <2>1, <2>3 DEF Metered, InRead, counters, PushLabels
  <2> QED
    BY <2>2, <2>4
<1>8. CASE SwitchClear
  <2>1. /\ pc["bubble"] = "switch" /\ pc'["bubble"] = "clear_size"
        /\ cmd \in ClearingCommands /\ UNCHANGED <<cmd, counters>>
    BY <1>8 DEF SwitchClear, ClearFrom, thread
  <2> QED
    BY <2>1 DEF Doing, Metered, InRead, counters, PushLabels, ClearLabels
<1>9. CASE SeeCommand \/ TakeCommand \/ EnterExec \/ SetOutcome \/ EndPhase \/ RememberCommand
  <2>1. /\ pc["bubble"] \notin {"page", "hung", "caller"} \cup PushLabels \cup ClearLabels
        /\ pc'["bubble"] \notin {"page", "hung", "caller"} \cup PushLabels \cup ClearLabels
        /\ UNCHANGED counters
    BY <1>9
    DEF SeeCommand, TakeCommand, EnterExec, SetOutcome, LoadStatus, StoreStatus,
        EndPhase, RememberCommand, Branch, thread, PushLabels, ClearLabels
  <2> QED
    BY <2>1 DEF Doing, Metered, InRead, counters
<1>10. CASE CallHangs
  <2>1. /\ pc["bubble"] \in {"switch", "page"} /\ pc'["bubble"] = "hung"
        /\ UNCHANGED <<cmd, counters>>
    BY <1>10 DEF CallHangs, Branch, thread
  <2>2. Doing' /\ ~InRead'
    BY <2>1 DEF Doing, InRead, PushLabels, ClearLabels
  <2>3. regBubbleCounter <= regBubbleLimit
    BY <2>1 DEF Metered, InRead, ThreadTypes, PushLabels
  <2> QED
    BY <2>1, <2>2, <2>3 DEF Metered, counters
<1> QED
  BY <1>1, <1>2, <1>3, <1>4, <1>5, <1>6, <1>7, <1>8, <1>9, <1>10
  DEF ControllerNext, Bubble

\* A step of the guest leaves a Read in progress where it is.
LEMMA GuestKeepsRead ==
  ASSUME ControllerTypeOK, Driving, Phased, Positioned, Moved, Guest
  PROVE  Positioned' /\ Moved'
<1> USE DEF ControllerTypeOK, PcTypes, Goto, Threads
<1>1. CASE WriteCommand \/ WriteRegister
  <2>1. ~Pending
    BY <1>1
    DEF WriteCommand, WriteRegister, MayCommand, MayProgram, Driving, Phased
  <2>2. /\ pc["bubble"] \notin {"switch", "page", "caller"} \cup PushLabels
        /\ pc'["bubble"] = pc["bubble"]
    BY <1>1, <2>1 DEF WriteCommand, WriteRegister, Pending, Executing, vars
  <2> QED
    BY <2>2 DEF Positioned, Moved, InRead
<1>2. CASE ~WriteCommand /\ ~WriteRegister
  <2>1. /\ pc'["bubble"] = pc["bubble"] /\ UNCHANGED <<regArray, thread, ghosts>>
        /\ bubbleFile' = "opened" => bubbleFile = "opened"
    <3>1. CASE CpuFifo
      BY <3>1, RunFramed DEF CpuFifo, RunFrame, regs
    <3>2. CASE ~CpuFifo
      BY <1>2, <3>2
      DEF Guest, SelectRegister, WriteOnAddress, WriteOnFile, ReadRegister,
          ReadQuietly, ctlVars, vars, regs,
          ReadFifo, PopCall, WriteFifo, PushCall, Branch, SetBusy, LoadStatus,
          StoreStatus, SetPhase
    <3> QED
      BY <3>1, <3>2
  <2>2. Positioned'
    BY <2>1 DEF Positioned, InRead, thread, counters, file, ghosts
  <2>3. Moved'
    BY <2>1, RegsSame DEF Moved, InRead, thread, counters, ghosts
  <2> QED
    BY <2>2, <2>3
<1> QED
  BY <1>1, <1>2

\* Between the call of fifo_push and its return the byte goes into the ring: the
\* test for room (i7220.c:375) finds room, for the fill count that let the call in
\* counts every byte in the ring.
LEMMA PushDelivers ==
  ASSUME ControllerTypeOK, Doing, Phased, Disciplined, FifoSound, BubbleFifoStep,
         pc["bubble"] \in PushLabels
  PROVE  /\ pc'["bubble"] \in PushLabels \cup {"caller"}
         /\ IF pc["bubble"] = "push_head"
            THEN pc'["bubble"] \notin BeforeHead /\ moved' = moved + 1
            ELSE /\ pc'["bubble"] \in BeforeHead <=> pc["bubble"] \in BeforeHead
                 /\ moved' = moved
<1> USE DEF ControllerTypeOK, PcTypes, Goto, Threads
<1>1. Push("bubble")
  BY DEF BubbleFifoStep, Run, PushLabels, Pop, PopWait, PopSpin, PopLock, PopCheck,
         PopBad, PopGet, PopNext, PopTail, PopPhase, PopDrq, PopSize, PopEmpty,
         PopReady, PopUnlock, Clear, ClearSize, ClearTail, ClearHead, ClearReady,
         ClearDrq, Branch, Lock, LoadStatus, StoreStatus, UnlockAndReturn, LoadSize,
         StoreSize, update_drq
<1>2. PushRoom("bubble") => pc'["bubble"] = "push_put"
  <2>1. SUFFICES ASSUME pc["bubble"] = "push_room"
                 PROVE  idx["bubble"] # fifo_tail
    BY DEF PushRoom, Branch
  <2>2. idx["bubble"] = Inc(fifo_head) /\ fifo_size < BUBBLEFIFOSIZE - 1
    BY <2>1 DEF FifoSound, Pushing, PushingBy
  <2>3. pc["cpu"] \notin {"push_size", "push_inc"}
    BY Apart DEF PopLabels
  <2>4. CountPending("cpu") \in {0, 1} /\ CountPending("bubble") = 0
    BY <2>1, <2>3 DEF CountPending
  <2>5. fifo_size = Count + CountPending("cpu") + CountPending("bubble")
    BY <2>1 DEF FifoSound, Counted
  <2>6. Count < BUBBLEFIFOSIZE - 1
    BY <2>2, <2>4, <2>5, CountRange, SizeAssumption DEF FifoTypes
  <2> QED
    BY <2>2, <2>6, CountRange DEF FifoTypes
<1> QED
  BY <1>1, <1>2
  DEF BubbleFifoStep, Push, PushWait, PushSpin, PushLock, PushNext, PushRoom, PushPut,
      PushHead, PushSize, PushReady, PushPhase, PushDrq, PushUnlock, PushLabels,
      BeforeHead, Branch, Lock, LoadStatus, StoreStatus, UnlockAndReturn, LoadSize,
      StoreSize, update_drq

\* A page more.
LEMMA OnePageMore ==
  ASSUME NEW n \in Nat, NEW k \in Nat
  PROVE  n * (k + 1) = n * k + n
OBVIOUS

\* A step of bubble_thread takes a Read from byte to byte and from page to page.
LEMMA BubbleKeepsRead ==
  ASSUME ControllerTypeOK, Doing, Metered, Conducted, FifoSound, Positioned, Moved,
         Bubble
  PROVE  Positioned' /\ Moved'
<1> USE DEF ControllerTypeOK, PcTypes, Goto, Threads
<1>1. ASSUME UNCHANGED regArray
      PROVE  /\ FirstPage' = FirstPage
             /\ (regBlockLenCount * regBlockLen_nfc)' = regBlockLenCount * regBlockLen_nfc
  BY <1>1, RegsSame
<1>2. CASE pc'["bubble"] \notin {"page", "caller", "switch"} \cup PushLabels
  BY <1>2 DEF Positioned, Moved, InRead
<1>3. CASE EnterExec
  BY <1>3 DEF EnterExec, Positioned, Moved, InRead, PushLabels
<1>4. CASE SwitchRead
  <2>1. asked = FirstPage /\ moved = 0 /\ regBubbleCounter = regBubbleLimit
    BY <1>4
    DEF SwitchRead, Branch, Conducted, Disciplined, Pending, Executing, Moved, Metered,
        InRead, PushLabels
  <2>2. pc'["bubble"] = "page" /\ ~InRead' /\ UNCHANGED ghosts
    BY <1>4 DEF SwitchRead, Branch, InRead, PushLabels
  <2>3. bubbleFile' = "opened" => filePage' = asked' + regBubbleCounter'
    BY <1>4, <2>1, <2>2 DEF SwitchRead, ghosts, regs
  <2>4. Positioned'
    BY <2>2, <2>3 DEF Positioned
  <2>5. Moved'
    <3>1. CASE lastCommand = cmdReadBubbleData
      BY <1>4, <2>1, <2>2, <3>1
      DEF SwitchRead, StartCounting, counters, ghosts, Moved, PushLabels
    <3>2. CASE lastCommand # cmdReadBubbleData
      <4>1. /\ regBubbleLimit' = (regBlockLenCount * regBlockLen_nfc)'
            /\ PageBytes * regBubbleCounter' = 0 /\ moved' = 0
            /\ lastCommand' = lastCommand /\ prev' = prev
        BY <1>1, <1>4, <2>1, <3>2, ControllerAssumption
        DEF SwitchRead, StartCounting, regs, ghosts
      <4> QED
        BY <2>2, <3>2, <4>1 DEF Moved, PushLabels
    <3> QED
      BY <3>1, <3>2
  <2> QED
    BY <2>4, <2>5
<1>5. CASE ReadPage
  <2>1. /\ pc["bubble"] = "page" /\ pc'["bubble"] = "caller" /\ cmd = cmdReadBubbleData
        /\ regBubbleCounter < regBubbleLimit /\ byteNo' = 0
        /\ UNCHANGED <<regArray, bubbleFile, cmd, lastCommand, counters, ghosts>>
    BY <1>5 DEF ReadPage, Branch, Doing, regs
  <2>2. bubbleFile = "opened" /\ asked + regBubbleCounter < ImagePages =>
          bufferPage' = asked + regBubbleCounter
            /\ filePage' = asked + regBubbleCounter + 1
    <3>1. bubbleFile = "opened" /\ asked + regBubbleCounter < ImagePages =>
            filePage = asked + regBubbleCounter
      BY <2>1 DEF Positioned
    <3>2. \/ bufferPage' = filePage /\ filePage' = filePage + 1
          \/ filePage >= ImagePages \/ bubbleFile = "stray"
      BY <1>5 DEF ReadPage, sectorRead
    <3> QED
      BY <3>1, <3>2, ControllerAssumption DEF ThreadTypes
  <2>3. Positioned'
    BY <2>1, <2>2 DEF Positioned, counters, ghosts
  <2>4. Moved'
    BY <1>1, <2>1
    DEF Moved, InRead, counters, ghosts, ThreadTypes, BeforeHead, PushLabels
  <2> QED
    BY <2>3, <2>4
<1>6. CASE PushByte
  <2>1. /\ pc["bubble"] = "caller" /\ pc'["bubble"] = "push_wait"
        /\ cmd = cmdReadBubbleData /\ byteNo' = byteNo + 1 /\ byteNo \in Nat
        /\ UNCHANGED <<regArray, bubbleFile, cmd, lastCommand, counters, file, ghosts>>
    BY <1>6, ControllerAssumption DEF PushByte, PushCall, regs, ThreadTypes
  <2>2. Positioned'
    BY <2>1 DEF Positioned, InRead, counters, file, ghosts
  <2>3. Moved'
    BY <1>1, <2>1 DEF Moved, InRead, counters, ghosts, BeforeHead, PushLabels
  <2> QED
    BY <2>2, <2>3
<1>7. CASE PageDone
  <2>1. /\ pc["bubble"] = "caller" /\ pc'["bubble"] = "page"
        /\ cmd = cmdReadBubbleData /\ byteNo = PageBytes
        /\ regBubbleCounter' = regBubbleCounter + 1
        /\ UNCHANGED <<regArray, bubbleFile, cmd, lastCommand, regBubbleLimit>>
        /\ UNCHANGED <<file, ghosts>>
    BY <1>7 DEF PageDone, Branch, regs
  <2>2. InRead /\ ~InRead' /\ regBubbleCounter < regBubbleLimit
    BY <2>1 DEF InRead, Metered, PushLabels
  <2>3. Positioned'
    BY <2>1, <2>2, ControllerAssumption DEF Positioned, file, ghosts, ThreadTypes
  <2>4. Moved'
    <3>1. PageBytes * regBubbleCounter' = PageBytes * regBubbleCounter + PageBytes
      BY <2>1, OnePageMore, ControllerAssumption DEF ThreadTypes
    <3>2. ASSUME lastCommand = prev
          PROVE  /\ prev # cmdReadBubbleData
                 /\ regBubbleLimit = regBlockLenCount * regBlockLen_nfc
                 /\ moved = PageBytes * regBubbleCounter + PageBytes
      BY <2>1, <2>2, <3>2 DEF Moved, BeforeHead, ThreadTypes
    <3> QED
      BY <1>1, <2>1, <2>2, <3>1, <3>2, ControllerAssumption
      DEF Moved, PushLabels, ghosts, ThreadTypes
  <2> QED
    BY <2>3, <2>4
<1>8. CASE BubbleFifoStep
  <2>1. UNCHANGED <<regArray, bubbleFile, thread, prev, asked>>
    BY <1>8 DEF BubbleFifoStep, regs
  <2>2. CASE pc["bubble"] \in PushLabels
    <3>1. cmd = cmdReadBubbleData /\ InRead /\ pc["bubble"] # "page"
      BY <2>2 DEF Doing, InRead, PushLabels
    <3>2. /\ pc'["bubble"] \in PushLabels \cup {"caller"}
          /\ IF pc["bubble"] = "push_head"
             THEN pc'["bubble"] \notin BeforeHead /\ moved' = moved + 1
             ELSE /\ pc'["bubble"] \in BeforeHead <=> pc["bubble"] \in BeforeHead
                  /\ moved' = moved
      BY <1>8, <2>2, PushDelivers DEF Conducted
    <3>3. Positioned'
      BY <2>1, <3>1, <3>2 DEF Positioned, thread, counters, file, PushLabels
    <3>4. /\ moved \in Nat /\ byteNo \in Nat /\ byteNo > 0
          /\ PageBytes * regBubbleCounter \in Nat
      BY <2>2, ProductNat, ControllerAssumption DEF Moved, ThreadTypes
    <3>5. ASSUME lastCommand = prev, prev # cmdReadBubbleData
          PROVE  moved' = PageBytes * regBubbleCounter
                            + (IF pc'["bubble"] \in BeforeHead THEN byteNo - 1 ELSE byteNo)
      BY <2>2, <3>1, <3>2, <3>4, <3>5 DEF Moved, BeforeHead, PushLabels
    <3>6. ASSUME lastCommand = prev
          PROVE  IF prev = cmdReadBubbleData
                 THEN regBubbleCounter = regBubbleLimit
                 ELSE regBubbleLimit = regBlockLenCount * regBlockLen_nfc
      BY <3>1, <3>6 DEF Moved
    <3>7. ~(regBubbleCounter = regBubbleLimit)
      BY <3>1 DEF Metered, ThreadTypes
    <3>8. pc'["bubble"] \notin {"switch", "page"}
      BY <3>2 DEF PushLabels
    <3>9. Moved'
      BY <1>1, <2>1, <3>4, <3>5, <3>6, <3>7, <3>8 DEF Moved, thread, counters
    <3> QED
      BY <3>3, <3>9
  <2>3. CASE pc["bubble"] \notin PushLabels
    <3>1. /\ cmd \in ClearingCommands
          /\ pc'["bubble"] \in ClearLabels \cup {"caller"}
      BY <1>8, <2>3, RunFramed
      DEF BubbleFifoStep, RunFrame, StaysIn, Doing, BubbleLabels, Executing, Quiet,
          EndLabels, PopLabels, ClearLabels
    <3>2. ~InRead'
      BY <2>1, <3>1 DEF InRead, thread, ClearingCommands, cmdReadBubbleData, cmdAbort,
                        cmdResetFifo, cmdSoftReset
    <3> QED
      BY <3>1, <3>2 DEF Positioned, Moved, ClearLabels, PushLabels
  <2> QED
    BY <2>2, <2>3
<1>9. CASE ~(\/ EnterExec \/ SwitchRead \/ ReadPage \/ PushByte \/ PageDone
             \/ BubbleFifoStep)
  <2>1. pc'["bubble"] \notin {"page", "caller", "switch"} \cup PushLabels
    BY <1>9
    DEF Bubble, SeeCommand, TakeCommand, SwitchInitialize, SwitchReadRefused, CallHangs,
        SwitchDefault, SwitchClear, ClearFrom, ClearReturns, ReadDone, SetOutcome,
        LoadStatus, StoreStatus, EndPhase, RememberCommand, EndWith, Branch, PushLabels
  <2> QED
    BY <1>2, <2>1
<1> QED
  BY <1>3, <1>4, <1>5, <1>6, <1>7, <1>8, <1>9

-----------------------------------------------------------------------------
(* The invariant, and what it says *)

\* The threads start outside the FIFO, with nothing pending and nothing in it.
LEMMA ControllerInvInit == ControllerInit => ControllerInv
<1> SUFFICES ASSUME ControllerInit
             PROVE  ControllerInv
  OBVIOUS
<1> USE DEF ControllerInit, Threads
<1>1. Doing /\ Metered
  BY DEF Doing, Metered, InRead, PushLabels, ClearLabels
<1>2. ~Pending
  BY DEF Pending, Executing, EndLabels, PushLabels, ClearLabels
<1>3. Conducted
  BY <1>2
  DEF Conducted, Phased, Disciplined, Reported, CommandLabels, Executing, Quiet,
      EndLabels, PopLabels, PushLabels, ClearLabels
<1>4. Cleared /\ Popping /\ Pushing
  BY DEF Cleared, Popping, Pushing, PushingBy, BadLabels, ClearLabels
<1>5. Counted
  BY SizeAssumption DEF Counted, CountPending, Count
<1>6. Positioned /\ Moved
  BY DEF Positioned, Moved, InRead, PushLabels
<1> QED
  BY <1>1, <1>3, <1>4, <1>5, <1>6 DEF ControllerInv, FifoSound

\* Every step keeps it.
LEMMA ControllerInvNext ==
  ASSUME Driving, ControllerTypeOK, ControllerInv, [ControllerNext]_ctlVars
  PROVE  ControllerInv'
<1>1. CASE ControllerNext
  <2>1. Doing' /\ Metered'
    BY <1>1, CountingKept DEF ControllerInv
  <2>2. ASSUME Intact'
        PROVE  Conducted' /\ FifoSound' /\ Positioned' /\ Moved'
    <3>1. Doing /\ Metered /\ Conducted /\ FifoSound /\ Positioned /\ Moved
      BY <1>1, <2>2, IntactBefore DEF ControllerInv
    <3>2. clobbered' = {}
      BY <2>2 DEF Intact
    <3>3. CASE Guest
      BY <2>2, <3>1, <3>2, <3>3, GuestConducted, GuestKeepsFifo, GuestKeepsRead
      DEF Conducted
    <3>4. CASE Bubble
      BY <2>2, <3>1, <3>2, <3>4, BubbleConducted, BubbleKeepsFifo, BubbleKeepsRead
      DEF Conducted
    <3> QED
      BY <1>1, <3>3, <3>4 DEF ControllerNext
  <2> QED
    BY <2>1, <2>2 DEF ControllerInv
<1>2. CASE UNCHANGED ctlVars
  <2>1. /\ UNCHANGED <<ring, fifo_size, regStatus, command, pc, idx, clobbered>>
        /\ UNCHANGED <<regArray, bubbleFile, lastCommand, counters, file>>
        /\ UNCHANGED <<cmd, byteNo, sucess>>
        /\ UNCHANGED <<prev, moved, phaseLost, asked, failed>>
    BY <1>2 DEF ctlVars, vars, locals, history, regs, thread, ghosts
  <2>2. Doing' /\ Metered' /\ (Intact' => Intact)
    BY <2>1 DEF ControllerInv, Doing, Metered, InRead, Intact, counters
  <2>3. Conducted => Conducted'
    BY <2>1, RegsSame DEF Conducted, Phased, Disciplined, Reported, Pending, command
  <2>4. FifoSound => FifoSound'
    BY <2>1
    DEF FifoSound, Cleared, Popping, Pushing, PushingBy, Counted, CountPending, Count,
        ring
  <2>5. (Positioned => Positioned') /\ (Moved => Moved')
    BY <2>1, RegsSame DEF Positioned, Moved, InRead, counters, file
  <2> QED
    BY <2>2, <2>3, <2>4, <2>5 DEF ControllerInv
<1> QED
  BY <1>1, <1>2

\* ControllerInv is an invariant.
LEMMA ControllerInvariant ==
  ASSUME Driving
  PROVE  ControllerSpec => [](ControllerTypeOK /\ ControllerInv)
<1>1. ControllerTypeOK /\ ControllerInv /\ [ControllerNext]_ctlVars => ControllerInv'
  BY ControllerInvNext, Driving
<1> QED
  BY <1>1, ControllerInvInit, ControllerTypeCorrect, PTL DEF ControllerSpec

\* Whatever commands a driver that polls BUSY gives, and however the accesses of
\* the two threads interleave: when no command is pending BUSY is off, OP COMPLETE
\* says how the last command ended and OP FAIL whether any ever failed, as long as
\* no update of a shared word has been lost (i7220.c:278-279, 461-462).
THEOREM StatusTellsOutcome ==
  ASSUME Driving
  PROVE  ControllerSpec => []IdleStatus
<1>1. ControllerTypeOK /\ ControllerInv => IdleStatus
  <2> SUFFICES ASSUME ControllerTypeOK, ControllerInv, pc["bubble"] = "loop",
                      mainExecPhase = "IDLE", AtGuest, ~Slipped
               PROVE  /\ "BUSY" \notin regStatus
                      /\ ("OP_COMPLETE" \in regStatus) <=> sucess
                      /\ ("OP_FAIL" \in regStatus) <=> failed
    BY DEF IdleStatus
  <2>1. Phased /\ Reported
    BY DEF ControllerInv, Conducted, Intact, Slipped
  <2>2. ~Pending
    BY DEF Pending, Executing, EndLabels, PushLabels, ClearLabels
  <2> QED
    BY <2>1, <2>2
    DEF Phased, Reported, AtGuest, Executing, Quiet, EndLabels, PushLabels, ClearLabels
<1> QED
  BY <1>1, ControllerInvariant, PTL

\* Abort, Reset FIFO and Software Reset end with an empty FIFO, READY off and
\* indices, fill count and status that agree, although fifo_clear takes no lock:
\* a driver that follows the protocol is between two instructions meanwhile
\* (i7220.c:321-326).
THEOREM ClearingEmpties ==
  ASSUME Driving
  PROVE  ControllerSpec => []ClearEmpties
<1>1. ControllerInv => ClearEmpties
  BY DEF ControllerInv, FifoSound, Cleared, ClearEmpties, Intact, Slipped
<1> QED
  BY <1>1, ControllerInvariant, PTL

\* For any registers and any image, a Read sends the pages of the image in order
\* from the address the registers held when the guest gave the command, the
\* resumed Read as well as the fresh one (i7220.c:389-395, 474-494).
THEOREM RightPages ==
  ASSUME Driving
  PROVE  ControllerSpec => []PagesAreRead
<1>1. ControllerInv => PagesAreRead
  BY DEF ControllerInv, Positioned, InRead, PagesAreRead, Intact, Slipped
<1> QED
  BY <1>1, ControllerInvariant, PTL

\* A Read that ends has put every byte of count * nfc pages in the ring, or none
\* if it follows a Read: no byte is dropped for want of room, whatever the length
\* and however slowly the guest reads (i7220.c:375, 469-487).
THEOREM EveryByteMoved ==
  ASSUME Driving
  PROVE  ControllerSpec => []ReadMovesEverything
<1>1. ControllerTypeOK /\ ControllerInv => ReadMovesEverything
  <2> SUFFICES ASSUME ControllerTypeOK, ControllerInv, pc["bubble"] = "page",
                      regBubbleCounter = regBubbleLimit, ~Slipped
               PROVE  moved = IF prev = cmdReadBubbleData THEN 0
                              ELSE PageBytes * regBlockLenCount * regBlockLen_nfc
    BY DEF ReadMovesEverything
  <2>1. Moved /\ lastCommand = prev
    BY DEF ControllerInv, Intact, Slipped
  <2>2. prev # cmdReadBubbleData =>
          moved = PageBytes * (regBlockLenCount * regBlockLen_nfc) + 0
    BY <2>1 DEF Moved
  <2>3. PageBytes * (regBlockLenCount * regBlockLen_nfc)
          = PageBytes * regBlockLenCount * regBlockLen_nfc
    BY RegsTyped, ProductAssociates, ControllerAssumption DEF ControllerTypeOK
  <2>4. PageBytes * (regBlockLenCount * regBlockLen_nfc) \in Nat
    BY RegsTyped, ProductNat, ControllerAssumption DEF ControllerTypeOK
  <2> QED
    BY <2>1, <2>2, <2>3, <2>4 DEF Moved
<1> QED
  BY <1>1, ControllerInvariant, PTL
=============================================================================

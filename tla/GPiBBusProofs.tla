---------------------------- MODULE GPiBBusProofs ----------------------------
(***************************************************************************)
(* What GPiBBus checks on a table of three slots, for a table of any size, *)
(* any set of lines and calls nested to any depth.                         *)
(***************************************************************************)
EXTENDS GPiBBus, SequenceTheorems, TLAPS

-----------------------------------------------------------------------------
(* The stack *)

\* What is left when the innermost call returns.
LEMMA ReturnIs ==
  ASSUME NEW s \in Seq(Frames), s # <<>>
  PROVE  LET r == SubSeq(s, 1, Len(s) - 1) IN
         /\ r \in Seq(Frames)
         /\ Len(s) \in Nat \ {0} /\ Len(r) = Len(s) - 1
         /\ \A n \in 1 .. Len(s) - 1 : r[n] = s[n]
         /\ s[Len(s)] \in Frames
<1>1. Len(s) \in Nat \ {0}
  BY EmptySeq
<1>2. \A n \in 1 .. Len(s) : s[n] \in Frames
  BY ElementOfSeq
<1>3. \A n \in 1 .. Len(s) - 1 : s[n] \in Frames
  BY <1>1, <1>2
<1>4. \A n \in 1 .. Len(s) - 1 : 1 + n - 1 = n
  BY <1>1
<1> DEFINE m == Len(s) - 1
<1>5. /\ SubSeq(s, 1, m) \in Seq(Frames)
      /\ Len(SubSeq(s, 1, m)) = IF 1 <= m THEN m - 1 + 1 ELSE 0
      /\ \A n \in 1 .. m - 1 + 1 : SubSeq(s, 1, m)[n] = s[1 + n - 1]
  <2>1. m \in Int /\ \A n \in 1 .. m : s[n] \in Frames
    BY <1>1, <1>3
  <2> HIDE DEF m
  <2> QED
    BY <2>1, SubSeqProperties
<1>6. /\ Len(SubSeq(s, 1, m)) = m
      /\ \A n \in 1 .. m : SubSeq(s, 1, m)[n] = s[n]
  <2>1. m \in Nat
    BY <1>1
  <2> HIDE DEF m
  <2> QED
    BY <2>1, <1>5
<1> QED
  BY <1>1, <1>2, <1>5, <1>6

\* Calling and becoming keep the frames below.
LEMMA BecomeIs ==
  ASSUME NEW s \in Seq(Frames), s # <<>>, NEW f \in Frames
  PROVE  LET b == Append(SubSeq(s, 1, Len(s) - 1), f) IN
         /\ b \in Seq(Frames) /\ b # <<>>
         /\ Len(b) = Len(s)
         /\ \A n \in 1 .. Len(s) - 1 : b[n] = s[n]
         /\ b[Len(s)] = f
<1> DEFINE r == SubSeq(s, 1, Len(s) - 1)
<1>1. /\ r \in Seq(Frames)
      /\ Len(s) \in Nat \ {0} /\ Len(r) = Len(s) - 1
      /\ \A n \in 1 .. Len(s) - 1 : r[n] = s[n]
  BY ReturnIs
<1> HIDE DEF r
<1>2. /\ Append(r, f) \in Seq(Frames) /\ Append(r, f) # <<>>
      /\ Len(Append(r, f)) = Len(r) + 1
      /\ \A n \in 1 .. Len(r) : Append(r, f)[n] = r[n]
      /\ Append(r, f)[Len(r) + 1] = f
  BY <1>1, AppendProperties
<1>3. /\ Append(r, f) \in Seq(Frames) /\ Append(r, f) # <<>>
      /\ Len(Append(r, f)) = Len(s)
      /\ \A n \in 1 .. Len(s) - 1 : Append(r, f)[n] = s[n]
      /\ Append(r, f)[Len(s)] = f
  BY <1>1, <1>2
<1> QED
  BY <1>3 DEF r

\* The frames notify uses are frames.
LEMMA FrameTypes ==
  ASSUME NEW i \in Ids, NEW n \in 0 .. DEVICE_COUNT
  PROVE  /\ Waiting(i) \in Frames /\ Locked(i) \in Frames
         /\ Calling(i, n) \in Frames /\ Receiving(i) \in Frames
BY BusAssumption DEF Waiting, Locked, Calling, Receiving, Frames

-----------------------------------------------------------------------------
(* The invariant *)

\* A notify in progress is still going to call client i.
Covered(i) == \E n \in 1 .. Len(stack) : /\ stack[n].at = "call"
                                         /\ i # stack[n].who
                                         /\ i >= stack[n].next

\* Every client knows the bus or is about to be told.
Told == \A i \in used : seen[i] = bus \/ Covered(i)

\* A slot nobody has registered holds what the globals or GPiBinit left there.
Untouched == IF initialised THEN {} ELSE Lines
Fresh == \A i \in Ids \ used : low[i] = Untouched
Empty == used = {} => stack = <<>> /\ bus = Untouched

\* Whoever holds the mutex is the innermost call, until a registration fails.
Held == mutex /\ ~leaked => InFrame("locked")

BusInv == TypeOK /\ Told /\ BusIsWiredAnd /\ Fresh /\ Empty /\ Held

\* The zeroed globals satisfy it.
LEMMA InitBusInv == Init => BusInv
BY EmptySeq DEF Init, BusInv, TypeOK, Told, BusIsWiredAnd, Fresh, Empty, Held,
                Untouched

\* The innermost frame is a frame.
LEMMA TopIs ==
  ASSUME TypeOK, stack # <<>>
  PROVE  /\ Len(stack) \in Nat \ {0}
         /\ Top \in Frames /\ Top.who \in Ids /\ Top.next \in 0 .. DEVICE_COUNT
<1>1. stack \in Seq(Frames)
  BY DEF TypeOK
<1>2. Len(stack) \in Nat \ {0} /\ stack[Len(stack)] \in Frames
  BY <1>1, ReturnIs
<1> QED
  BY <1>2 DEF Top, Frames

-----------------------------------------------------------------------------
(* The invariant is kept by every action *)

\* A write changes one client's lines and waits for the mutex (64-67).
LEMMA PullKeeps ==
  ASSUME BusInv, NEW i \in Ids, NEW S \in SUBSET Lines, Pull(i, S)
  PROVE  BusInv'
<1> USE DEF BusInv
<1>1. stack \in Seq(Frames) /\ Waiting(i) \in Frames
  BY FrameTypes, BusAssumption DEF TypeOK
<1>2. /\ stack' \in Seq(Frames) /\ stack' # <<>> /\ Len(stack) \in Nat
      /\ Len(stack') = Len(stack) + 1
      /\ \A n \in 1 .. Len(stack) : stack'[n] = stack[n]
      /\ stack'[Len(stack) + 1] = Waiting(i)
  BY <1>1, AppendProperties, LenProperties DEF Pull
<1>3. TypeOK'
  BY <1>2 DEF Pull, TypeOK, traces
<1>4. \A j \in Ids : Covered(j) => Covered(j)'
  BY <1>2 DEF Covered
<1>5. Told'
  BY <1>4 DEF Told, Pull, TypeOK, traces
<1>6. Top'.at = "lock"
  BY <1>2 DEF Top, Waiting
<1>7. BusIsWiredAnd'
  BY <1>2, <1>6 DEF BusIsWiredAnd
<1>8. i \in used
  BY DEF Pull, Runs
<1>9. Fresh' /\ Empty'
  BY <1>8 DEF Fresh, Empty, Untouched, Pull, TypeOK, traces
<1>10. Held'
  BY DEF Held, Pull, Runs, InFrame, traces
<1> QED
  BY <1>3, <1>5, <1>7, <1>9, <1>10

\* Taking the mutex changes nothing anybody sees (44).
LEMMA LocksKeeps == ASSUME BusInv, NotifyLocks PROVE BusInv'
<1> USE DEF BusInv
<1>1. stack \in Seq(Frames) /\ stack # <<>> /\ Locked(Top.who) \in Frames
  BY TopIs, FrameTypes, BusAssumption DEF TypeOK, NotifyLocks, InFrame
<1>2. /\ stack' \in Seq(Frames) /\ stack' # <<>>
      /\ Len(stack) \in Nat \ {0} /\ Len(stack') = Len(stack)
      /\ \A n \in 1 .. Len(stack) - 1 : stack'[n] = stack[n]
      /\ stack'[Len(stack)] = Locked(Top.who)
  BY <1>1, BecomeIs, EmptySeq DEF NotifyLocks, Become, Return
<1>3. TypeOK'
  BY <1>2 DEF NotifyLocks, TypeOK, table, traces
<1>4. stack[Len(stack)].at = "lock"
  BY DEF NotifyLocks, InFrame, Top
<1>5. \A j \in Ids : Covered(j) => Covered(j)'
  BY <1>2, <1>4 DEF Covered
<1>6. Told'
  BY <1>5 DEF Told, NotifyLocks, TypeOK, table, traces
<1>7. stack' # <<>> /\ Top'.at = "locked"
  BY <1>2 DEF Top, Locked
<1>8. BusIsWiredAnd' /\ Held'
  BY <1>7 DEF BusIsWiredAnd, Held, InFrame
<1>9. Fresh' /\ Empty'
  BY <1>1 DEF Fresh, Empty, Untouched, NotifyLocks, table, traces
<1> QED
  BY <1>3, <1>6, <1>8, <1>9

\* The author of the new bus knows it; all others are still to be called (46-55).
LEMMA ComputesKeeps == ASSUME BusInv, NotifyComputes PROVE BusInv'
<1> USE DEF BusInv
<1>1. /\ stack \in Seq(Frames) /\ stack # <<>>
      /\ Top.who \in Ids /\ Calling(Top.who, 0) \in Frames
  BY TopIs, FrameTypes, BusAssumption DEF TypeOK, NotifyComputes, InFrame
<1>2. /\ stack' \in Seq(Frames) /\ stack' # <<>>
      /\ Len(stack) \in Nat \ {0} /\ Len(stack') = Len(stack)
      /\ stack'[Len(stack)] = Calling(Top.who, 0)
  BY <1>1, BecomeIs, EmptySeq DEF NotifyComputes, Become, Return
<1>3. WiredAnd \subseteq Lines /\ WiredAnd' = WiredAnd
  BY DEF WiredAnd, TypeOK, NotifyComputes, table
<1>4. TypeOK'
  BY <1>1, <1>2, <1>3 DEF NotifyComputes, TypeOK, table
<1>5. \A j \in Ids : j # Top.who => Covered(j)'
  BY <1>2 DEF Covered, Calling, Ids
<1>6. Told'
  BY <1>1, <1>5 DEF Told, NotifyComputes, TypeOK, table
<1>7. BusIsWiredAnd'
  BY <1>3 DEF BusIsWiredAnd, NotifyComputes
<1>8. Fresh' /\ Empty' /\ Held'
  BY <1>1 DEF Fresh, Empty, Held, Untouched, NotifyComputes, table
<1> QED
  BY <1>4, <1>6, <1>7, <1>8

\* The client called knows the bus; those after it are still covered (57-60).
LEMMA CallsKeeps == ASSUME BusInv, NotifyCalls PROVE BusInv'
<1> USE DEF BusInv
<1>0. PICK k \in Ids : /\ First(k, ToCall(Top))
                       /\ seen' = [seen EXCEPT ![k] = bus]
                       /\ stack' = Append(Become(Calling(Top.who, k + 1)), Receiving(k))
  BY DEF NotifyCalls
<1>1. /\ stack \in Seq(Frames) /\ stack # <<>>
      /\ Top.who \in Ids /\ k + 1 \in 0 .. DEVICE_COUNT
      /\ Calling(Top.who, k + 1) \in Frames /\ Receiving(k) \in Frames
  BY TopIs, FrameTypes, BusAssumption DEF TypeOK, NotifyCalls, InFrame, Ids
<1> DEFINE b == Become(Calling(Top.who, k + 1))
<1>2. /\ b \in Seq(Frames) /\ Len(stack) \in Nat \ {0} /\ Len(b) = Len(stack)
      /\ \A n \in 1 .. Len(stack) - 1 : b[n] = stack[n]
      /\ b[Len(stack)] = Calling(Top.who, k + 1)
  BY <1>1, BecomeIs, EmptySeq DEF Become, Return
<1>3. /\ stack' \in Seq(Frames) /\ stack' # <<>>
      /\ Len(stack') = Len(stack) + 1
      /\ \A n \in 1 .. Len(stack) - 1 : stack'[n] = stack[n]
      /\ stack'[Len(stack)] = Calling(Top.who, k + 1)
      /\ stack'[Len(stack) + 1] = Receiving(k)
  <2> HIDE DEF b
  <2>1. stack' = Append(b, Receiving(k))
    BY <1>0 DEF b
  <2> QED
    BY <1>1, <1>2, <2>1, AppendProperties
<1>4. TypeOK'
  BY <1>0, <1>3 DEF NotifyCalls, TypeOK, table
<1>5. \A j \in used : j # k /\ Covered(j) => Covered(j)'
  <2> SUFFICES ASSUME NEW j \in used, j # k, Covered(j)
               PROVE  Covered(j)'
    OBVIOUS
  <2>1. PICK n \in 1 .. Len(stack) : /\ stack[n].at = "call" /\ j # stack[n].who
                                     /\ j >= stack[n].next
    BY DEF Covered
  <2>2. CASE n # Len(stack)
    BY <2>1, <2>2, <1>2, <1>3 DEF Covered
  <2>3. CASE n = Len(stack)
    <3>1. j \in ToCall(Top)
      BY <2>1, <2>3 DEF ToCall, Top
    <3>2. j >= k + 1
      BY <1>0, <3>1, BusAssumption DEF First, TypeOK, Ids
    <3> QED
      BY <3>2, <2>1, <2>3, <1>2, <1>3 DEF Covered, Calling, Top
  <2> QED
    BY <2>2, <2>3
<1>6. Told'
  BY <1>0, <1>5 DEF Told, NotifyCalls, TypeOK, table
<1>7. stack' # <<>> /\ Top.at = "call"
  BY <1>3 DEF NotifyCalls, InFrame
<1>8. BusIsWiredAnd'
  BY <1>1, <1>7 DEF BusIsWiredAnd, NotifyCalls, table, WiredAnd
<1>9. Fresh' /\ Empty' /\ Held'
  BY <1>1, <1>7 DEF Fresh, Empty, Held, Untouched, NotifyCalls, table, InFrame
<1> QED
  BY <1>4, <1>6, <1>8, <1>9

\* A call returns only when it covers nobody any more (61).
LEMMA ReturnKeeps ==
  ASSUME BusInv, NotifyReturns \/ ReceiverReturns
  PROVE  BusInv'
<1> USE DEF BusInv
<1> USE DEF NotifyReturns, ReceiverReturns
<1>1. stack \in Seq(Frames) /\ stack # <<>> /\ Top.at \in {"call", "receiver"}
  BY DEF TypeOK, InFrame
<1>2. /\ stack' \in Seq(Frames)
      /\ Len(stack) \in Nat \ {0} /\ Len(stack') = Len(stack) - 1
      /\ \A n \in 1 .. Len(stack) - 1 : stack'[n] = stack[n]
  BY <1>1, ReturnIs DEF Return
<1>3. TypeOK'
  BY <1>2 DEF TypeOK, table, traces
<1>4. \A j \in used : Covered(j) => Covered(j)'
  <2> SUFFICES ASSUME NEW j \in used, Covered(j)
               PROVE  Covered(j)'
    OBVIOUS
  <2>1. PICK n \in 1 .. Len(stack) : /\ stack[n].at = "call" /\ j # stack[n].who
                                     /\ j >= stack[n].next
    BY DEF Covered
  <2>2. n # Len(stack)
    BY <2>1 DEF ToCall, Top, InFrame
  <2> QED
    BY <2>1, <2>2, <1>2 DEF Covered
<1>5. Told'
  BY <1>4 DEF Told, TypeOK, table, traces
<1>6. BusIsWiredAnd'
  BY <1>1 DEF BusIsWiredAnd, table, traces, WiredAnd
<1>7. Fresh' /\ Empty' /\ Held'
  BY <1>1 DEF Fresh, Empty, Held, Untouched, InFrame, table, traces
<1> QED
  BY <1>3, <1>5, <1>6, <1>7

\* The operations that leave the stack alone.
LEMMA RegistrationKeeps ==
  ASSUME BusInv, GPiBinit \/ Register \/ RegisterFails
  PROVE  BusInv'
<1> USE DEF BusInv
<1>1. CASE GPiBinit
  <2>1. TypeOK'
    BY <1>1 DEF GPiBinit, TypeOK
  <2> QED
    BY <1>1, <2>1 DEF GPiBinit, Told, BusIsWiredAnd, Fresh, Empty, Held, Untouched
<1>2. CASE Register
  <2>1. PICK i \in Ids : /\ First(i, Ids \ used)
                         /\ used' = used \cup {i}
                         /\ seen' = [seen EXCEPT ![i] = bus]
    BY <1>2 DEF Register
  <2>2. TypeOK'
    BY <1>2, <2>1 DEF Register, TypeOK
  <2>3. stack = <<>> /\ stack' = <<>> /\ low' = low /\ bus' = bus
        /\ initialised' = initialised /\ i \notin used
    BY <1>2, <2>1 DEF Register, First
  <2>4. Told'
    <3>1. \A j \in used : seen[j] = bus
      BY <2>3, EmptySeq DEF Told, Covered, TypeOK
    <3> QED
      BY <2>1, <2>3, <3>1 DEF Told, TypeOK
  <2>5. low[i] = Untouched
    BY <2>3 DEF Fresh
  <2>6. WiredAnd' = WiredAnd \cup low[i]
    BY <2>1, <2>3 DEF WiredAnd
  <2>7. BusIsWiredAnd'
    <3>1. CASE used = {}
      BY <3>1, <2>3, <2>5, <2>6 DEF BusIsWiredAnd, Empty, WiredAnd
    <3>2. CASE used # {} /\ initialised
      BY <3>2, <2>3, <2>5, <2>6 DEF BusIsWiredAnd, Untouched
    <3>3. CASE used # {} /\ ~initialised
      <4>1. ~ \E j \in Ids : used' = {j}
        BY <3>3, <2>1, <2>3
      <4> QED
        BY <3>3, <2>3, <4>1 DEF BusIsWiredAnd
    <3> QED
      BY <3>1, <3>2, <3>3
  <2>8. Fresh' /\ Empty' /\ Held'
    BY <1>2, <2>1, <2>3 DEF Fresh, Empty, Held, Untouched, Register
  <2> QED
    BY <2>2, <2>4, <2>7, <2>8
<1>3. CASE RegisterFails
  <2>1. TypeOK' /\ Told'
    BY <1>3 DEF RegisterFails, TypeOK, Told, Covered, table
  <2>2. BusIsWiredAnd' /\ Fresh' /\ Empty' /\ Held'
    BY <1>3 DEF RegisterFails, BusIsWiredAnd, WiredAnd, Fresh, Empty, Held,
                Untouched, table, Top
  <2> QED
    BY <2>1, <2>2
<1> QED
  BY <1>1, <1>2, <1>3

\* A client that reads the bus knows it (31-41).
LEMMA GetKeeps == ASSUME BusInv, NEW i \in Ids, Get(i) PROVE BusInv'
<1>1. TypeOK' /\ Told'
  BY DEF BusInv, Get, TypeOK, Told, Covered, table
<1>2. BusIsWiredAnd' /\ Fresh' /\ Empty' /\ Held'
  BY DEF BusInv, Get, BusIsWiredAnd, WiredAnd, Fresh, Empty, Held, Untouched,
         table, Top, InFrame
<1> QED
  BY <1>1, <1>2 DEF BusInv

\* Every step keeps the invariant.
LEMMA NextBusInv == BusInv /\ [Next]_vars => BusInv'
<1> SUFFICES ASSUME BusInv, [Next]_vars
             PROVE  BusInv'
  OBVIOUS
<1>1. ASSUME NEW i \in Ids, Write(i)
      PROVE  BusInv'
  <2>1. \E S \in SUBSET Lines : Pull(i, S)
    <3>1. low[i] \subseteq Lines
      BY DEF BusInv, TypeOK
    <3>2. CASE PinWrite(i)
      BY <3>1, <3>2 DEF PinWrite, Lines
    <3>3. CASE GPiBbusStatusWrite(i)
      BY <3>1, <3>3 DEF GPiBbusStatusWrite, Lines
    <3>4. CASE GPiBbusDataWrite(i)
      BY <3>1, <3>4 DEF GPiBbusDataWrite, Lines
    <3> QED
      BY <1>1, <3>2, <3>3, <3>4 DEF Write
  <2> QED
    BY <2>1, PullKeeps
<1>2. CASE UNCHANGED vars
  BY <1>2 DEF BusInv, TypeOK, Told, Covered, BusIsWiredAnd, WiredAnd, Fresh,
              Empty, Held, Untouched, Top, InFrame, vars, table, traces
<1> QED
  BY <1>1, <1>2, LocksKeeps, ComputesKeeps, CallsKeeps, ReturnKeeps,
     RegistrationKeeps, GetKeeps DEF Next, Notify

-----------------------------------------------------------------------------
(* The theorems *)

\* So it holds for ever.
LEMMA BusInvAlways == Spec => []BusInv
BY InitBusInv, NextBusInv, PTL DEF Spec

\* The table and the stack keep their types (GPiB_bus.c:12-18, 160-199).
THEOREM TypeCorrect == Spec => []TypeOK
<1>1. BusInv => TypeOK
  BY DEF BusInv
<1> QED
  BY <1>1, BusInvAlways, PTL

\* What a program or a receiver function sees on the bus is the wired AND of
\* the clients, for any number of them and any nesting (GPiB_bus.c:43-62).
THEOREM WiredAndCorrect == Spec => []BusIsWiredAnd
<1>1. BusInv => BusIsWiredAnd
  BY DEF BusInv
<1> QED
  BY <1>1, BusInvAlways, PTL

\* When the outermost write returns, every client knows the bus as it is,
\* although notify was re-entered while it was calling (GPiB_bus.c:57-61).
THEOREM AllInformed == Spec => []EveryoneInformed
<1>1. BusInv => EveryoneInformed
  BY EmptySeq DEF BusInv, Told, Covered, EveryoneInformed
<1> QED
  BY <1>1, BusInvAlways, PTL

\* The mutex is free for whoever may ask for it (GPiB_bus.c:20-25), until a
\* registration has failed.
THEOREM MutexFree == Spec => []NeverStuck
<1>1. BusInv => NeverStuck
  BY DEF BusInv, Held, NeverStuck, InFrame, Runs
<1> QED
  BY <1>1, BusInvAlways, PTL
==============================================================================

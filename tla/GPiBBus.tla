------------------------------- MODULE GPiBBus -------------------------------
(***************************************************************************)
(* The GPIB bus of src/src/GPiB_bus.c: a table of clients, each holding    *)
(* the lines it pulls, and the bus as the wired AND of the clients in use. *)
(* A client that writes has every other client called back, and a callback *)
(* may use the bus itself: notify is re-entered while it is still calling. *)
(*                                                                         *)
(* One thread uses the bus, so a call is a frame of its stack, and a       *)
(* caller that finds mutex taken spins for ever: its step is not enabled.  *)
(* The status byte and the data byte are the set of their lines that are   *)
(* low (logic 0): the AND of bytes is the union of sets.                   *)
(***************************************************************************)
EXTENDS Integers, Sequences

CONSTANTS
  DEVICE_COUNT,     \* slots of the clients table (16)
  StatusPins,       \* the eight management and handshake lines
  DataPins,         \* the eight data lines
  MaxDepth          \* bound: calls in progress at once

ASSUME BusAssumption ==
  /\ DEVICE_COUNT \in Nat \ {0}
  /\ StatusPins \cap DataPins = {}
  /\ MaxDepth \in Nat \ {0}

VARIABLES
  used,             \* slots in use
  low,              \* per slot: the lines its client pulls low
  bus,              \* GPiBbusStatus and GPiBbusData: the lines that are low
  mutex,
  stack,            \* calls in progress, innermost last
  seen,             \* history: per slot, the bus its client was last told of
  initialised,      \* history: has GPiBinit run?
  leaked            \* history: has a registration failed?

table  == <<used, low>>
traces == <<seen, initialised, leaked>>
vars   == <<table, bus, mutex, stack, traces>>

Ids   == 0 .. DEVICE_COUNT - 1
Lines == StatusPins \cup DataPins

\* A notify of author: waiting for the mutex, holding it, then calling slots
\* next and up.
Waiting(author)       == [at |-> "lock", who |-> author, next |-> 0]
Locked(author)        == [at |-> "locked", who |-> author, next |-> 0]
Calling(author, next) == [at |-> "call", who |-> author, next |-> next]
\* The receiver function of client who.
Receiving(who)        == [at |-> "receiver", who |-> who, next |-> 0]

Frames == [at : {"lock", "locked", "call", "receiver"}, who : Ids,
           next : 0 .. DEVICE_COUNT]

Top       == stack[Len(stack)]
Return    == SubSeq(stack, 1, Len(stack) - 1)
Become(f) == Append(Return, f)
InFrame(at) == stack # <<>> /\ Top.at = at

\* Client i has the thread: its program, or its receiver function.
Runs(i) == i \in used /\ (stack = <<>> \/ (InFrame("receiver") /\ Top.who = i))

-----------------------------------------------------------------------------
(* GPiBinit and GPiBregisterClient *)

GPiBinit ==
  /\ stack = <<>> /\ ~mutex
  /\ used' = {} /\ low' = [i \in Ids |-> {}] /\ bus' = {}
  /\ seen' = [i \in Ids |-> {}]
  /\ initialised' = TRUE
  /\ UNCHANGED <<mutex, stack, leaked>>

\* GRiBsearchFirstFreeClient, and the scan of notify.
First(i, S) == i \in S /\ \A j \in S : i <= j

\* The slot keeps the lines it had; the bus is not computed again.
Register ==
  /\ stack = <<>> /\ ~mutex
  /\ \E i \in Ids : /\ First(i, Ids \ used)
                    /\ used' = used \cup {i}
                    /\ seen' = [seen EXCEPT ![i] = bus]
  /\ UNCHANGED <<low, bus, mutex, stack, initialised, leaked>>

\* No free slot: the early return leaves mutex taken.
RegisterFails ==
  /\ stack = <<>> /\ ~mutex
  /\ used = Ids
  /\ mutex' = TRUE /\ leaked' = TRUE
  /\ UNCHANGED <<table, bus, stack, seen, initialised>>

-----------------------------------------------------------------------------
(* The write functions and notify *)

\* Client i pulls the lines of S from now on, and calls notify.
Pull(i, S) ==
  /\ Runs(i)
  /\ Len(stack) < MaxDepth
  /\ low' = [low EXCEPT ![i] = S]
  /\ stack' = Append(stack, Waiting(i))
  /\ UNCHANGED <<used, bus, mutex, traces>>

\* GPiBbusSRQwrite, ATNwrite, ..., RENwrite
PinWrite(i) == \E pin \in StatusPins : \/ Pull(i, low[i] \cup {pin})
                                       \/ Pull(i, low[i] \ {pin})

GPiBbusStatusWrite(i) == \E S \in SUBSET StatusPins : Pull(i, S \cup (low[i] \cap DataPins))

GPiBbusDataWrite(i) == \E D \in SUBSET DataPins : Pull(i, D \cup (low[i] \cap StatusPins))

WiredAnd == UNION {low[i] : i \in used}

NotifyLocks ==
  /\ InFrame("lock") /\ ~mutex
  /\ mutex' = TRUE
  /\ stack' = Become(Locked(Top.who))
  /\ UNCHANGED <<table, bus, traces>>

\* Mutants: the lines of the author alone go out; the mutex is kept while the
\* clients are called.
NotifyComputesOwn ==
  /\ InFrame("locked")
  /\ bus' = low[Top.who]
  /\ mutex' = FALSE
  /\ seen' = [seen EXCEPT ![Top.who] = bus']
  /\ stack' = Become(Calling(Top.who, 0))
  /\ UNCHANGED <<table, initialised, leaked>>
NotifyComputesHeld ==
  /\ InFrame("locked")
  /\ bus' = WiredAnd
  /\ seen' = [seen EXCEPT ![Top.who] = bus']
  /\ stack' = Become(Calling(Top.who, 0))
  /\ UNCHANGED <<table, mutex, initialised, leaked>>

NotifyComputes ==
  /\ InFrame("locked")
  /\ bus' = WiredAnd
  /\ mutex' = FALSE
  /\ seen' = [seen EXCEPT ![Top.who] = bus']
  /\ stack' = Become(Calling(Top.who, 0))
  /\ UNCHANGED <<table, initialised, leaked>>

\* Clients notify has still to call.
ToCall(f) == {i \in used \ {f.who} : i >= f.next}

\* Mutant: a notify that was re-entered stops calling.
NotifyCallsOuter ==
  /\ InFrame("call")
  /\ \E k \in Ids :
       /\ First(k, ToCall(Top))
       /\ seen' = [seen EXCEPT ![k] = bus]
       /\ stack' = Append(Become(Calling(Top.who, DEVICE_COUNT)), Receiving(k))
  /\ UNCHANGED <<table, bus, mutex, initialised, leaked>>

\* The next client's receiver function is called, with mutex free.
NotifyCalls ==
  /\ InFrame("call")
  /\ \E k \in Ids :
       /\ First(k, ToCall(Top))
       /\ seen' = [seen EXCEPT ![k] = bus]
       /\ stack' = Append(Become(Calling(Top.who, k + 1)), Receiving(k))
  /\ UNCHANGED <<table, bus, mutex, initialised, leaked>>

NotifyReturns ==
  /\ InFrame("call") /\ ToCall(Top) = {}
  /\ stack' = Return
  /\ UNCHANGED <<table, bus, mutex, traces>>

ReceiverReturns ==
  /\ InFrame("receiver")
  /\ stack' = Return
  /\ UNCHANGED <<table, bus, mutex, traces>>

\* The get functions: wait for the mutex, then look at the bus.
Get(i) == Runs(i) /\ ~mutex /\ seen' = [seen EXCEPT ![i] = bus]
            /\ UNCHANGED <<table, bus, mutex, stack, initialised, leaked>>

-----------------------------------------------------------------------------
\* Before GPiBinit the globals are all zero: every line of every slot is low.
Init ==
  /\ used = {} /\ low = [i \in Ids |-> Lines] /\ bus = Lines
  /\ mutex = FALSE
  /\ stack = <<>>
  /\ seen = [i \in Ids |-> Lines]
  /\ initialised = FALSE /\ leaked = FALSE

Notify == NotifyLocks \/ NotifyComputes \/ NotifyCalls \/ NotifyReturns \/ ReceiverReturns

Write(i) == PinWrite(i) \/ GPiBbusStatusWrite(i) \/ GPiBbusDataWrite(i)

Next == \/ GPiBinit \/ Register \/ RegisterFails
        \/ Notify
        \/ \E i \in Ids : Write(i) \/ Get(i)

Spec == Init /\ [][Next]_vars

-----------------------------------------------------------------------------
(* Properties *)

TypeOK ==
  /\ used \subseteq Ids
  /\ low \in [Ids -> SUBSET Lines] /\ seen \in [Ids -> SUBSET Lines]
  /\ bus \subseteq Lines
  /\ stack \in Seq(Frames)
  /\ mutex \in BOOLEAN /\ initialised \in BOOLEAN /\ leaked \in BOOLEAN

\* Once GPiBinit has run, the bus a program or a receiver function sees is the
\* wired AND of all clients, also when a receiver writes in the middle of
\* somebody else's notify (GPiB_bus.c:43-62).  Without GPiBinit, as in the
\* emulator, it is so for one client only: a slot starts with every line low
\* and registering does not compute the bus.
BusIsWiredAnd ==
  /\ stack = <<>> \/ Top.at \in {"call", "receiver"}
  /\ used # {}
  /\ initialised \/ \E i \in Ids : used = {i}
  => bus = WiredAnd

\* When the outermost write returns, every client has been called back with
\* the bus as it is now, or has set it that way itself, whatever the receivers
\* wrote in between (GPiB_bus.c:57-61).
EveryoneInformed == stack = <<>> => \A i \in used : seen[i] = bus

\* Nobody waits for the mutex in vain: it is free when a notify asks for it and
\* while a program or a receiver function may call the bus (20-25, 55-59),
\* unless a registration has failed: the early return of line 192 keeps it.
NeverStuck == InFrame("lock") \/ (\E i \in used : Runs(i)) => ~mutex \/ leaked
==============================================================================

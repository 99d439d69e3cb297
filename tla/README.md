# Verification of the GRiD Compass emulator

TLA+ models of the GRiD Compass 1101 emulator (`src/src/`, C, SDL and pthreads),
TLC runs that check them on small instances, and TLAPS proofs for every value of
the constants. Line numbers below are those of the files in `src/src/`, except
where `src/removed/` is named: that directory keeps the two devices the emulator's
bubble and GPIB controllers are ported from, the reference the port is read against.

## 1. The system

The emulator is a main loop (`main.c:120-164`): call the timers that are due,
take a pending interrupt, execute one guest instruction, and every hundredth
turn draw the screen and poll one host event. Everything runs on that thread,
except `bubble_thread` (`i7220.c:310-319`), which executes the commands of the
bubble memory controller. The build (`Makefile`) has no optimisation, the shared
variables are plain or `volatile` bytes, and there is no lock but two hand-made
flags that are tested and then set (`fifoLock`, `lock`).

| Component | State it keeps | Operations | Talks to |
|---|---|---|---|
| Bubble memory controller, `i7220.c` | registers `regRAC`, `regArray`, `regStatus`; the FIFO (`fifoArray`, `fifo_head`, `fifo_tail`, `fifo_size`, `fifoLock`); `bubbleCommand`, `mainExecPhase`, `lastCommand`, page counters | `bubble_read`, `bubble_write` (main thread); `bubble_thread`, `commandStart`, `commandReadBubbleData`, `commandEnd`; `fifo_clear`, `fifo_pop`, `fifo_push`, `update_drq` | shared memory between two threads; raises `irqBubble` from both |
| Interrupt controller, `i8259.c` | `irr`, `isr`, `imr`, `icw`, `icwstep`, `readmode`, `lock` | `i8259_read`, `i8259_write`, `i8259_setirq`, `i8259_haveInt`, `i8259_nextintr` | called by device callbacks, the CPU and `bubble_thread` |
| Main loop and interrupt half of the CPU, `main.c`, `cpu.c:1242-1301` | `ifl`, `tf`, `trap_toggle`, `hltstate`, the frames on the guest's stack | `cpu_interruptCheck`, `cpu_intcall`, head of `cpu_exec`; STI, CLI, HLT, POPF, IRET, OUT | 8259 |
| Timer service, `timing.c` | the timer table, `timing_cur` | `timing_loop`, add, update, enable, disable, `timing_getCur` | calls the keyboard tick and the scan line back |
| Keyboard controller, `i8741a.c` | scan-code slot, `busData`, `configRegister`, `wdt1`, `globalState` | `getScanCode`, tick callback, guest reads and writes | fed by the console, raises `irqKeyboard` |
| Host console, `sdlconsole.c` | `sdlconsole_modKeys`, `sdlconsole_curkey` | `sdlconsole_loop` | feeds the keyboard |
| GPIB bus, `GPiB_bus.c` | client table, wired-AND bus, `mutex` | register, 8 pin writes, status and data writes, gets, `notify` with callbacks | TMS9914A; a test program in `GPiB_bus_module` |
| TMS9914A, `tms9914a.c` | `auxBits`, controller state | memory-mapped reads and writes, `do_aux_cmd` | a stub at this commit |
| its reference, `removed/tms9914.cpp` | 13 registers, 9 state machines, 3 timers | register accesses, auxiliary commands, `update_fsm`, calls for line changes | other chips on the same bus, the guest's interrupt line |
| reference bubble controller, `removed/i7220.cpp` | FIFO, registers, phase and state of the command, image | `read`, `write`, `general_continue` | the guest, its own timer |
| CPU instructions, `cpu.c` | registers, flags, prefixes | `cpu_exec` with `op_*`, `flag_*`, `getea`, `push`, `pop` | memory, ports; `cpu_intcall` on a divide error |
| Memory map, `memory.c`; ports, `ports.c` | pointer and callback tables | register, read, write | CPU and devices |
| Machine set-up, `main.c`, `args.c`, `machine.c`, `utility.c` | options, speed, the tables it fills | parse, allocate, load the ROM, init every device | host files, window, threads |
| Screen, `gridvideo.c` | `gridvideo_RAM`, `gridvideo_doDraw`, frame buffer | guest accesses, `gridvideo_update`, scan line | memory map, 8259 |
| Clock, `rtc.c` | none: the host's time | register reads | the guest |
| UART, modem, DMA stubs; `debuglog.c` | none | constants; text output | |

`removed/`, `crap/` and `src/tms9914a_old/` are not built. Of these the two
references are modelled, because the comments of the port defer to them
(`tms9914a.c:78`: "need to implement. Dohh! 900 lines of code. //update_fsm()"):
their models say what a finished port has to do.

### What is hard, and what makes it correct

* **Two threads without locks.** `regStatus`, `fifo_size`, `irr` are updated by
  load and store from both threads, and both flags that should protect them are
  tested and set in two steps. What has to survive: bytes in order and once
  each, a fill count and a FIFO READY bit that follow the ring, a BUSY that goes
  off, requests that are neither lost nor delivered twice; and where an update
  *is* lost, nothing more may break than that.
* **Spinning.** `fifo_pop`, `fifo_push` and `i8259_setirq` wait in a loop. On the
  main thread that stops the whole emulator.
* **Order of shared accesses.** `commandEnd` clears BUSY before it sets
  `PHASE_IDLE` and before `lastCommand` is read: a command issued in between is
  lost or changes what the next Read does.
* **Time.** A timer loop that is late must catch up without a flood and without
  losing phase.
* **One-byte buffers.** The keyboard slot and the data port are overwritten; the
  newest must win and the watchdog byte must not vanish unseen.
* **Flags across instructions.** A sum of several limbs passes its carry through
  INC, LOOP and whatever an interrupt handler does; a repeated string instruction
  leaves the CPU between iterations and has to come back to the right one.
* **Re-entry.** A GPIB receiver function may write the bus from inside `notify`; a
  TMS9914 that changes a line calls every chip, itself included, before the write
  returns, and each may change further lines. A change that comes while
  `update_fsm()` runs must not be forgotten.
* **Handshakes and hand-overs.** Every listener has to hear every byte once, hold-offs
  have to be released by somebody, and a controller that takes the bus back must
  not talk over the talker.
* **Register addresses the chip does not have.** The bubble controller stores whatever
  address the guest has selected at `regArray[regRAC - 10]` (`i7220.c:266`); below 10
  that is in front of the array.
* **A clock read digit by digit**, while the host's time goes on.

The list of hazards, each with its line and the properties aimed at it, is
`hazards` in `PROJECT.json`.

## 2. Modules

| Module | Models | Notes |
|---|---|---|
| `LossyFifo` | abstract: a bounded queue whose producer offers and whose consumer takes, and may drop only after damage | refined by `BubbleFifo` |
| `BubbleFifo` | `fifo_clear`, `fifo_pop`, `fifo_push`, `update_drq` | one action per access to shared memory; `pc`, `val`, `idx`, `acc`, `bits` are the control point and the registers of each thread |
| `BubbleController` (EXTENDS `BubbleFifo`) | the two ports, `bubble_thread`, `commandStart`, `commandReadBubbleData`, `commandEnd` | the FIFO steps of `BubbleFifo` are its actions `CpuFifo` and `BubbleFifoStep` |
| `I7220Device` | `removed/i7220.cpp`: the whole device and its image | one action per call from outside |
| `I8259` | the interrupt controller | actions take the control points they go from and to, so that they can be composed |
| `InterruptPath` (EXTENDS `I8259`) | main loop, interrupt half of the CPU, the bubble thread's requests and those the main thread raises itself when an instruction accesses the FIFO (`AccessFifo`) | the composition that is checked |
| `Timing` | timer service | |
| `Keyboard` | console events, keyboard controller | |
| `GPiBBus` | GPIB bus | the C call stack is the variable `stack` |
| `GpibChannel` | abstract: a talker, an audience, mailboxes | refined by `Tms9914` |
| `Tms9914Device` | `removed/tms9914.cpp`: one chip as a record; state machines and register accesses as operators on it | no state of its own |
| `Tms9914` (EXTENDS `Tms9914Device`) | several chips on one bus, the nested calls between them, timers and the processors' programs | `stack` is the C call stack |
| `CpuAlu` | `flag_*`, `op_*`, shifts, multiplication, division, decimal adjustment, the conditions of Jcc | pure operators; the byte and the word form of a function are one operator with the weight of the sign bit as its width |
| `Cpu` (EXTENDS `CpuAlu`) | operands, segments and prefixes, data transfer, stack, near and far jumps, calls and returns, loops, string instructions, interrupts and IRET | one action per family of opcodes; an interrupt may come in front of every instruction |
| `CpuRoutines` (EXTENDS `Cpu`) | guest routines (long sums, decimal sums, divisions, copies, searches, nested calls) and what they must come to | the programs are ours, chosen so that they depend on several instructions being right together |
| `FlatMemory` | abstract: memory that answers what was last written | refined by `Board` |
| `Rtc` | the clock's registers as functions of the host's time | |
| `Board` (EXTENDS `Rtc`) | start-up from the command line to the loop, address and port tables, screen, stubs, the guest's accesses | the tables are kept at a sample of addresses |
| `BubbleControllerProofs` (with those of `BubbleFifo`), `I7220DeviceProofs`, `GPiBBusProofs`, `Tms9914Proofs`, `CpuProofs` (with those of `CpuAlu`), `KeyboardProofs`, `InterruptPathProofs` (with those of `Timing`), `BoardProofs` | theorems | one module per proved component, which it EXTENDS |
| `MC*` | constants for TLC | |

A variable has the name it has in the code. Variables marked *history* in a
module record what a property needs to look back on (a lost update, the sum of
intervals paid) and no action reads them in a guard.

### How the code is abstracted

* **Atomicity.** In `BubbleFifo`, `BubbleController` and `I8259` an action is one
  access to memory that both threads use; `x |= b` and `x++` are a load and a
  store. Memory is sequentially consistent: the variables are bytes that the
  unoptimised build loads and stores in program order, and the properties do not
  depend on store buffers being visible. The store half notes in `clobbered`
  (`slips` in `I8259`; `"ring"` when a clear meets an index in use, `IsTorn`)
  when it overwrites a value newer than the one it loaded:
  that is a lost update, and the properties say what still holds after one.
  Two simplifications: `update_drq` reads its two words in one step (it only ever
  raises a request), and a parametric-register write with its `regUpdate` is one
  step, because the driver writes registers only when no command runs and
  `bubble_thread` reads them only after it has seen the command.
  On the one-threaded components an action is a whole handler.
* **Software Reset** stores to `regArray[10]`, past the six elements; in this
  build the byte is padding, so the model's registers are unchanged.
* **Register addresses 1 to 9** reach in front of `regArray`: in this build 9 is `regRAC`
  itself, 8 to 1 are the bytes of the pointer `bubbleFile`. A store to the first sets the
  address (`WriteOnAddress`), one to the others makes `bubbleFile` `"stray"` (`WriteOnFile`),
  and from then on `fseek` and `fread` may work, fail, or never come back (`CallHangs`; a
  process that dies in them looks the same). What else a call on a wild `FILE` may
  overwrite is left out.
* **Locals** are reset when they go out of scope, to keep states equal that are
  equal.
* `fifoCount`, a debugging counter, and all logging are left out.
* **Interrupt lines** are sets; vectors, addresses and the guest's memory are
  left out, frames keep IF and TF.
* **Scan codes** are a key and the column of modifiers it is looked up in, not
  the byte of `keymap.h`.
* **CPU.** Nibble, byte, sign and decimal base are constants. `ip` counts
  instructions instead of bytes, so decoding is left out (an instruction is a
  record of its operation, width, operands and prefixes); the stack is a sequence
  of words apart from memory, and addresses do not reach the 20-bit wrap. The
  bytes a device answers to IN are arbitrary. TF and HLT are in `InterruptPath`.
* **TMS9914.** A byte is the set of its bits, a status register the set of its bits'
  names. Delays are not counted: a running timer may fire at any moment when no
  call is in progress. `m_stdl`, `m_vstdl` and `m_sh_vsts` only choose a delay and are
  left out. The bus is what the emulation around the device does: a wired OR whose
  changes are delivered to every chip in order, the driver included.
* **Reference bubble controller.** Positions in the image are pages, every
  seek being to the start of one. Its guest follows no protocol: it pushes, pops and
  rewrites registers at any time.
* **Board.** Tables and memory exist at a sample of addresses that has both sides of
  every edge of the map; malloc'ed memory holds one arbitrary byte everywhere; bubble
  memory, keyboard and 8259 answer any byte. Word accesses are two byte accesses and
  not in the module. The host's time of day moves only while the guest looks
  at the clock, and then by at most `MaxSpan` minutes.
* **GPIB bytes** are the set of their lines that are low, so that the AND of
  bytes is a union.

## 3. Runs

All bounds are constants of the `.cfg` files; the `MC` module says why the
instance is large enough.

| Run | Question | Bounds |
|---|---|---|
| `bubble_fifo_read` | do bytes, count and READY survive every interleaving of a push and a pop, and what of them a clear that takes no lock? | ring of 3 slots (both indices wrap, full and empty differ by two), two byte values, 3-bit `fifo_size` so that a drifting count reaches its limits; a Read, or a Reset FIFO issued while bytes are in transit; a torn ring, of which nothing is promised, is not followed |
| `bubble_transfer` | are the pages of a Read the right ones, and does neither thread spin for ever? | one block of 2 pages of 2 bytes: twice what the ring holds; Read and Reset FIFO in any order; an image of 3 pages |
| `bubble_commands` | do status and FIFO agree with the last command, and does a Read move every byte, whatever register addresses the guest selects? | Initialize, Read, an unimplemented command, Software Reset; registers that let them succeed and fail; guest pushes; a store to address 8 spoils `bubbleFile` and goes on to 9, one to 9 sets the address to 8 or 0; a ring of 2 slots (that of 3 is in the two runs above; here a Read is four times what it holds) |
| `bubble_abort` | expected violation, section 6 | as `bubble_transfer`, with Read and Abort and a guest that does not wait for BUSY |
| `bubble_reference` | do the commands of the reference device end, and do writes and reads reach exactly their pages? | one module of 5 pages of 2 bytes, so that a block may leave the image, a FIFO of 3 (a page fits, two do not, as with 32 and 40), two commands of any kind, five register contents |
| `interrupt_path` | are requests kept, delivered once, and do they wake a halted guest? | the bubble line 1, raised by `bubble_thread` and by FIFO accesses of the main thread, and the GPIB line 5, whose EOI the code applies to line 1; single and cascaded initialisation, TF, one interrupted frame |
| `timing` | do timers keep their phase and are due ones called? | 2 timers, intervals 1 and 2, resynchronisation after 2 intervals, a clock that creeps, jumps past it or is set back |
| `keyboard` | does the newest key reach the guest in the right column? | 1 letter, both CTRL keys, SHIFT, F1, watchdog modulo 3 |
| `gpib_bus` | is the bus the wired AND and is everybody told, with `notify` re-entered? | 3 slots, 2 status lines, 1 data line, three writes nested |
| `gpib_controller` | do three chips address, transfer, poll and hand the bus over without losing a call, a byte or each other? | controller, disk and printer; eleven sets of programs, every order of their accesses and of timers |
| `cpu_routines` | do routines of several instructions compute what they should, interrupted anywhere? | a byte of 4 bits made of two nibbles, decimals to base 3, segments 2 bytes apart; two limbs; strings of up to 4 elements |
| `board` | does start-up leave the machine the command line asks for, and are memory, window and clock what the guest relies on? | all command lines of up to 4 of 10 words, every refusal of the host; 30 addresses, 9 ways to use them; the host's time from 9:55 to 10:07 |

In `cpu_routines` TLC starts every routine with every load of `LoadSets`. Two
operands of a byte, and dividend and divisor of a byte division, take all values;
operands of two bytes take those around zero, the sign and all ones, where carries,
borrows and overflows change; strings take all patterns that can stop a search
anywhere. A small byte is enough because the code does nothing that depends on
the number of bits of a byte except through the widths that are constants here,
and for addition, subtraction, comparison, negation, products, division, shifts by one
and the unpacked decimals `CpuProofs` removes the bound; for the string routines it
removes all bounds, those on lengths and contents included. The interrupt handler sets
CF, AF, ZF and DF before it returns, so a flag
that IRET does not bring back, or an instruction that does not keep it, shows up
in the result.

Properties worth reading first: `FifoOrder` (the ring with both threads inside
the lock is still a FIFO), `SizeTracksContents`, `ReadMovesEverything`,
`RequestsKept` and `DeliveredAsAsked`, `KeepsPhase`, `ExpiryIsReported`,
`EveryoneInformed`, `BytesDelivered` (three chips and the handshake refine a channel
without lines), `LinesKnown` and `AtRest` (when a cascade of line changes is over every
chip's copy of every line is the line, and no chip is owed a call), `TransfersLand`, `SumsExact`, `ControlReturns`, `MemoryKept`. Every property has
a mutant of the code in its module (operators marked *Mutant*) that violates it.

`Slipped`, `Damaged`, `IsTorn`, `overlapped`, `slips` and `leaked` in a property's
antecedent are not assumptions about luck: they say that the property can fail
*only* through the named race, which the code does have. The runs reach states
with and without each of them. Likewise `torn` and `early` in `ClockReadsTrue`: the
clock is wrong in the first six minutes of an hour and when a digit carries between
two reads; and `bubbleFile = "stray"` in `PagesAreRead` and `BusyEnds`.

So where the code does get something wrong, the properties do not catch it: they fence it
in. The hazards this applies to have a `note` in `PROJECT.json` that says which
case is excused and what is still checked: a lost update (`Slipped`, `slips`), READY lost
between two sharers of the FIFO lock (`overlapped`), a command that comes while the last
one ends (`lastCommand # prev`, and the empty Read after a Read), right-hand keys and
key twins, the borrow of SBB, decimals, negative divisors, the clock read in two pieces.

### Fairness

* `BubbleFifo`, `BubbleController`: weak fairness of each thread, which the host's
  scheduler gives; and of `ReadFifo`, the guest's driver polling the data port
  while READY is on. Not fair: issuing commands.
* `InterruptPath`: weak fairness of the main loop as a whole, strong fairness of
  `DevicesDone`: the callbacks of one turn are finitely many (one per timer).
  Nothing is assumed of `bubble_thread` beyond steps inside `setirq` being
  possible, nor of the guest's choice of instruction.
* `Timing`: the main loop calls `timing_loop` for ever. `Keyboard`: the tick keeps
  coming (it is a timer callback). `I7220Device`: an armed timer fires
  (`WF_vars(GeneralContinue)`); the guest owes nothing. `Tms9914`: weak fairness of its
  next-state relation, written out as `Fairness` because the programs of a scenario
  end: somebody goes on as long as anybody can. `GPiBBus`, `Cpu` and `Board` have no
  liveness property.
* Deadlock is checked in `interrupt_path`, `timing`, `keyboard`, `cpu_routines` and
  `bubble_reference`; the other bubble runs and `gpib_bus` switch it off because
  spinning threads are states without a successor there and are what the
  properties speak about, `gpib_controller` because its programs end (`ProgramsEnd` says
  that they do), `board` because the program may exit.

## 4. Proofs

All by `tlapm` from `Spec` and the named assumptions on the constants.

* `BubbleControllerProofs!TypeCorrect`: for any calls of the two threads, any ring size,
  any width of `fifo_size`. The typing invariant is inductive.
* `SizeCorrect`, `PopsGood`, `ReadyCorrect` (assumption `Reading`: the guest pops,
  `bubble_thread` pushes, as in a Read). The inductive invariant `ReadInv` says
  which thread can be where (`Roles`), that from the wait of a pop to its store of
  `fifo_tail` the ring is not empty and `idx` is `Inc(fifo_tail)` (`PopFacts`),
  the same for the push (`PushFacts`, `RoomFacts`), and that the count follows the ring
  (`SizeFacts`, a stronger form of `SizeTracksContents`). It
  is needed because the lock does not exclude: only the roles (one producer, one
  consumer, each owning its index) keep the ring sound. `ReadyCorrect` needs two
  further parts, one per thread, that hold while the lock was not shared.
* `FifoImplements`: `Spec => FifoOrder`, that is, `LossyFifo`
  under the mapping of `Abstract`. Each step of a pop or a push maps to a step of
  the queue at exactly one access (the byte is taken at `PopTail`, offered at
  `PushCall`, published at `PushHead`) and to a stutter elsewhere.
* `ControllerTypeCorrect`: no assumption on the guest, which may select any of the sixteen
  register addresses at any time and write to it. The indices of the FIFO stay inside the
  ring and `regRAC` stays four bits, so a store through it reaches the six registers,
  `regRAC` or `bubbleFile`, and nothing further away.
* `StatusTellsOutcome`, `ClearingEmpties`, `RightPages`, `EveryByteMoved`, for any ring,
  page length, registers (those the chip does not have included), image and commands.
  `RightPages` (and `Positioned` below) speak of a `bubbleFile` that the guest has
  not stored into. Assumption `Driving`: the guest's driver
  looks at BUSY before it programs the controller (`Driver`), and the history records a
  lost update of `regStatus`. All follow from one invariant, `ControllerInv`:
  * `Doing`: what the thread executes it executes for the command it took;
  * `Metered`: the page counters stay inside the transfer;
  * and, while no update of `regStatus`, `fifo_size` or `mainExecPhase` has been lost
    (`Intact`), four parts: `Conducted` (`Phased` ties `mainExecPhase` and BUSY to the
    place where `bubble_thread` is, `Disciplined` says what the guest does not do while a
    command is pending, `Reported` ties the result bits to the last command),
    `FifoSound` (ring, count and READY in each of those situations), `Positioned` (the
    page to be read next) and `Moved` (the bytes pushed so far).

  Lemma `Apart`, which accesses of the two threads can fall together at all, carries
  the rest. The threads are not kept apart by `fifoLock`, which
  does not exclude, and `fifo_clear` does not even take it: they are kept apart because a
  driver that polls BUSY is between two instructions while a clear runs, and only pops
  while a Read pushes. `Intact` has to be in the invariant because `commandEnd`'s
  update of `regStatus` can meet the guest's; what holds then is types, `Doing` and
  `Metered` only.
* `I7220DeviceProofs!TransfersCorrect`: `Spec => []TransfersLand`, for pages, FIFO and
  image of any size, any registers and a guest that does what it likes; `DeviceAssumption`
  says only that a page fits the FIFO and that the guest's values are bytes. The
  invariant `DeviceInv` gives every instant of a transfer one equation of byte
  sequences: for a Read, what the guest took, then the FIFO, is what was in the FIFO, then the
  pages read so far (`Reading`); for a Write, what was in the FIFO, then what the guest gave, is
  the pages written so far, then the FIFO (`Writing`). A step moves bytes from one side of
  a `\o` to the other. That pages and the bytes in them correspond (`PagesStep`) is the arithmetic
  of `\div` and `%` by a page length that is not known.
* In `InterruptPathProofs`, for `Timing`: `TypeCorrect`, `BacklogIsBounded`, `PhaseKept`,
  and `RunsBehind` (assuming the clock is never set back) for any timers and intervals.
* `GPiBBusProofs`: `WiredAndCorrect`, `AllInformed`, `MutexFree`, `TypeCorrect` for
  any number of slots and any nesting. The key is `Told`: every client knows the
  bus or is *covered* by a frame of `notify` that has yet to reach it.
* `Tms9914Proofs!EveryLineIsKnown`: `Spec => []LinesKnown`, for any number of chips, any
  addresses and any programs that write registers the chip has (`ScenarioAssumption`).
  `LinesKnown` speaks of the empty stack; `BusInv` says what holds with calls in
  progress, where a chip can be told of a line while it is in a pass of its own
  `update_fsm` and the call then returns at once:
  * `Inside`: a chip with `m_no_reflection` set has a phase of its pass on the stack;
  * `Told`: a chip whose copy of a line is stale is behind a frame that has yet to tell
    of that line (a line may change again, by a nested call, while others are still being
    told of it: the frame reads the line each time);
  * `Owed`: a change not looked at (`m_ext_state_change`) belongs to a chip whose
    `update_fsm` is the outermost call, or to one in a pass that ends with another
    (`changed`); `SicLast` carries the first case through the tail of an SIC command.

  Of the nine machines and the registers it needs only what they do to these fields:
  they leave lines and `m_no_reflection` alone (`Kept`, `Quiet`), and one that moves asks
  for another pass (`Steps`); a register access calls `update_fsm` behind whatever it
  changed (`Served`).
* `KeyboardProofs`, for any keys and any watchdog range: `TypeCorrect`,
  `ModifiersCorrect`, `SlotCorrect`, `ExpiryReported`. A release clears no other key's bit
  only because no right key and no two keys of one modifier have been used
  (`NoRight`, `NoTwins`); the slot's column follows from the modifiers.
* `InterruptPathProofs`, for any lines, masks and depth of interrupted programs:
  `RequestsCorrect` (inductive as it stands), `SpuriousCorrect` (from `i8259_haveInt` to
  the scan of `i8259_nextintr` something stays requested and unmasked, since
  `bubble_thread` only adds requests: `BubbleOnlyAdds`), `HaltCorrect` (an instruction starts
  with the trap armed exactly when TF is on, `HaltInv`) and `DeliveryCorrect` (`NoExtra`: irr
  holds nothing that is not owed; `ChosenStays`: the line picked stays requested
  to the end of its delivery; `MaskFollows`: the initialisation words still expected are
  those announced).
* `BoardProofs`, for any sample of the addresses, ROM contents, command lines and
  programs; assumptions `BoardAssumption` (the programs use addresses of the sample, the
  host's time is one of a day, command lines are sequences of strings) and
  `SampleAssumption` (the sample has memory in it, and both bytes of every word of the
  screen it has a byte of).
  * `MemoryImplements`: `BoardSpec => MemoryKept`. `MapInv` says that after each step of
    start-up the two tables are *exactly* the blocks mapped so far (`Mapped`), that
    everything they point at is allocated and the ROM holds its image (`Allocated`),
    and that the only callback over memory is the screen's, where it belongs
    (`Attached`). From it a read answers the one byte behind its address (`Cell`,
    lemma `Answers`), and a write changes that byte and no other. `gridvideo_init`,
    with which the machine is complete, maps to `PowerOn` of `FlatMemory`; reads and
    writes of memory to `Read` and `Write`; accesses of devices and ports, which leave
    memory alone, to `Device`; drawing and the passing of time to a stutter.
  * `WindowShowsMemory` (`ScreenInv`: without the dirty flag every drawn byte is that of
    its word), `ClockTellsTime` (`ClockInv`: each digit read is that of some minute of
    the look; while the digits above the last did not change, all are those of one).
  * `StartsAsAsked`: `BoardSpec => []StartedAsAsked`, for command lines of any length. Of the
    speed it says what it is when one is asked for; without one, see section 6.
    It rests on `ArgumentsRead`: an accepted line is nothing but known options with good
    values, each option has the value of its last pair, and a refused one has a pair that
    is not. `args_parse` goes through the line two words at a time, so that is an
    induction over the pairs parsed. The library's induction theorems take an operator,
    which no installed prover instantiates; the lemma `Induction` takes a *set* of
    numbers instead and follows from the well-foundedness of `<` (a set that misses
    numbers misses a least one). `StartInv` says, for each step of start-up, what has been
    settled by then and that nothing later changes it.
* `CpuProofs`, the operations, for every width: `AdcExact`, `LongSumExact`, `SubExact`, and
  `SbbExact` with the one case it excludes settled by `SbbLosesBorrow`;
  `ComparisonDecides` (carry, zero, sign and overflow order the operands); `DivExact`;
  `IdivExact` (of a divisor read as signed, see section 6);
  `FlagsWordKeeps` (the flags word gives every flag back); `IncDecKeepCarry` (for widths
  of two bits and more: in one bit the 1 added is itself the sign), `NegExact`, `ShiftsExact`
  (SHL, RCL, SHR, RCR and SAR by one), `MulExact` and `ImulExact` (the value; IMUL's
  carry and overflow are among the places of section 6), `AadUndoesAam`, `AaaExact` and
  `AasExact`. They are theorems on operators and assume nothing but `CpuAluAssumption`;
  the argument is that a sum or difference of operands leaves the width by at most one
  multiple of it (`SumResidue`, `DifferenceResidue`), and for products and unpacked
  decimals that quotient and remainder by an unknown divisor are the only two numbers
  that put the dividend together again (`Quotients`, `QuotientBound`, `Reassembled`).
* `CpuProofs!StringsAreComplete`: `Spec => []StringsComplete`, for strings of any length
  and contents, for any widths of byte and segment, and with interrupts anywhere.
  `RoutineAssumption` says what a load is: the handlers and one of the routines as code,
  registers and memory within their widths, strings that start at offset 0 (the last
  one's end for `movsd`) and end before the next segment's begins, and addresses that do not wrap. The
  argument has three layers:
  * *What an instruction does.* `Dispatch` says which action an instruction can take;
    the lemmas behind it (`PushAx` ... `IretBack`, `MovsMoves` ... `LoopLoops`) what
    registers, flags, memory and `ip` are after it.
  * *The guest behind its interrupts.* `GuestIp`, `GuestRegs`, `GuestFlags` ... are the
    program's state while it runs, and while the handler runs what the request put
    aside. `Handling` says that, at each instruction of the handler, the stack holds IP, CS
    and flags of the guest (and AX between PUSH and POP), and that requests do not nest
    because the flag is off. So a request (`RequestPutsAside`) and each step of the handler,
    IRET included (`HandlerKeepsAside`, with `FlagsWordKeeps`), leave the guest as it
    is: `UNCHANGED guest`.
  * *The strings.* `StringInv` says of the guest, for some number k of elements done,
    where it is and what CX, SI, DI, ZF and memory are: for moves memory is that of
    the load with the first (or last) k elements filled in (`Filled`), for searches
    none of the first k - 1 elements was a hit and ZF tells of the k-th (`Looked`). A
    step is one element (`WriteMem` against `Filled`: `FillByte`, `FillWord`), and at HLT
    k is CX or the first hit.

  `StringsComplete` itself is not inductive: it speaks of the end only. Neither is
  `StringState` of the registers as they are, since the handler changes AX and the flags.
* `CpuProofs!DivisionsAreExact`: `Spec => []DivisionExact`, for operands of any value, on
  the same assumptions and over the same two lower layers. On top of them `DivisionInv`
  says that the program is
  * in front of its division, and the accumulator holds `Dividend`, what CBW, CWD, MUL,
    IMUL or AAD should have made of the operands loaded (`PrepareExtends`,
    `PrepareMultiplies`, `PrepareAdjusts`; the divisor is untouched, and CF is still MUL's);
  * or behind it, with the halves of `Outcome` (quotient and remainder of `Dividend`) and
    memory as loaded, or with the mark set when `Outcome` is the divide error;
  * or `Trapped`: at one of the two instructions of the divide error's handler, with
    interrupts disabled, the return address, CS and flags on the stack and one frame
    that is no request's.

  At HLT `Outcome` is compared with the operands: `OpDivGives` and `Undone` for DIV and MUL
  then DIV, `IdivExact` and `SignedUndone` for the signed ones. `DivisionExact` says nothing of
  the way there, so it is not inductive either. What it excepts (bytes by a negative
  divisor, -32768 / -1) the theorem excepts too.
* `CpuProofs!ComparisonsAreRight`: `Spec => []ComparisonsDecide`, for operands of any value,
  on the same assumptions and over the same two lower layers. `ComparisonInv` says where each
  of the two routines is and what the comparison has left by then:
  * CMP, PUSHF, POPF, Jcc: the operands as loaded in front of CMP; after it, flags that
    `FlagSub` made of them (`Compared`); between PUSHF and POPF a word on the guest's stack,
    below whatever an interrupt pushes, made of the same flags with OF set; then these
    flags, which POPF gets back from the word (`FlagsWordKeeps`). `ConditionsDecide` reads
    all 16 conditions off `FlagSub`;
  * CMP and SBB of two bytes: the byte just loaded and, from the CMP on, CF as the borrow of
    the low bytes. `PairsOrder` and `SignedPair` put the order of the words together from
    that of their bytes.

  `ComparisonsDecide` is about the flags at three places of the routine, and says nothing of the
  word on the stack, so it is not inductive. The operands `flag_sbb8` spoils and the OF that
  PUSHF spoils are excepted in the property and so in the theorem.

Only model-checked:

* all liveness (`PushReturns`, `BusyEnds`, `HaltWakes`, `DueIsCalled`,
  `KeyReachesBus`, `ProgramsEnd`, `CommandsEnd`), which the prover cannot do;
* `SumsExact` and `ControlReturns` of `CpuRoutines`:
  the routines are fixed programs for TLC; what they rest on, the exactness of
  each operation for every width and the interrupts that leave no trace, is
  in `CpuProofs`. Not all of it: shifts by more than one, the packed decimals (DAA, DAS)
  and AND, OR, XOR and TEST, which are folds over bits, have no theorem;
* the rest of `Tms9914`: `AtRest` (that one more pass would do nothing needs the
  transitions of all nine machines), `OneSpeaker`, `ParallelPollAnswered` and the refinement
  `BytesDelivered`: not attempted. The last three do not hold of programs at will (two
  processors that both give TON are two speakers), so a theorem needs an assumption on
  the programs that says when each may address whom, and an invariant that ties the
  machines of different chips to each other and to `BusInv`.

## 5. Not modelled

* CPU: LAHF and SAHF, loads of SP (so no switch of stacks), the interrupt that the code
  lets in between MOV SS and MOV SP, undefined opcodes, which are no-operations;
  decoding of opcodes (ESC steps over one byte only, so a displacement behind it would
  be executed). OUT's effects belong to the devices' modules.
* `i7220.c:266`: what a call on a `bubbleFile` the guest has stored into may do beyond
  working, failing and not coming back.
* `i7220.c:437`, what Software Reset stores behind its register array of six: the
  registers of the model stay as they are, the Utility register included.
* `tms9914a.c` beyond its stub: its read handler returns 0xFF in front of its register
  switch, two auxiliary commands exist, and `flagSWRST` is set at initialisation and
  cleared nowhere, so `controller_reset` is always true. `Board` has these.
  In the reference: a device reset in mid-operation.
* `removed/i7220.cpp`: writes behind the end of the image, `m_fifo`'s own code.
* The speed chosen on the command line is kept and used by nothing (the call that
  would is commented out, `main.c:118`), so no property speaks of pace. DMA is
  initialised and used by nothing.
* Pixels, texts that are printed or logged, host file errors in `sectorRead`,
  `realloc` failure in `timing.c`; the other files of `removed/` and `crap/`, which are
  older copies or devices of another machine.

## 6. Where code and comment disagree

* `bubble_abort` / `AbortAccepted`: an Abort issued while a Read is ending is
  erased by `commandEnd` (463); the comment at 424-425 promises it is accepted
  while BUSY.

One disagreement has no run, since what the code does about it is one assignment in the
model (`ChooseSpeed` of `Board`): the help says of `-speed` "(Default is as fast as
possible)" (`args.c:69`), which `machine.c:54` writes as -1 ("speed in MHz (-1 =
unlimited)"); without the option the code takes 5, the speed of the machine's definition
(`machine.c:57`, 179). `StartedAsAsked` claims nothing of the speed in that case. Nothing
reads the speed after start-up, so the emulator is not slowed down by it today.

The CPU differs from the 8086 in places that no comment of the repository speaks
about. They are not findings; the properties name them as exceptions:

* SBB with a carry loses the borrow when its second operand is all ones, and has
  the wrong OF when it is the largest positive number (`cpu.c:281`, `BorrowLost`,
  `SignLost`).
* The second step of DAA sets CF from its own addition alone and forgets the carry
  the binary addition left, so a decimal sum of bytes of 160 or more loses it; that
  of DAS does the same with the borrow and never passes one on (`cpu.c:2946`).
* PUSHF pushes a word with OF set.
* The byte form of IDIV takes its divisor unsigned; the word form gives the
  remainder the wrong sign for a negative divisor and does not trap on
  -32768 / -1.
* IMUL sets CF and OF for negative products that fit.

Other places where the code does what its reader may not expect, and the properties
name as exceptions: a store to one of the bubble controller's register addresses 1 to 9,
which are any guest's to select (`i7220.c:282`), overwrites `regRAC` or the pointer
`bubbleFile` (266); a HLT executed under single step is never left
(`HaltKeepsInterrupts`, `HaltWakes`); a specific EOI for a line above 3 hits another line
(`"alias"`); a single 8259 without ICW4 takes its first mask for one (`MaskEaten`); an OP
FAIL is reset by nothing (`IdleStatus`); XCHG of a register with memory that the register
addresses writes where its new contents point. In the reference bubble controller
Abort never clears the FIFO (its test for the idle phase comes after the phase has
been set), a write of no pages still writes one page found in the FIFO, and commands given
while one runs or before its result status is read are dropped.

## 7. Plan

Done in this order: FIFO and its abstract specification, controller, interrupt
path, timers, keyboard, GPIB bus, CPU; the GPIB controller with the channel it
implements, the reference bubble controller, the board with its flat memory; and the
proofs above. What is left:

1. Proofs: on top of `BusInv`, `AtRest`, then `OneSpeaker` under an assumption on the
   programs. In `CpuProofs`, shifts by any count (by `Induction` of
   `BoardProofs`, the count being a number), DAA and DAS; then `SumsExact`, along the
   guest behind its interrupts as for strings, divisions and comparisons.
2. LAHF, SAHF and the loads of SP in `Cpu`, with the interrupt between MOV SS and MOV SP.
3. When `tms9914a.c` grows beyond its stub: its own module on top of `GPiBBus`, checked
   against the properties of `Tms9914`.

-------------------------------- MODULE Board --------------------------------
(***************************************************************************)
(* The machine around the processor: main() up to its loop (main.c,        *)
(* args.c, machine.c), the address and port tables that start-up fills in  *)
(* and the guest's accesses go through (memory.c, ports.c), the screen     *)
(* (gridvideo.c), the clock (rtc.c) and the devices that are stubs         *)
(* (i8274.c, modem.c, dma.c, tms9914a.c).                                  *)
(*                                                                         *)
(* The tables are kept at a sample of the addresses; bubble memory,        *)
(* keyboard and 8259, which have modules of their own, answer any byte.    *)
(***************************************************************************)
EXTENDS Rtc, Integers, Sequences

CONSTANTS
  Addresses,      \* the sample of 0 .. CPU_ADDRESS_RANGE - 1
  Bytes,          \* values the guest writes
  RomByte,        \* the boot ROM image
  Sessions,       \* a set of [argv, program]: a command line, and the
                  \* [addresses, ports] the guest uses
  FirstMinute, LastMinute,  \* of the host's day
  MaxSpan         \* bound on the minutes one look at the clock takes

CPU_ADDRESS_RANGE == \h100000
VIDEOBASE == \h400
videoBytes == (320 * 240) \div 8
PORTS_COUNT == 15
romBase == \hFC000
romSize == \h4000
NULL == "NULL"
NullPointer == <<NULL, 0>>

\* cpu_read and cpu_write look at 20 bits of an address.
Wrap(addr) == addr % CPU_ADDRESS_RANGE

ASSUME BoardAssumption ==
  /\ Addresses \subseteq 0 .. CPU_ADDRESS_RANGE - 1
  /\ Bytes \subseteq 0 .. 255
  /\ RomByte \in [0 .. romSize - 1 -> 0 .. 255]
  /\ \A s \in Sessions : s.argv \in Seq(STRING)
  /\ \A s \in Sessions : \A addr \in s.program.addresses : Wrap(addr) \in Addresses
  /\ FirstMinute \in Nat /\ LastMinute \in Nat /\ MaxSpan \in Nat
  /\ FirstMinute < 24 * 60 /\ LastMinute < 24 * 60

VARIABLES
  argv, program,       \* what the user typed, what the guest uses
  step,                \* the next start-up step, "run", "quit" or "exited"
  refused,             \* history: has the host refused memory, a window, a file, a thread?
  options,             \* usemachine, speedarg and debug_level
  speed,
  timers,              \* callbacks of the timers added, in order
  mapRead, mapWrite,   \* memory_mapRead and mapWrite: <<block, offset>>
  callback,            \* memory_mapReadCallback and WriteCallback: a device or NULL
  ports,               \* ports_cbReadB and WriteB, likewise
  heap,                \* heap[<<block, offset>>]: malloc'ed memory
  gridvideo_RAM, gridvideo_doDraw, sdl_framebuffer,
  tms,                 \* auxBits, controllerState and the IFC line of tms9914a.c
  bus,                 \* the guest's last access: [op, addr, byte]
  minute,              \* the host's time of day
  look                 \* history: the guest's look at the clock, [from, to, digits]

tables == <<mapRead, mapWrite, callback, ports>>
screen == <<gridvideo_RAM, gridvideo_doDraw, sdl_framebuffer>>
settings == <<argv, program, refused, options, speed, timers, tables>>
boardVars == <<settings, step, heap, screen, tms, bus, minute, look>>

----------------------------------------------------------------------------
(* args_parse.  An argument is named by what args_isMatch, which ignores   *)
(* case, and atof make of it.                                              *)
DebugLevels == {"none", "error", "info", "detail"}
atof(a) == CASE a = "8" -> 8 [] a = "-1" -> -1 [] a = "1101" -> 1101
             [] a = "1139" -> 1139 [] OTHER -> 0

\* "wants" is the option whose parameter comes next.
Defaults == [machine |-> "1101", speed |-> 0, debug |-> "info", wants |-> NULL, ok |-> TRUE]

Parameter(o, a) ==
  CASE o.wants = "-machine" -> [o EXCEPT !.machine = a, !.ok = a # "list"]
    [] o.wants = "-speed"   -> [o EXCEPT !.speed = atof(a)]
    [] o.wants = "-debug"   -> IF a \in DebugLevels THEN [o EXCEPT !.debug = a]
                               ELSE [o EXCEPT !.ok = FALSE]

\* Mutant: a parameter is not stepped over and is looked at as an option again.
ArgumentTwice(o, a) ==
  LET p == IF o.wants = NULL THEN o ELSE [Parameter(o, a) EXCEPT !.wants = NULL]
  IN IF ~p.ok THEN p
     ELSE IF a \in {"-machine", "-speed", "-debug"} THEN [p EXCEPT !.wants = a]
     ELSE [p EXCEPT !.ok = FALSE]

Argument(o, a) ==
  IF ~o.ok THEN o
  ELSE IF o.wants # NULL THEN [Parameter(o, a) EXCEPT !.wants = NULL]
  ELSE IF a \in {"-machine", "-speed", "-debug"} THEN [o EXCEPT !.wants = a]
  ELSE [o EXCEPT !.ok = FALSE]    \* -h and everything else

args_parse(line) ==
  LET o[n \in 0 .. Len(line)] == IF n = 0 THEN Defaults ELSE Argument(o[n - 1], line[n])
  IN  o[Len(line)]

----------------------------------------------------------------------------
(* Start-up.  Each action is one call of main(), machine_init() or         *)
(* machine_init_grid(); "exited" is any of their failures.                 *)
Step(from, to) == step = from /\ step' = to

\* A step whose call the host may refuse.
Granted(from, to) == Step(from, to) /\ UNCHANGED refused
Denied(from) == Step(from, "exited") /\ refused' = TRUE

devices == <<screen, tms, bus, minute, look>>
NoPointers == [a \in Addresses |-> NullPointer]
NoDevices == [a \in Addresses |-> NULL]

memory_init ==
  /\ Granted("memory_init", "ports_init")
  /\ mapRead' = NoPointers /\ mapWrite' = NoPointers /\ callback' = NoDevices
  /\ UNCHANGED <<argv, program, options, speed, timers, ports, heap, devices>>

ports_init ==
  /\ Granted("ports_init", "timing_init")
  /\ ports' = [p \in 0 .. PORTS_COUNT - 1 |-> NULL]
  /\ UNCHANGED <<argv, program, options, speed, timers, mapRead, mapWrite, callback, heap,
                 devices>>

timing_init ==
  /\ Granted("timing_init", "args_parse")
  /\ timers' = <<>>
  /\ UNCHANGED <<argv, program, options, speed, tables, heap, devices>>

ParseArgs ==
  LET o == args_parse(argv) IN
  /\ Granted("args_parse", IF o.ok /\ o.wants = NULL THEN "sdlconsole_init" ELSE "exited")
  /\ options' = o
  /\ UNCHANGED <<argv, program, speed, timers, tables, heap, devices>>

\* SDL_Init, the window, the renderer or the texture may fail.
sdlconsole_init ==
  /\ Granted("sdlconsole_init", "machine_defs") \/ Denied("sdlconsole_init")
  /\ UNCHANGED <<argv, program, options, speed, timers, tables, heap, devices>>

\* machine_defs has one entry.
FindMachine ==
  /\ Granted("machine_defs", IF options.machine = "1101" THEN "idt" ELSE "exited")
  /\ UNCHANGED <<argv, program, options, speed, timers, tables, heap, devices>>

Within(a, start, len) == a \in start .. start + len - 1

memory_mapRegister(table, start, len, block) ==
  [a \in Addresses |-> IF Within(a, start, len) THEN <<block, a - start>> ELSE table[a]]

Offsets(start, len) == {a - start : a \in {x \in Addresses : Within(x, start, len)}}

\* One entry of machine_mem: malloc'ed memory holds anything
\* (here one byte everywhere, to bound the number of states).
MapRam(block, start, len, next) ==
  \/ /\ Denied(block)
     /\ UNCHANGED <<mapRead, mapWrite, heap>>
  \/ /\ Granted(block, next)
     /\ \E junk \in Bytes :
          heap' = [c \in DOMAIN heap \cup {<<block, o>> : o \in Offsets(start, len)} |->
                     IF c[1] = block THEN junk ELSE heap[c]]
     /\ mapRead' = memory_mapRegister(mapRead, start, len, block)
     /\ mapWrite' = memory_mapRegister(mapWrite, start, len, block)

ramMainBase == VIDEOBASE + videoBytes
ramMainSize == \h40000 - ramMainBase
MapRams ==
  /\ MapRam("idt", 0, \h400, "main") \/ MapRam("main", ramMainBase, ramMainSize, "rom")
  /\ UNCHANGED <<argv, program, options, speed, timers, callback, ports, devices>>

\* The image of the ROM as it comes from its file.
utility_loadFile ==
  heap' = [c \in DOMAIN heap \cup {<<"rom", o>> : o \in Offsets(romBase, romSize)} |->
             IF c \in DOMAIN heap THEN heap[c] ELSE RomByte[c[2]]]

\* Mutant: the ROM is registered for writing too.
MapRomWritable ==
  /\ Granted("rom", "speed")
  /\ utility_loadFile
  /\ mapRead' = memory_mapRegister(mapRead, romBase, romSize, "rom")
  /\ mapWrite' = memory_mapRegister(mapWrite, romBase, romSize, "rom")
  /\ UNCHANGED <<argv, program, options, speed, timers, callback, ports, devices>>

\* The file may be missing or short.  A ROM has no write pointer.
MapRom ==
  /\ \/ /\ Denied("rom")
        /\ UNCHANGED <<mapRead, heap>>
     \/ /\ Granted("rom", "speed")
        /\ utility_loadFile
        /\ mapRead' = memory_mapRegister(mapRead, romBase, romSize, "rom")
  /\ UNCHANGED <<argv, program, options, speed, timers, mapWrite, callback, ports, devices>>

ChooseSpeed ==
  /\ Granted("speed", "i8259_init")
  /\ speed' = CASE options.speed > 0 -> options.speed
                [] options.speed < 0 -> -1
                [] OTHER -> 5
  /\ UNCHANGED <<argv, program, options, timers, tables, heap, devices>>

i8259_init ==
  /\ Granted("i8259_init", "gridKeyboard8741_init")
  /\ ports' = [p \in DOMAIN ports |-> IF Within(p, 0, 3) THEN "i8259" ELSE ports[p]]
  /\ UNCHANGED <<argv, program, options, speed, timers, mapRead, mapWrite, callback, heap,
                 devices>>

memory_mapCallbackRegister(start, count, device) ==
  callback' = [a \in Addresses |-> IF Within(a, start, count) THEN device ELSE callback[a]]

\* The init functions that only attach a device, and those that add a timer.
Attach(start, count, device, timer) ==
  /\ memory_mapCallbackRegister(start, count, device)
  /\ timers' = timers \o timer
  /\ UNCHANGED <<argv, program, options, speed, mapRead, mapWrite, ports, heap, devices>>

gridKeyboard8741_init ==
  /\ Granted("gridKeyboard8741_init", "bubble_init")
  /\ Attach(\hDFFC0, 4, "keyboard", <<"gridKeyboard8741_tickCallback">>)

\* The image file may be missing; the thread is created last.
bubble_init ==
  \/ /\ Denied("bubble_init")
     /\ UNCHANGED <<argv, program, options, speed, timers, tables, heap, devices>>
  \/ /\ Granted("bubble_init", "uart_init") \/ Denied("bubble_init")
     /\ Attach(\hDFE80, 4, "bubble", <<>>)

uart_init == Granted("uart_init", "modem_init") /\ Attach(\hDFF00, 8, "uart", <<>>)
modem_init == Granted("modem_init", "tms9914a_init") /\ Attach(\hDFEC0, 7, "modem", <<>>)
rtc_init == Granted("rtc_init", "gridvideo_init") /\ Attach(rtcBase, rtcLen, "rtc", <<>>)
gridvideo_init == /\ Granted("gridvideo_init", "run")
                  /\ Attach(VIDEOBASE, videoBytes, "gridvideo", <<"gridvideo_scanlineCallback">>)

tmsBase == \hDFF80
tms9914a_init ==
  /\ Granted("tms9914a_init", "rtc_init")
  /\ memory_mapCallbackRegister(tmsBase, 15, "tms9914a")
  /\ tms' = [tms EXCEPT !.auxBits = {"SWRST"}]
  /\ UNCHANGED <<argv, program, options, speed, timers, mapRead, mapWrite, ports, heap,
                 screen, bus, minute, look>>

StartUp ==
  \/ memory_init \/ ports_init \/ timing_init \/ ParseArgs \/ sdlconsole_init
  \/ FindMachine \/ MapRams \/ MapRom \/ ChooseSpeed
  \/ i8259_init \/ gridKeyboard8741_init \/ bubble_init \/ uart_init \/ modem_init
  \/ tms9914a_init \/ rtc_init \/ gridvideo_init

----------------------------------------------------------------------------
(* The guest's accesses.                                                   *)
VideoOffsets == Offsets(VIDEOBASE, videoBytes)

HostTime(m) == [min |-> m % 60, hour |-> (m \div 60) % 24, mon |-> 6, wday |-> 3]

gridvideo_readmemory(o) == IF o < videoBytes THEN gridvideo_RAM[o] ELSE 255

\* It returns in front of its switch, so reading clears no interrupt.
tms9914a_read == 255

\* The bytes a device's read callback may answer.
DeviceAnswers(device, a) ==
  CASE device = "gridvideo" -> {gridvideo_readmemory(a - VIDEOBASE)}
    [] device = "rtc" -> {rtc_read(a, HostTime(minute))}
    [] device = "tms9914a" -> {tms9914a_read}
    [] device \in {"uart", "modem"} -> {0}
    [] OTHER -> Bytes

cpu_read(a) ==
  IF mapRead[a] # NullPointer THEN {heap[mapRead[a]]}
  ELSE IF callback[a] # NULL THEN DeviceAnswers(callback[a], a)
  ELSE {255}

\* A look at the clock ends when all four digits have been read.
ClockDigits == 4 .. 7
Unread == 16
Looking == /\ \E d \in ClockDigits : look.digits[d] # Unread
           /\ \E d \in ClockDigits : look.digits[d] = Unread
Looked(a, byte) ==
  LET r == (a - rtcBase) \div 2
      digits == IF Looking THEN look.digits ELSE [d \in ClockDigits |-> Unread]
  IN IF callback[a] = "rtc" /\ r \in ClockDigits
     THEN [from |-> IF Looking THEN look.from ELSE minute,
           to |-> minute,
           digits |-> [digits EXCEPT ![r] = byte % 16]]
     ELSE look

Read(addr) ==
  LET a == Wrap(addr) IN
  /\ \E byte \in cpu_read(a) :
       /\ bus' = [op |-> "read", addr |-> a, byte |-> byte]
       /\ look' = Looked(a, byte)
  /\ UNCHANGED <<settings, step, heap, screen, tms, minute>>

\* do_aux_cmd: the software reset does nothing, so controller_reset() stays true.
do_aux_cmd(cmd, on) ==
  IF cmd = "SIC" /\ ("SIC" \in tms.auxBits) # on
  THEN LET bits == IF on THEN tms.auxBits \cup {"SIC"} ELSE tms.auxBits \ {"SIC"}
           controller_reset == "SWRST" \in bits \/ (on /\ "SIC" \notin bits)
       IN [tms EXCEPT !.auxBits = bits, !.ifc = on,
                      !.state = IF ~controller_reset /\ on /\ @ = "CIDS" THEN "CADS" ELSE @]
  ELSE tms

regAuxCmd == 11
AuxName(value) == CASE value % 32 = 15 -> "SIC" [] value % 32 = 0 -> "SWRST" [] OTHER -> NULL
tms9914a_write(a, value) ==
  tms' = IF (a - tmsBase) \div 2 + 8 = regAuxCmd
         THEN do_aux_cmd(AuxName(value), value >= 128)
         ELSE tms

\* Mutant: the screen is not told.
gridvideo_writememoryQuiet(o, value) ==
  /\ gridvideo_RAM' = [gridvideo_RAM EXCEPT ![o] = value]
  /\ UNCHANGED <<gridvideo_doDraw, sdl_framebuffer>>

gridvideo_writememory(o, value) ==
  /\ IF o < videoBytes
     THEN gridvideo_RAM' = [gridvideo_RAM EXCEPT ![o] = value] /\ gridvideo_doDraw' = 1
     ELSE UNCHANGED <<gridvideo_RAM, gridvideo_doDraw>>
  /\ UNCHANGED sdl_framebuffer

\* uart_write, modem_write and rtc_write do nothing.
DeviceWrite(device, a, value) ==
  /\ IF device = "gridvideo" THEN gridvideo_writememory(a - VIDEOBASE, value)
     ELSE UNCHANGED screen
  /\ IF device = "tms9914a" THEN tms9914a_write(a, value) ELSE UNCHANGED tms

cpu_write(a, value) ==
  IF mapWrite[a] # NullPointer
  THEN heap' = [heap EXCEPT ![mapWrite[a]] = value] /\ UNCHANGED <<screen, tms>>
  ELSE UNCHANGED heap /\ DeviceWrite(callback[a], a, value)

Write(addr) ==
  LET a == Wrap(addr) IN
  \E byte \in Bytes :
    /\ cpu_write(a, byte)
    /\ bus' = [op |-> "write", addr |-> a, byte |-> byte]
    /\ UNCHANGED <<settings, step, minute, look>>

\* port_read and port_write; nobody behind a port answers 255.
PortRead(n) ==
  /\ \E byte \in IF ports[n % 4096] # NULL THEN Bytes ELSE {255} :
       bus' = [op |-> "in", addr |-> n % 4096, byte |-> byte]
  /\ UNCHANGED <<settings, step, heap, screen, tms, minute, look>>

PortWrite(n) ==
  /\ \E byte \in Bytes :
       bus' = [op |-> IF ports[n % 4096] # NULL THEN "out" ELSE "dropped",
               addr |-> n % 4096, byte |-> byte]
  /\ UNCHANGED <<settings, step, heap, screen, tms, minute, look>>

Guest == \/ \E addr \in program.addresses : Read(addr) \/ Write(addr)
         \/ \E n \in program.ports : PortRead(n) \/ PortWrite(n)

----------------------------------------------------------------------------
(* The rest of the main loop.                                              *)

\* Even bytes are drawn one byte to the right, odd ones one to the left.
Drawn(o) == IF o % 2 = 0 THEN o + 1 ELSE o - 1

gridvideo_update ==
  /\ gridvideo_doDraw # 0
  /\ gridvideo_doDraw' = 0
  /\ sdl_framebuffer' = [p \in VideoOffsets |-> gridvideo_RAM[Drawn(p)]]
  /\ UNCHANGED <<settings, step, heap, gridvideo_RAM, tms, bus, minute, look>>

\* The interrupt it requests is in InterruptPath.
gridvideo_scanlineCallback ==
  /\ gridvideo_doDraw' = 1
  /\ UNCHANGED <<settings, step, heap, gridvideo_RAM, sdl_framebuffer, tms, bus, minute, look>>

Quit == /\ step' = "quit"
        /\ UNCHANGED <<settings, heap, screen, tms, bus, minute, look>>

Loop == step = "run" /\ (Guest \/ gridvideo_update \/ gridvideo_scanlineCallback \/ Quit)

\* The host's clock goes on; it matters, and is moved, only when the guest looks at it.
MinutePasses ==
  /\ step = "run" /\ minute < LastMinute
  /\ \E a \in program.addresses : Within(a, rtcBase, rtcLen)
  /\ Looking => minute < look.from + MaxSpan
  /\ minute' = minute + 1
  /\ UNCHANGED <<settings, step, heap, screen, tms, bus, look>>

BoardInit ==
  /\ \E s \in Sessions : argv = s.argv /\ program = s.program
  /\ step = "memory_init" /\ refused = FALSE
  /\ options = Defaults /\ speed = 0 /\ timers = <<>>
  /\ mapRead = NoPointers /\ mapWrite = NoPointers /\ callback = NoDevices
  /\ ports = [p \in 0 .. PORTS_COUNT - 1 |-> NULL]
  /\ heap = <<>>
  /\ gridvideo_RAM = [o \in VideoOffsets |-> 0]
  /\ gridvideo_doDraw = 1
  /\ sdl_framebuffer = [o \in VideoOffsets |-> 0]
  /\ tms = [auxBits |-> {}, state |-> "CIDS", ifc |-> FALSE]
  /\ bus = [op |-> "none", addr |-> 0, byte |-> 0]
  /\ minute = FirstMinute
  /\ look = [from |-> FirstMinute, to |-> FirstMinute, digits |-> [d \in ClockDigits |-> Unread]]

BoardNext == StartUp \/ Loop \/ MinutePasses

BoardSpec == BoardInit /\ [][BoardNext]_boardVars

----------------------------------------------------------------------------
(* Properties *)

Started == step \in {"run", "quit"}

\* What an address answers now.
Seen(a) == CHOOSE byte \in cpu_read(a) : TRUE

MemoryAddresses ==
  {a \in Addresses : ~\E d \in {<<\hDFE80, 4>>, <<\hDFEC0, 7>>, <<\hDFF00, 8>>,
                               <<rtcBase, rtcLen>>, <<tmsBase, 15>>, <<\hDFFC0, 4>>} :
                        Within(a, d[1], d[2])}

\* The sample holds some memory, and both bytes of a word of the screen.
ASSUME SampleAssumption ==
  /\ MemoryAddresses # {}
  /\ \A o \in VideoOffsets : Drawn(o) \in VideoOffsets

RamAddresses == {a \in MemoryAddresses : a < ramMainBase + ramMainSize}
OtherBytes == [a \in MemoryAddresses |-> IF a >= romBase THEN RomByte[a - romBase] ELSE 255]

\* The address space is the memory guest programs rely on: RAM and video RAM
\* answer the byte last written there and nowhere else, ROM its image and the
\* gaps 0xFF, whatever devices and tables do (memory.c:44-115, machine.c:142-166).
Flat == INSTANCE FlatMemory WITH
          Addresses <- MemoryAddresses,
          Writable <- RamAddresses,
          Fixed <- OtherBytes,
          Bytes <- 0 .. 255,
          Off <- <<>>,
          memory <- IF Started THEN [a \in MemoryAddresses |-> Seen(a)] ELSE <<>>
MemoryKept == Flat!Spec

\* Whenever nothing waits to be drawn the window shows what the guest reads back
\* from the video addresses, the high byte of each word in front of the low one
\* (gridvideo.c:58-84, memory.c:62-76).
ScreenFollows ==
  Started /\ gridvideo_doDraw = 0 =>
    \A o \in VideoOffsets : o % 2 = 0 =>
      /\ sdl_framebuffer[o] = Seen(VIDEOBASE + o + 1)
      /\ sdl_framebuffer[o + 1] = Seen(VIDEOBASE + o)

DigitsOf(m) == [d \in ClockDigits |-> CASE d = 4 -> m % 10 [] d = 5 -> (m % 60) \div 10
                                         [] d = 6 -> (m \div 60) % 10 [] d = 7 -> (m \div 60) \div 10]

\* Four registers read one after the other give a time the host had meanwhile,
\* less six minutes (rtc.c:96-114), unless a digit above the last one changed in
\* between or the hour was less than six minutes old, which the code gets wrong.
ClockReadsTrue ==
  LET span == look.from .. look.to
      torn == \E t \in span : \E d \in 5 .. 7 : DigitsOf(t - 6)[d] # DigitsOf(look.from - 6)[d]
      early == \E t \in span : t % 60 < 6
  IN (\A d \in ClockDigits : look.digits[d] # Unread) /\ ~torn /\ ~early
       => \E t \in span : look.digits = DigitsOf(t - 6)

\* The value after the last "name" of a well-formed command line.
LastOf(name, line, default) ==
  LET at == {i \in DOMAIN line : i % 2 = 1 /\ line[i] = name}
  IN IF at = {} THEN default ELSE line[1 + CHOOSE i \in at : \A j \in at : j <= i]

WellFormed(line) ==
  /\ Len(line) % 2 = 0
  /\ \A i \in DOMAIN line : i % 2 = 1 =>
       \/ line[i] = "-speed"
       \/ line[i] = "-machine" /\ line[i + 1] # "list"
       \/ line[i] = "-debug" /\ line[i + 1] \in DebugLevels

\* The loop is reached exactly by the command lines that ask for this machine
\* and that the host refuses nothing, with the last value of each option and
\* both timers running (main.c:97-113, args.c:95-133, machine.c:121-187).  Of the speed
\* nothing is claimed when none is asked for: the help says "as fast as possible"
\* (args.c:69), the code takes the 5 MHz of the machine's definition (machine.c:179).
StartedAsAsked ==
  LET asked == WellFormed(argv) /\ LastOf("-machine", argv, "1101") = "1101"
      mhz == atof(LastOf("-speed", argv, "0"))
  IN /\ step = "exited" => ~asked \/ refused
     /\ Started =>
          /\ asked /\ ~refused
          /\ options.debug = LastOf("-debug", argv, "info")
          /\ mhz # 0 => speed = IF mhz > 0 THEN mhz ELSE -1
          /\ timers = <<"gridKeyboard8741_tickCallback", "gridvideo_scanlineCallback">>
=============================================================================

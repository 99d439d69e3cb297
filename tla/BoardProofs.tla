----------------------------- MODULE BoardProofs -----------------------------
(***************************************************************************)
(* Theorems about Board, for any sample of the addresses (all of them, if  *)
(* one likes), any boot ROM, command lines and guest programs.             *)
(***************************************************************************)
EXTENDS Board, SequenceTheorems, WellFoundedInduction, TLAPS

-----------------------------------------------------------------------------
(* The address map *)

Idt(a)   == Within(a, 0, \h400)
Video(a) == Within(a, VIDEOBASE, videoBytes)
Main(a)  == Within(a, ramMainBase, ramMainSize)
Rom(a)   == Within(a, romBase, romSize)

\* The steps behind the one that maps a block.
AfterRom  == {"speed", "i8259_init", "gridKeyboard8741_init", "bubble_init", "uart_init",
              "modem_init", "tms9914a_init", "rtc_init", "gridvideo_init", "run", "quit"}
AfterMain == AfterRom \cup {"rom"}
AfterIdt  == AfterMain \cup {"main"}
BeforeIdt == {"memory_init", "ports_init", "timing_init", "args_parse",
              "sdlconsole_init", "machine_defs", "idt"}

\* Where an address leads that start-up has mapped so far.
Pointer(a) ==
  IF Idt(a) /\ step \in AfterIdt THEN <<"idt", a>>
  ELSE IF Main(a) /\ step \in AfterMain THEN <<"main", a - ramMainBase>>
  ELSE IF Rom(a) /\ step \in AfterRom THEN <<"rom", a - romBase>>
  ELSE NullPointer

\* Every step of start-up has mapped its block at its addresses and nowhere else.
Mapped ==
  /\ mapRead = [a \in Addresses |-> Pointer(a)]
  /\ mapWrite = [a \in Addresses |-> IF Rom(a) THEN NullPointer ELSE Pointer(a)]

\* What the tables point at is allocated, and the ROM holds its image.
HeapTyped == heap \in [DOMAIN heap -> 0 .. 255]
Backed    == \A a \in Addresses : mapRead[a] # NullPointer => mapRead[a] \in DOMAIN heap
NoRom     == \A c \in DOMAIN heap : c[1] # "rom"
RomLoaded == \A a \in Addresses : Rom(a) =>
               heap[<<"rom", a - romBase>>] = RomByte[a - romBase]
Allocated == HeapTyped /\ Backed /\ IF step \in AfterRom THEN RomLoaded ELSE NoRom

\* No device answers where memory is, but the screen where it should once it is
\* attached.
MemoryBare == \A a \in MemoryAddresses :
                callback[a] = IF Started /\ Video(a) THEN "gridvideo" ELSE NULL
ScreenPlaced == \A a \in Addresses : callback[a] = "gridvideo" => Video(a)
ClockPlaced  == \A a \in Addresses : callback[a] = "rtc" => Within(a, rtcBase, rtcLen)
Attached == MemoryBare /\ ScreenPlaced /\ ClockPlaced

\* The guest stays in the sample.
Wrapped == \A addr \in program.addresses : Wrap(addr) \in Addresses

MapInv == Wrapped /\ (step # "exited" => Mapped /\ Allocated /\ Attached)

\* The window shows the video RAM unless it is about to be drawn.
ScreenInv ==
  /\ gridvideo_RAM \in [VideoOffsets -> 0 .. 255]
  /\ gridvideo_doDraw = 0 =>
       sdl_framebuffer = [p \in VideoOffsets |-> gridvideo_RAM[Drawn(p)]]

-----------------------------------------------------------------------------
(* The clock *)

\* Digit d as the clock gives it at minute t: four bits.
DigitAt(d, t) == RtcDigit(d, HostTime(t)) % 16

\* Each digit was read at some minute of the look.
ClockInv ==
  /\ minute \in Nat /\ minute < 24 * 60
  /\ look \in [from : Nat, to : Nat, digits : [ClockDigits -> 0 .. Unread]]
  /\ look.to <= minute
  /\ look.from <= look.to
  /\ \A d \in ClockDigits : look.digits[d] # Unread =>
       \E t \in look.from .. look.to : look.digits[d] = DigitAt(d, t)


-----------------------------------------------------------------------------
(* Ranges *)

\* A range as two inequalities.
LEMMA WithinBounds ==
  ASSUME NEW a \in Int, NEW start \in Int, NEW len \in Int
  PROVE  Within(a, start, len) <=> start <= a /\ a < start + len
BY DEF Within

\* The address map (config.h:59-83, machine.c:63-73).
LEMMA Regions ==
  ASSUME NEW a \in Addresses
  PROVE  /\ a \in Int /\ 0 <= a
         /\ Idt(a) <=> a < 1024
         /\ Video(a) <=> 1024 <= a /\ a < 10624
         /\ Main(a) <=> 10624 <= a /\ a < 262144
         /\ Rom(a) <=> romBase <= a /\ a < romBase + romSize
         /\ romBase \in Int /\ romSize \in Int /\ romBase >= 262144
         /\ a < romBase + romSize
<1>1. a \in Int /\ 0 <= a /\ a < CPU_ADDRESS_RANGE
  <2>1. CPU_ADDRESS_RANGE \in Int
    BY DEF CPU_ADDRESS_RANGE
  <2> QED
    BY <2>1, BoardAssumption
<1>2. /\ VIDEOBASE = 1024 /\ videoBytes = 9600 /\ ramMainBase = 10624
      /\ ramMainSize = 262144 - 10624
  BY DEF ramMainBase, ramMainSize, VIDEOBASE, videoBytes
<1>3. /\ romBase \in Int /\ romSize \in Int /\ romBase >= 262144
      /\ CPU_ADDRESS_RANGE = romBase + romSize
  BY DEF romBase, romSize, CPU_ADDRESS_RANGE
<1>4. Idt(a) <=> 0 <= a /\ a < 0 + \h400
  BY <1>1, WithinBounds DEF Idt
<1>5. Video(a) <=> VIDEOBASE <= a /\ a < VIDEOBASE + videoBytes
  BY <1>1, <1>2, WithinBounds DEF Video
<1>6. Main(a) <=> ramMainBase <= a /\ a < ramMainBase + (ramMainSize)
  BY <1>1, <1>2, WithinBounds DEF Main
<1>7. Rom(a) <=> romBase <= a /\ a < romBase + romSize
  BY <1>1, <1>3, WithinBounds DEF Rom
<1> QED
  BY <1>1, <1>2, <1>3, <1>4, <1>5, <1>6, <1>7

-----------------------------------------------------------------------------
(* The address map is built *)

\* A step that leaves the tables, the memory and the stage of start-up alone
\* keeps the map.
LEMMA MapSame ==
  ASSUME MapInv, UNCHANGED <<program, mapRead, mapWrite, callback, heap>>,
         \/ step' = "exited"
         \/ /\ step \in BeforeIdt \ {"idt"} /\ step' \in BeforeIdt
         \/ /\ step \in {"speed", "i8259_init"}
            /\ step' \in {"i8259_init", "gridKeyboard8741_init"}
         \/ /\ step = "run" /\ step' \in {"run", "quit"}
         \/ step' = step
  PROVE  MapInv'
<1>1. Wrapped'
  BY DEF MapInv, Wrapped
<1> SUFFICES ASSUME step' # "exited"
             PROVE  Mapped' /\ Allocated' /\ Attached'
  BY <1>1 DEF MapInv
<1>2. /\ step \in AfterIdt <=> step' \in AfterIdt
      /\ step \in AfterMain <=> step' \in AfterMain
      /\ step \in AfterRom <=> step' \in AfterRom
      /\ Started <=> Started'
      /\ step # "exited"
  BY DEF BeforeIdt, AfterIdt, AfterMain, AfterRom, Started
<1>3. \A a : Pointer(a)' = Pointer(a)
  BY <1>2 DEF Pointer
<1>4. Mapped /\ Allocated /\ Attached
  BY <1>2 DEF MapInv
<1> QED
  BY <1>2, <1>3, <1>4 DEF Mapped, Allocated, HeapTyped, Backed, NoRom, RomLoaded, Attached,
      MemoryBare, ScreenPlaced, ClockPlaced

\* At first nothing is mapped and nothing attached.
LEMMA MapInit == BoardInit => MapInv
<1> SUFFICES ASSUME BoardInit
             PROVE  MapInv
  OBVIOUS
<1>1. Wrapped
  <2>1. PICK s \in Sessions : program = s.program
    BY DEF BoardInit
  <2>2. \A addr \in s.program.addresses : Wrap(addr) \in Addresses
    BY BoardAssumption
  <2> QED
    BY <2>1, <2>2 DEF Wrapped
<1>2. \A a : Pointer(a) = NullPointer
  BY DEF BoardInit, Pointer, AfterIdt, AfterMain, AfterRom
<1>3. Mapped
  BY <1>2 DEF BoardInit, Mapped, NoPointers
<1>4. Allocated
  BY DEF BoardInit, Allocated, HeapTyped, Backed, NoRom, NoPointers, NullPointer, AfterRom
<1>5. Attached
  BY DEF BoardInit, Attached, MemoryBare, ScreenPlaced, ClockPlaced, NoDevices, NULL, Started, MemoryAddresses
<1> QED
  BY <1>1, <1>3, <1>4, <1>5 DEF MapInv

RamAt(block, start, len) ==
  /\ \E junk \in Bytes :
       heap' = [c \in DOMAIN heap \cup {<<block, o>> : o \in Offsets(start, len)} |->
                  IF c[1] = block THEN junk ELSE heap[c]]
  /\ mapRead' = memory_mapRegister(mapRead, start, len, block)
  /\ mapWrite' = memory_mapRegister(mapWrite, start, len, block)

\* malloc and memory_mapRegister: every pointer leads to allocated memory, and
\* none to a ROM that is not there yet (machine.c:142-154).
LEMMA RamAllocated ==
  ASSUME NEW block \in {"idt", "main"}, NEW start \in Int, NEW len \in Int,
         Allocated, Mapped, step \notin AfterRom, RamAt(block, start, len)
  PROVE  HeapTyped' /\ Backed' /\ NoRom'
<1> DEFINE fresh == {<<block, o>> : o \in Offsets(start, len)}
<1>a. mapRead' = memory_mapRegister(mapRead, start, len, block)
  BY DEF RamAt
<1>b. PICK junk \in Bytes :
         heap' = [c \in DOMAIN heap \cup fresh |-> IF c[1] = block THEN junk ELSE heap[c]]
  BY DEF RamAt
<1>1. DOMAIN heap' = DOMAIN heap \cup fresh
  BY <1>b
<1>2. \A c \in fresh : c[1] = block
  OBVIOUS
<1>3. ASSUME NEW c \in DOMAIN heap'
      PROVE  heap'[c] \in 0 .. 255
  <2>1. heap'[c] = IF c[1] = block THEN junk ELSE heap[c]
    BY <1>b, <1>1, <1>3
  <2>2. junk \in 0 .. 255
    BY BoardAssumption
  <2>3. c \in DOMAIN heap \/ c[1] = block
    BY <1>1, <1>2, <1>3
  <2>4. c \in DOMAIN heap => heap[c] \in 0 .. 255
    BY DEF Allocated, HeapTyped
  <2> QED
    BY <2>1, <2>2, <2>3, <2>4
<1>4. \A c \in DOMAIN heap' : c[1] # "rom"
  BY <1>1, <1>2 DEF Allocated, NoRom
<1>5. ASSUME NEW a \in Addresses, mapRead'[a] # NullPointer
      PROVE  mapRead'[a] \in DOMAIN heap'
  <2>1. CASE Within(a, start, len)
    <3>1. a - start \in Offsets(start, len) /\ mapRead'[a] = <<block, a - start>>
      BY <1>a, <2>1 DEF Offsets, memory_mapRegister
    <3> QED
      BY <3>1, <1>1
  <2>2. CASE ~Within(a, start, len)
    BY <1>a, <2>2, <1>1, <1>5 DEF Allocated, Backed, Mapped, memory_mapRegister
  <2> QED
    BY <2>1, <2>2
<1>6. HeapTyped'
  BY <1>b, <1>3 DEF HeapTyped
<1> QED
  BY <1>4, <1>5, <1>6 DEF NoRom, Backed

\* What a block of RAM does that the host does not refuse.
LEMMA RamGranted ==
  ASSUME NEW block, NEW start, NEW len, NEW next,
         MapRam(block, start, len, next), step' # "exited"
  PROVE  step = block /\ step' = next /\ RamAt(block, start, len)
BY DEF MapRam, Granted, Denied, Step, RamAt

\* The two RAM blocks are mapped (machine.c:63-85, 142-154).
LEMMA RamsMapped ==
  ASSUME MapInv, MapRams
  PROVE  MapInv'
<1>1. Wrapped'
  BY DEF MapInv, Wrapped, MapRams
<1> SUFFICES ASSUME step' # "exited"
             PROVE  Mapped' /\ Allocated' /\ Attached'
  BY <1>1 DEF MapInv
<1>2. \/ /\ step = "idt" /\ step' = "main"
         /\ RamAt("idt", 0, \h400)
      \/ /\ step = "main" /\ step' = "rom"
         /\ RamAt("main", ramMainBase, ramMainSize)
  BY RamGranted DEF MapRams
<1>3. Mapped /\ Allocated /\ Attached /\ step \notin AfterRom /\ step' \notin AfterRom
  BY <1>2 DEF MapInv, AfterRom
<1>5. Attached'
  BY <1>2, <1>3 DEF Attached, MemoryBare, ScreenPlaced, ClockPlaced, Started, MapRams
<1>6. Allocated'
  <2>1. HeapTyped' /\ Backed' /\ NoRom'
    <3>1. 0 \in Int /\ \h400 \in Int /\ ramMainBase \in Int /\ ramMainSize \in Int
      BY DEF ramMainBase, ramMainSize, VIDEOBASE, videoBytes
    <3>2. CASE RamAt("idt", 0, \h400)
      BY <3>1, <3>2, <1>3, RamAllocated
    <3>3. CASE RamAt("main", ramMainBase, ramMainSize)
      BY <3>1, <3>3, <1>3, RamAllocated
    <3> QED
      BY <1>2, <3>2, <3>3
  <2> QED
    BY <2>1, <1>3 DEF Allocated
<1>7. Mapped'
  <2>1. \A a \in Addresses : Idt(a) => ~Main(a) /\ ~Rom(a)
    BY Regions
  <2>2. \A a \in Addresses : Main(a) => ~Rom(a)
    BY Regions
  <2>3. CASE step = "idt"
    <3>1. \A a \in Addresses : a - 0 = a
      BY Regions
    <3>2. \A a \in Addresses : /\ Pointer(a) = NullPointer
                               /\ Pointer(a)' = IF Idt(a) THEN <<"idt", a - 0>> ELSE NullPointer
      BY <2>3, <1>2, <3>1 DEF Pointer, AfterIdt, AfterMain, AfterRom
    <3>3. /\ mapRead' = memory_mapRegister(mapRead, 0, \h400, "idt")
          /\ mapWrite' = memory_mapRegister(mapWrite, 0, \h400, "idt")
      BY <2>3, <1>2 DEF RamAt
    <3> QED
      BY <3>2, <3>3, <1>3, <2>1 DEF Mapped, memory_mapRegister, Idt
  <2>4. CASE step = "main"
    <3>1. \A a \in Addresses :
             /\ Pointer(a) = IF Idt(a) THEN <<"idt", a>> ELSE NullPointer
             /\ Pointer(a)' = IF Idt(a) THEN <<"idt", a>>
                              ELSE IF Main(a) THEN <<"main", a - ramMainBase>>
                              ELSE NullPointer
      BY <2>4, <1>2 DEF Pointer, AfterIdt, AfterMain, AfterRom
    <3>2. /\ mapRead' = memory_mapRegister(mapRead, ramMainBase, ramMainSize, "main")
          /\ mapWrite' = memory_mapRegister(mapWrite, ramMainBase, ramMainSize, "main")
      BY <2>4, <1>2 DEF RamAt
    <3> QED
      BY <3>1, <3>2, <1>3, <2>1, <2>2 DEF Mapped, memory_mapRegister, Main
  <2> QED
    BY <1>2, <2>3, <2>4
<1> QED
  BY <1>5, <1>6, <1>7

\* The ROM is loaded and mapped for reading only (machine.c:155-165).
LEMMA RomMapped ==
  ASSUME MapInv, MapRom
  PROVE  MapInv'
<1>1. Wrapped'
  BY DEF MapInv, Wrapped, MapRom
<1> SUFFICES ASSUME step' # "exited"
             PROVE  Mapped' /\ Allocated' /\ Attached'
  BY <1>1 DEF MapInv
<1>2. /\ step = "rom" /\ step' = "speed"
      /\ utility_loadFile
      /\ mapRead' = memory_mapRegister(mapRead, romBase, romSize, "rom")
      /\ mapWrite' = mapWrite /\ callback' = callback
  BY DEF MapRom, Granted, Denied, Step
<1>3. Mapped /\ Allocated /\ Attached /\ NoRom /\ step' \in AfterRom
  BY <1>2 DEF MapInv, AfterRom, Allocated
<1>4. Attached'
  BY <1>2, <1>3 DEF Attached, MemoryBare, ScreenPlaced, ClockPlaced, Started
<1> DEFINE fresh == {<<"rom", o>> : o \in Offsets(romBase, romSize)}
<1>5. heap' = [c \in DOMAIN heap \cup fresh |->
                 IF c \in DOMAIN heap THEN heap[c] ELSE RomByte[c[2]]]
  BY <1>2 DEF utility_loadFile
<1>6. ASSUME NEW a \in Addresses, Rom(a)
      PROVE  /\ a - romBase \in Offsets(romBase, romSize)
             /\ <<"rom", a - romBase>> \in fresh
             /\ <<"rom", a - romBase>> \notin DOMAIN heap
  <2>1. a - romBase \in Offsets(romBase, romSize)
    BY <1>6 DEF Offsets, Rom
  <2> QED
    BY <2>1, <1>3 DEF NoRom
<1>7. RomLoaded'
  BY <1>5, <1>6 DEF RomLoaded
<1>8. HeapTyped'
  <2>1. ASSUME NEW o \in Offsets(romBase, romSize)
        PROVE  RomByte[o] \in 0 .. 255
    <3>1. PICK a \in Addresses : Within(a, romBase, romSize) /\ o = a - romBase
      BY DEF Offsets
    <3>2. o \in 0 .. romSize - 1
      BY <3>1, Regions DEF Rom
    <3> QED
      BY <3>2, BoardAssumption
  <2>2. ASSUME NEW c \in DOMAIN heap \cup fresh
        PROVE  heap'[c] \in 0 .. 255
    <3>1. CASE c \in DOMAIN heap
      BY <3>1, <1>5, <1>3 DEF Allocated, HeapTyped
    <3>2. CASE c \notin DOMAIN heap
      <4>1. PICK o \in Offsets(romBase, romSize) : c = <<"rom", o>>
        BY <3>2
      <4> QED
        BY <3>2, <4>1, <2>1, <1>5
    <3> QED
      BY <3>1, <3>2
  <2> QED
    BY <1>5, <2>2 DEF HeapTyped
<1>9. Backed'
  <2> SUFFICES ASSUME NEW a \in Addresses, mapRead'[a] # NullPointer
               PROVE  mapRead'[a] \in DOMAIN heap'
    BY DEF Backed
  <2>1. CASE Rom(a)
    BY <2>1, <1>2, <1>5, <1>6 DEF memory_mapRegister, Rom
  <2>2. CASE ~Rom(a)
    BY <2>2, <1>2, <1>3, <1>5 DEF memory_mapRegister, Rom, Mapped, Allocated, Backed
  <2> QED
    BY <2>1, <2>2
<1>10. Allocated'
  BY <1>3, <1>7, <1>8, <1>9 DEF Allocated
<1>11. Mapped'
  <2>1. \A a \in Addresses : Rom(a) => ~Idt(a) /\ ~Main(a)
    BY Regions
  <2>2. \A a \in Addresses :
           /\ Pointer(a) = IF Idt(a) THEN <<"idt", a>>
                           ELSE IF Main(a) THEN <<"main", a - ramMainBase>>
                           ELSE NullPointer
           /\ Pointer(a)' = IF Idt(a) THEN <<"idt", a>>
                            ELSE IF Main(a) THEN <<"main", a - ramMainBase>>
                            ELSE IF Rom(a) THEN <<"rom", a - romBase>>
                            ELSE NullPointer
    BY <1>2 DEF Pointer, AfterIdt, AfterMain, AfterRom
  <2> QED
    BY <2>1, <2>2, <1>2, <1>3 DEF Mapped, memory_mapRegister, Rom
<1> QED
  BY <1>4, <1>10, <1>11

\* Behind the ROM the stages of the map are over.
LEMMA MapStays ==
  ASSUME Mapped, Allocated, step \in AfterRom, step' \in AfterRom,
         UNCHANGED <<mapRead, mapWrite, heap>>
  PROVE  Mapped' /\ Allocated'
<1>1. \A a : Pointer(a)' = Pointer(a)
  BY DEF Pointer, AfterIdt, AfterMain, AfterRom
<1> QED
  BY <1>1 DEF Mapped, Allocated, HeapTyped, Backed, NoRom, RomLoaded

\* A device attached outside memory leaves memory alone (memory.c:100-116).
LEMMA DeviceAttached ==
  ASSUME MapInv, NEW start, NEW count, NEW device,
         memory_mapCallbackRegister(start, count, device),
         \A a \in MemoryAddresses : ~Within(a, start, count),
         device # "gridvideo",
         device = "rtc" => start = rtcBase /\ count = rtcLen,
         UNCHANGED <<program, mapRead, mapWrite, heap>>,
         step \in AfterRom \ {"run", "quit"},
         step' \in AfterRom \cup {"exited"}, step' \notin {"run", "quit"}
  PROVE  MapInv'
<1>1. Wrapped'
  BY DEF MapInv, Wrapped
<1> SUFFICES ASSUME step' # "exited"
             PROVE  Mapped' /\ Allocated' /\ Attached'
  BY <1>1 DEF MapInv
<1>2. Mapped /\ Allocated /\ Attached
  BY DEF MapInv, AfterRom
<1>3. Mapped' /\ Allocated'
  BY <1>2, MapStays
<1>4. \A a \in Addresses : callback'[a] = IF Within(a, start, count) THEN device ELSE callback[a]
  BY DEF memory_mapCallbackRegister
<1>5. ~Started /\ ~Started'
  BY DEF Started
<1>6. MemoryBare'
  <2>1. \A a \in MemoryAddresses : a \in Addresses
    BY DEF MemoryAddresses
  <2> QED
    BY <2>1, <1>2, <1>4, <1>5 DEF Attached, MemoryBare
<1>7. ScreenPlaced'
  BY <1>2, <1>4 DEF Attached, ScreenPlaced
<1>8. ClockPlaced'
  BY <1>2, <1>4 DEF Attached, ClockPlaced
<1> QED
  BY <1>3, <1>6, <1>7, <1>8 DEF Attached

\* The screen comes last, and answers where video RAM is (gridvideo.c:44-56).
LEMMA VideoAttached ==
  ASSUME MapInv, gridvideo_init
  PROVE  MapInv'
<1>1. Wrapped'
  BY DEF MapInv, Wrapped, gridvideo_init, Attach
<1>2. step = "gridvideo_init" /\ step' = "run"
  BY DEF gridvideo_init, Granted, Step
<1>3. Mapped /\ Allocated /\ Attached
  BY <1>2 DEF MapInv
<1>4. Mapped' /\ Allocated'
  BY <1>2, <1>3, MapStays DEF gridvideo_init, Attach, AfterRom
<1>5. \A a \in Addresses : callback'[a] = IF Video(a) THEN "gridvideo" ELSE callback[a]
  BY DEF gridvideo_init, Attach, memory_mapCallbackRegister, Video
<1>6. ~Started /\ Started'
  BY <1>2 DEF Started
<1>7. Attached'
  BY <1>3, <1>5, <1>6 DEF Attached, MemoryBare, ScreenPlaced, ClockPlaced, MemoryAddresses
<1> QED
  BY <1>1, <1>4, <1>7 DEF MapInv

\* No device answers at a memory address.
LEMMA DevicesApart ==
  ASSUME NEW a \in MemoryAddresses
  PROVE  /\ ~Within(a, \hDFE80, 4) /\ ~Within(a, \hDFEC0, 7) /\ ~Within(a, \hDFF00, 8)
         /\ ~Within(a, rtcBase, rtcLen) /\ ~Within(a, tmsBase, 15)
         /\ ~Within(a, \hDFFC0, 4)
<1>1. ASSUME NEW start, NEW len,
             <<start, len>> \in {<<\hDFE80, 4>>, <<\hDFEC0, 7>>, <<\hDFF00, 8>>,
                                <<rtcBase, rtcLen>>, <<tmsBase, 15>>, <<\hDFFC0, 4>>}
      PROVE  ~Within(a, start, len)
  <2>1. <<start, len>>[1] = start /\ <<start, len>>[2] = len
    OBVIOUS
  <2> QED
    BY <1>1, <2>1 DEF MemoryAddresses
<1> QED
  BY <1>1

\* Every call of start-up keeps the map.
LEMMA StartUpKeepsMap ==
  ASSUME MapInv, StartUp
  PROVE  MapInv'
<1>1. CASE memory_init
  <2>1. /\ step = "memory_init" /\ step' = "ports_init"
        /\ program' = program /\ heap' = heap
        /\ mapRead' = NoPointers /\ mapWrite' = NoPointers /\ callback' = NoDevices
    BY <1>1 DEF memory_init, Granted, Step
  <2>2. Mapped /\ Allocated
    BY <2>1 DEF MapInv
  <2>3. \A a : Pointer(a) = NullPointer /\ Pointer(a)' = NullPointer
    BY <2>1 DEF Pointer, AfterIdt, AfterMain, AfterRom
  <2>4. Mapped'
    BY <2>1, <2>3 DEF Mapped, NoPointers
  <2>5. Allocated'
    BY <2>1, <2>2 DEF Allocated, HeapTyped, Backed, NoRom, NoPointers, AfterRom
  <2>6. Attached'
    <3>1. \A a \in MemoryAddresses : a \in Addresses
      BY DEF MemoryAddresses
    <3> QED
      BY <2>1, <3>1
      DEF Attached, MemoryBare, ScreenPlaced, ClockPlaced, NoDevices, NULL, Started
  <2> QED
    BY <2>1, <2>4, <2>5, <2>6 DEF MapInv, Wrapped
<1>2. CASE ports_init \/ timing_init \/ ParseArgs \/ sdlconsole_init \/ FindMachine
  <2>1. /\ UNCHANGED <<program, mapRead, mapWrite, callback, heap>>
        /\ step \in BeforeIdt \ {"idt"}
        /\ step' \in BeforeIdt \cup {"exited"}
    BY <1>2 DEF ports_init, timing_init, ParseArgs, sdlconsole_init, FindMachine, Granted,
       Denied, Step, BeforeIdt, tables
  <2> QED
    BY <2>1, MapSame
<1>3. CASE ChooseSpeed \/ i8259_init
  <2>1. /\ UNCHANGED <<program, mapRead, mapWrite, callback, heap>>
        /\ step \in {"speed", "i8259_init"}
        /\ step' \in {"i8259_init", "gridKeyboard8741_init"}
    BY <1>3 DEF ChooseSpeed, i8259_init, Granted, Step, tables
  <2> QED
    BY <2>1, MapSame
<1>4. CASE gridKeyboard8741_init
  BY <1>4, DeviceAttached, DevicesApart
  DEF gridKeyboard8741_init, Attach, Granted, Step, AfterRom
<1>5. CASE bubble_init
  <2>1. CASE step' = "exited" /\ UNCHANGED <<program, tables, heap>>
    BY <2>1, MapSame DEF tables
  <2>2. CASE /\ step = "bubble_init" /\ step' \in {"uart_init", "exited"}
             /\ Attach(\hDFE80, 4, "bubble", <<>>)
    BY <2>2, DeviceAttached, DevicesApart DEF Attach, AfterRom
  <2> QED
    BY <1>5, <2>1, <2>2 DEF bubble_init, Granted, Denied, Step
<1>6. CASE uart_init
  BY <1>6, DeviceAttached, DevicesApart DEF uart_init, Attach, Granted, Step, AfterRom
<1>7. CASE modem_init
  BY <1>7, DeviceAttached, DevicesApart DEF modem_init, Attach, Granted, Step, AfterRom
<1>8. CASE tms9914a_init
  BY <1>8, DeviceAttached, DevicesApart DEF tms9914a_init, Granted, Step, AfterRom
<1>9. CASE rtc_init
  BY <1>9, DeviceAttached, DevicesApart DEF rtc_init, Attach, Granted, Step, AfterRom
<1> QED
  BY <1>1, <1>2, <1>3, <1>4, <1>5, <1>6, <1>7, <1>8, <1>9, RamsMapped, RomMapped,
     VideoAttached DEF StartUp

-----------------------------------------------------------------------------
(* What an address answers *)

\* Devices are where no memory is.
LEMMA DevicesOutside ==
  ASSUME NEW a \in Addresses, a \notin MemoryAddresses
  PROVE  ~Idt(a) /\ ~Video(a) /\ ~Main(a) /\ ~Rom(a)
<1>1. PICK start, len :
         /\ <<start, len>> \in {<<\hDFE80, 4>>, <<\hDFEC0, 7>>, <<\hDFF00, 8>>,
                               <<rtcBase, rtcLen>>, <<tmsBase, 15>>, <<\hDFFC0, 4>>}
         /\ Within(a, start, len)
  BY DEF MemoryAddresses
<1>2. /\ start \in Int /\ len \in Int
      /\ 262144 <= start /\ start + len <= romBase
  BY <1>1, SMT DEF rtcBase, rtcLen, tmsBase, romBase
<1>3. 262144 <= a /\ a < romBase
  BY <1>1, <1>2, WithinBounds, Regions
<1> QED
  BY <1>3, Regions

\* Once the machine runs, memory is where the map says.
LEMMA StartedPointer ==
  ASSUME Started
  PROVE  \A a : Pointer(a) = IF Idt(a) THEN <<"idt", a>>
                             ELSE IF Main(a) THEN <<"main", a - ramMainBase>>
                             ELSE IF Rom(a) THEN <<"rom", a - romBase>>
                             ELSE NullPointer
BY DEF Started, Pointer, AfterIdt, AfterMain, AfterRom

\* The byte behind an address.
Cell(a) ==
  IF Idt(a) THEN heap[<<"idt", a>>]
  ELSE IF Video(a) THEN gridvideo_RAM[a - VIDEOBASE]
  ELSE IF Main(a) THEN heap[<<"main", a - ramMainBase>>]
  ELSE IF Rom(a) THEN heap[<<"rom", a - romBase>>]
  ELSE 255

\* cpu_read gives the byte behind a memory address (memory.c:59-81).
LEMMA Answers ==
  MapInv /\ Started =>
    \A a \in MemoryAddresses : cpu_read(a) = {Cell(a)} /\ Seen(a) = Cell(a)
<1> SUFFICES ASSUME MapInv, Started, NEW a \in MemoryAddresses
             PROVE  cpu_read(a) = {Cell(a)} /\ Seen(a) = Cell(a)
  OBVIOUS
<1>1. a \in Addresses
  BY DEF MemoryAddresses
<1>2. Mapped /\ Attached
  BY DEF MapInv, Started
<1>3. mapRead[a] = Pointer(a)
  BY <1>1, <1>2 DEF Mapped
<1>4. callback[a] = IF Video(a) THEN "gridvideo" ELSE NULL
  BY <1>2 DEF Attached, MemoryBare
<1>5. cpu_read(a) = {Cell(a)}
  <2>1. CASE Idt(a)
    <3>1. mapRead[a] = <<"idt", a>> /\ mapRead[a] # NullPointer
      BY <2>1, <1>3, StartedPointer DEF NullPointer, NULL
    <3> QED
      BY <2>1, <3>1 DEF cpu_read, Cell
  <2>2. CASE Video(a)
    <3>1. ~Idt(a) /\ ~Main(a) /\ ~Rom(a)
      BY <2>2, <1>1, Regions
    <3>2. mapRead[a] = NullPointer
      BY <3>1, <1>3, StartedPointer
    <3>3. a - VIDEOBASE < videoBytes
      BY <2>2, <1>1, Regions DEF VIDEOBASE, videoBytes
    <3> QED
      BY <2>2, <3>1, <3>2, <3>3, <1>4
      DEF cpu_read, Cell, DeviceAnswers, gridvideo_readmemory, NULL
  <2>3. CASE Main(a)
    <3>1. ~Idt(a) /\ ~Video(a)
      BY <2>3, <1>1, Regions
    <3>2. mapRead[a] = <<"main", a - ramMainBase>> /\ mapRead[a] # NullPointer
      BY <2>3, <3>1, <1>3, StartedPointer DEF NullPointer, NULL
    <3> QED
      BY <2>3, <3>1, <3>2 DEF cpu_read, Cell
  <2>4. CASE Rom(a)
    <3>1. ~Idt(a) /\ ~Video(a) /\ ~Main(a)
      BY <2>4, <1>1, Regions
    <3>2. mapRead[a] = <<"rom", a - romBase>> /\ mapRead[a] # NullPointer
      BY <2>4, <3>1, <1>3, StartedPointer DEF NullPointer, NULL
    <3> QED
      BY <2>4, <3>1, <3>2 DEF cpu_read, Cell
  <2>5. CASE ~Idt(a) /\ ~Video(a) /\ ~Main(a) /\ ~Rom(a)
    <3>1. mapRead[a] = NullPointer
      BY <2>5, <1>3, StartedPointer
    <3> QED
      BY <2>5, <3>1, <1>4 DEF cpu_read, Cell
  <2> QED
    BY <2>1, <2>2, <2>3, <2>4, <2>5
<1> QED
  BY <1>5 DEF Seen

\* So it does after a step.
LEMMA AnswersNext ==
  MapInv' /\ Started' =>
    \A a \in MemoryAddresses : cpu_read(a)' = {Cell(a)'} /\ Seen(a)' = Cell(a)'
<1>1. (MapInv /\ Started =>
         \A a \in MemoryAddresses : cpu_read(a) = {Cell(a)} /\ Seen(a) = Cell(a))'
  BY Answers, PTL
<1> QED
  BY <1>1

\* The byte behind an address is one, and that of a ROM or a gap is given.
LEMMA CellTyped ==
  MapInv /\ ScreenInv /\ Started =>
    \A a \in MemoryAddresses : /\ Cell(a) \in 0 .. 255
                               /\ a \notin RamAddresses => Cell(a) = OtherBytes[a]
<1> SUFFICES ASSUME MapInv, ScreenInv, Started, NEW a \in MemoryAddresses
             PROVE  /\ Cell(a) \in 0 .. 255
                    /\ a \notin RamAddresses => Cell(a) = OtherBytes[a]
  OBVIOUS
<1>1. a \in Addresses
  BY DEF MemoryAddresses
<1>2. Mapped /\ Allocated /\ RomLoaded
  BY DEF MapInv, Started, Allocated, AfterRom
<1>3. mapRead[a] = Pointer(a)
  BY <1>1, <1>2 DEF Mapped
<1>4. ramMainBase + ramMainSize = 262144
  BY DEF ramMainBase, ramMainSize, VIDEOBASE, videoBytes
<1>5. OtherBytes[a] = IF a >= romBase THEN RomByte[a - romBase] ELSE 255
  BY DEF OtherBytes
<1>6. Pointer(a) # NullPointer => heap[Pointer(a)] \in 0 .. 255
  BY <1>1, <1>2, <1>3 DEF Allocated, Backed, HeapTyped
<1>7. CASE Idt(a)
  <2>1. Pointer(a) = <<"idt", a>> /\ Pointer(a) # NullPointer
    BY <1>7, StartedPointer DEF NullPointer, NULL
  <2>2. a \in RamAddresses
    BY <1>7, <1>1, <1>4, Regions DEF RamAddresses
  <2> QED
    BY <1>7, <2>1, <2>2, <1>6 DEF Cell
<1>8. CASE Video(a)
  <2>1. ~Idt(a)
    BY <1>8, <1>1, Regions
  <2>2. a - VIDEOBASE \in VideoOffsets
    BY <1>8, <1>1 DEF VideoOffsets, Offsets, Video
  <2>3. a \in RamAddresses
    BY <1>8, <1>1, <1>4, Regions DEF RamAddresses
  <2> QED
    BY <1>8, <2>1, <2>2, <2>3 DEF Cell, ScreenInv
<1>9. CASE Main(a)
  <2>1. ~Idt(a) /\ ~Video(a)
    BY <1>9, <1>1, Regions
  <2>2. Pointer(a) = <<"main", a - ramMainBase>> /\ Pointer(a) # NullPointer
    BY <1>9, <2>1, StartedPointer DEF NullPointer, NULL
  <2>3. a \in RamAddresses
    BY <1>9, <1>1, <1>4, Regions DEF RamAddresses
  <2> QED
    BY <1>9, <2>1, <2>2, <2>3, <1>6 DEF Cell
<1>10. CASE Rom(a)
  <2>1. ~Idt(a) /\ ~Video(a) /\ ~Main(a) /\ a >= romBase
    BY <1>10, <1>1, Regions
  <2>2. Pointer(a) = <<"rom", a - romBase>> /\ Pointer(a) # NullPointer
    BY <1>10, <2>1, StartedPointer DEF NullPointer, NULL
  <2>3. heap[<<"rom", a - romBase>>] = RomByte[a - romBase]
    BY <1>10, <1>1, <1>2 DEF RomLoaded
  <2> QED
    BY <1>10, <2>1, <2>2, <2>3, <1>5, <1>6 DEF Cell
<1>11. CASE ~Idt(a) /\ ~Video(a) /\ ~Main(a) /\ ~Rom(a)
  <2>1. ~(a >= romBase)
    BY <1>11, <1>1, Regions
  <2> QED
    BY <1>11, <2>1, <1>5 DEF Cell
<1> QED
  BY <1>7, <1>8, <1>9, <1>10, <1>11

-----------------------------------------------------------------------------
(* What a write changes *)

\* cpu_write goes through a write pointer to that cell of RAM, to the screen, or
\* nowhere (memory.c:44-57).
LEMMA WriteGoes ==
  ASSUME MapInv, Started, NEW a \in Addresses, NEW byte, cpu_write(a, byte)
  PROVE  /\ Idt(a) => /\ heap' = [heap EXCEPT ![<<"idt", a>>] = byte]
                      /\ <<"idt", a>> \in DOMAIN heap
                      /\ UNCHANGED screen
         /\ Main(a) => /\ heap' = [heap EXCEPT ![<<"main", a - ramMainBase>>] = byte]
                       /\ <<"main", a - ramMainBase>> \in DOMAIN heap
                       /\ UNCHANGED screen
         /\ Video(a) => /\ heap' = heap
                        /\ gridvideo_RAM' = [gridvideo_RAM EXCEPT ![a - VIDEOBASE] = byte]
                        /\ gridvideo_doDraw' = 1 /\ sdl_framebuffer' = sdl_framebuffer
         /\ ~Idt(a) /\ ~Main(a) /\ ~Video(a) => heap' = heap /\ UNCHANGED screen
<1>1. Mapped /\ Attached /\ Backed
  BY DEF MapInv, Started, Allocated
<1>2. /\ mapRead[a] = Pointer(a)
      /\ mapWrite[a] = IF Rom(a) THEN NullPointer ELSE Pointer(a)
  BY <1>1 DEF Mapped
<1>3. CASE Idt(a)
  <2>1. ~Rom(a) /\ ~Main(a) /\ ~Video(a)
    BY <1>3, Regions
  <2>2. Pointer(a) = <<"idt", a>> /\ Pointer(a) # NullPointer
    BY <1>3, StartedPointer DEF NullPointer, NULL
  <2> QED
    BY <1>3, <1>1, <1>2, <2>1, <2>2 DEF cpu_write, Backed, screen
<1>4. CASE Main(a)
  <2>1. ~Rom(a) /\ ~Idt(a) /\ ~Video(a)
    BY <1>4, Regions
  <2>2. Pointer(a) = <<"main", a - ramMainBase>> /\ Pointer(a) # NullPointer
    BY <1>4, <2>1, StartedPointer DEF NullPointer, NULL
  <2> QED
    BY <1>4, <1>1, <1>2, <2>1, <2>2 DEF cpu_write, Backed, screen
<1>5. CASE ~Idt(a) /\ ~Main(a)
  <2>1. mapWrite[a] = NullPointer
    BY <1>5, <1>2, StartedPointer
  <2>2. heap' = heap /\ DeviceWrite(callback[a], a, byte)
    BY <2>1 DEF cpu_write
  <2>3. CASE Video(a)
    <3>1. a \in MemoryAddresses
      BY <2>3, DevicesOutside
    <3>2. callback[a] = "gridvideo"
      BY <2>3, <3>1, <1>1 DEF Attached, MemoryBare
    <3>3. a - VIDEOBASE < videoBytes
      BY <2>3, Regions DEF VIDEOBASE, videoBytes
    <3> QED
      BY <1>5, <2>2, <2>3, <3>2, <3>3 DEF DeviceWrite, gridvideo_writememory
  <2>4. CASE ~Video(a)
    <3>1. callback[a] # "gridvideo"
      BY <2>4, <1>1 DEF Attached, ScreenPlaced
    <3> QED
      BY <1>5, <2>2, <2>4, <3>1 DEF DeviceWrite
  <2> QED
    BY <2>3, <2>4
<1> QED
  BY <1>3, <1>4, <1>5

\* Every cell the map leads to is allocated.
LEMMA CellAllocated ==
  ASSUME MapInv, Started, NEW a \in Addresses
  PROVE  /\ Idt(a) => <<"idt", a>> \in DOMAIN heap
         /\ Main(a) => <<"main", a - ramMainBase>> \in DOMAIN heap
         /\ Rom(a) => <<"rom", a - romBase>> \in DOMAIN heap
<1>1. mapRead[a] = Pointer(a) /\ Backed
  BY DEF MapInv, Started, Allocated, Mapped
<1>2. /\ Main(a) => ~Idt(a)
      /\ Rom(a) => ~Idt(a) /\ ~Main(a)
  BY Regions
<1> QED
  BY <1>1, <1>2, StartedPointer DEF Backed, NullPointer, NULL

\* A write changes the byte behind its own address if that is RAM, and no other.
LEMMA WriteCell ==
  ASSUME MapInv, ScreenInv, Started, NEW a \in Addresses, NEW byte, cpu_write(a, byte),
         NEW b \in MemoryAddresses
  PROVE  Cell(b)' = IF b = a /\ a \in RamAddresses THEN byte ELSE Cell(b)
<1>1. b \in Addresses
  BY DEF MemoryAddresses
<1>2. /\ ramMainBase + ramMainSize = 262144 /\ ramMainBase \in Int /\ VIDEOBASE \in Int
  BY DEF ramMainBase, ramMainSize, VIDEOBASE, videoBytes
<1>3. a \in RamAddresses <=> a \in MemoryAddresses /\ (Idt(a) \/ Video(a) \/ Main(a))
  BY <1>2, Regions DEF RamAddresses
<1>4. /\ a \in Int /\ b \in Int
      /\ Idt(b) => ~Video(b) /\ ~Main(b) /\ ~Rom(b)
      /\ Video(b) => ~Main(b) /\ ~Rom(b)
      /\ Main(b) => ~Rom(b)
      /\ Idt(a) => ~Video(a) /\ ~Main(a) /\ ~Rom(a)
      /\ Video(a) => ~Main(a) /\ ~Rom(a)
      /\ Main(a) => ~Rom(a)
  BY <1>1, Regions
<1>5. CASE Idt(a)
  <2>1. /\ heap' = [heap EXCEPT ![<<"idt", a>>] = byte] /\ <<"idt", a>> \in DOMAIN heap
        /\ gridvideo_RAM' = gridvideo_RAM
    BY <1>5, WriteGoes DEF screen
  <2>2. /\ heap'[<<"idt", a>>] = byte
        /\ \A c \in DOMAIN heap : c # <<"idt", a>> => heap'[c] = heap[c]
    BY <2>1
  <2>3. /\ b # a => <<"idt", b>> # <<"idt", a>>
        /\ <<"main", b - ramMainBase>> # <<"idt", a>>
        /\ <<"rom", b - romBase>> # <<"idt", a>>
    OBVIOUS
  <2> QED
    BY <1>1, <1>3, <1>4, <1>5, <2>1, <2>2, <2>3, CellAllocated DEF Cell
<1>6. CASE Main(a)
  <2>1. /\ heap' = [heap EXCEPT ![<<"main", a - ramMainBase>>] = byte]
        /\ <<"main", a - ramMainBase>> \in DOMAIN heap
        /\ gridvideo_RAM' = gridvideo_RAM
    BY <1>6, WriteGoes DEF screen
  <2>2. /\ heap'[<<"main", a - ramMainBase>>] = byte
        /\ \A c \in DOMAIN heap :
             c # <<"main", a - ramMainBase>> => heap'[c] = heap[c]
    BY <2>1
  <2>3. /\ b # a => <<"main", b - ramMainBase>> # <<"main", a - ramMainBase>>
        /\ <<"idt", b>> # <<"main", a - ramMainBase>>
        /\ <<"rom", b - romBase>> # <<"main", a - ramMainBase>>
    BY <1>2, <1>4
  <2> QED
    BY <1>1, <1>3, <1>4, <1>6, <2>1, <2>2, <2>3, CellAllocated DEF Cell
<1>7. CASE Video(a)
  <2>1. /\ heap' = heap
        /\ gridvideo_RAM' = [gridvideo_RAM EXCEPT ![a - VIDEOBASE] = byte]
    BY <1>7, WriteGoes
  <2>2. a - VIDEOBASE \in VideoOffsets
    BY <1>7 DEF VideoOffsets, Offsets, Video
  <2>3. Video(b) => b - VIDEOBASE \in VideoOffsets
    BY <1>1 DEF VideoOffsets, Offsets, Video
  <2>4. b # a => b - VIDEOBASE # a - VIDEOBASE
    BY <1>2, <1>4
  <2>5. Video(b) => gridvideo_RAM'[b - VIDEOBASE] =
                      IF b = a THEN byte ELSE gridvideo_RAM[b - VIDEOBASE]
    BY <2>1, <2>2, <2>3, <2>4 DEF ScreenInv
  <2> QED
    BY <1>3, <1>4, <1>7, <2>1, <2>5 DEF Cell
<1>8. CASE ~Idt(a) /\ ~Main(a) /\ ~Video(a)
  BY <1>3, <1>8, WriteGoes DEF Cell, screen
<1> QED
  BY <1>5, <1>6, <1>7, <1>8

\* A write keeps the map, the ROM and the type of what it writes.
LEMMA WriteKeepsMap ==
  ASSUME MapInv, step = "run", NEW a \in Addresses, NEW byte \in Bytes, cpu_write(a, byte),
         UNCHANGED <<settings, step>>
  PROVE  MapInv'
<1>1. Started /\ Mapped /\ Allocated /\ Attached /\ RomLoaded
  BY DEF MapInv, Started, Allocated, AfterRom
<1>2. byte \in 0 .. 255
  BY BoardAssumption
<1>3. UNCHANGED <<program, mapRead, mapWrite, callback>>
  BY DEF settings, tables
<1>4. CASE heap' = heap
  BY <1>3, <1>4, MapSame
<1>5. ASSUME NEW block \in {"idt", "main"}, NEW o, <<block, o>> \in DOMAIN heap,
             heap' = [heap EXCEPT ![<<block, o>>] = byte]
      PROVE  MapInv'
  <2>1. HeapTyped' /\ DOMAIN heap' = DOMAIN heap
    BY <1>1, <1>2, <1>5 DEF Allocated, HeapTyped
  <2>2. RomLoaded'
    BY <1>1, <1>5, CellAllocated DEF RomLoaded
  <2>3. Backed'
    BY <1>1, <1>3, <2>1 DEF Allocated, Backed
  <2>4. step' \in AfterRom /\ step' # "exited"
    BY DEF AfterRom
  <2>5. \A c : Pointer(c)' = Pointer(c)
    BY DEF Pointer
  <2>6. Mapped'
    BY <1>1, <1>3, <2>5 DEF Mapped
  <2>7. Attached'
    BY <1>1, <1>3 DEF Attached, MemoryBare, ScreenPlaced, ClockPlaced, Started
  <2> QED
    BY <1>3, <2>1, <2>2, <2>3, <2>4, <2>6, <2>7 DEF MapInv, Wrapped, Allocated
<1>6. CASE Idt(a)
  BY <1>1, <1>5, <1>6, WriteGoes
<1>7. CASE Main(a)
  BY <1>1, <1>5, <1>7, WriteGoes
<1>8. CASE ~Idt(a) /\ ~Main(a)
  BY <1>1, <1>4, <1>8, WriteGoes
<1> QED
  BY <1>6, <1>7, <1>8

-----------------------------------------------------------------------------
(* The loop *)

\* Reads, port accesses and what is not the guest leave the tables and the
\* memory alone.
Onlooker ==
  \/ \E addr \in program.addresses : Read(addr)
  \/ \E n \in program.ports : PortRead(n) \/ PortWrite(n)
  \/ gridvideo_update \/ gridvideo_scanlineCallback \/ Quit

\* Every step of the loop is one of those, or a write.
LEMMA LoopSteps ==
  ASSUME Loop
  PROVE  step = "run" /\ (Onlooker \/ \E addr \in program.addresses : Write(addr))
BY DEF Loop, Guest, Onlooker

\* What they leave alone.
LEMMA OnlookersFrame ==
  ASSUME Onlooker \/ MinutePasses, step = "run"
  PROVE  /\ UNCHANGED <<settings, heap, gridvideo_RAM, tms>>
         /\ step' \in {"run", "quit"}
<1>1. CASE \E addr \in program.addresses : Read(addr)
  BY <1>1 DEF Read, screen
<1>2. CASE \E n \in program.ports : PortRead(n) \/ PortWrite(n)
  BY <1>2 DEF PortRead, PortWrite, screen
<1>3. CASE gridvideo_update \/ gridvideo_scanlineCallback \/ Quit \/ MinutePasses
  BY <1>3 DEF gridvideo_update, gridvideo_scanlineCallback, Quit, MinutePasses, screen
<1> QED
  BY <1>1, <1>2, <1>3 DEF Onlooker

\* Every step keeps the map.
LEMMA MapNext ==
  ASSUME MapInv, ScreenInv, [BoardNext]_boardVars
  PROVE  MapInv'
<1>1. CASE StartUp
  BY <1>1, StartUpKeepsMap
<1>2. CASE step = "run" /\ (Onlooker \/ MinutePasses)
  <2>1. UNCHANGED <<program, mapRead, mapWrite, callback, heap>> /\ step' \in {"run", "quit"}
    BY <1>2, OnlookersFrame DEF settings, tables
  <2> QED
    BY <1>2, <2>1, MapSame
<1>3. ASSUME step = "run", NEW addr \in program.addresses, Write(addr)
      PROVE  MapInv'
  <2>1. Wrap(addr) \in Addresses
    BY DEF MapInv, Wrapped
  <2>2. PICK byte \in Bytes : cpu_write(Wrap(addr), byte) /\ UNCHANGED <<settings, step>>
    BY <1>3 DEF Write
  <2> QED
    BY <1>3, <2>1, <2>2, WriteKeepsMap
<1>4. CASE UNCHANGED boardVars
  BY <1>4, MapSame DEF boardVars, settings, tables
<1>5. MinutePasses => step = "run"
  BY DEF MinutePasses
<1> QED
  BY <1>1, <1>2, <1>3, <1>4, <1>5, LoopSteps DEF BoardNext

-----------------------------------------------------------------------------
(* The screen *)

\* At first the screen is dark, and about to be drawn.
LEMMA ScreenInit == BoardInit => ScreenInv
BY DEF BoardInit, ScreenInv

\* Start-up does not touch it.
LEMMA StartUpFrame ==
  ASSUME StartUp
  PROVE  UNCHANGED <<screen, bus, minute, look, program, argv>>
<1> USE DEF devices, screen
<1>1. CASE memory_init \/ ports_init \/ timing_init \/ ParseArgs \/ sdlconsole_init
  BY <1>1 DEF memory_init, ports_init, timing_init, ParseArgs, sdlconsole_init
<1>2. CASE FindMachine \/ MapRams \/ MapRom \/ ChooseSpeed \/ i8259_init
  BY <1>2 DEF FindMachine, MapRams, MapRom, ChooseSpeed, i8259_init
<1>3. CASE gridKeyboard8741_init \/ bubble_init \/ uart_init \/ modem_init \/ rtc_init
           \/ gridvideo_init
  <2>1. ASSUME NEW start, NEW count, NEW device, NEW timer,
               Attach(start, count, device, timer)
        PROVE  UNCHANGED <<screen, bus, minute, look, program, argv>>
    BY <2>1 DEF Attach
  <2> QED
    BY <1>3, <2>1 DEF gridKeyboard8741_init, bubble_init, uart_init, modem_init, rtc_init,
       gridvideo_init
<1>4. CASE tms9914a_init
  BY <1>4 DEF tms9914a_init
<1> QED
  BY <1>1, <1>2, <1>3, <1>4 DEF StartUp

\* A write to the screen raises the flag, an update draws what is there
\* (gridvideo.c:58-109).
LEMMA ScreenNext ==
  ASSUME MapInv, ScreenInv, [BoardNext]_boardVars
  PROVE  ScreenInv'
<1>1. CASE UNCHANGED screen
  BY <1>1 DEF ScreenInv, screen
<1>2. CASE gridvideo_update
  BY <1>2 DEF gridvideo_update, ScreenInv
<1>3. CASE gridvideo_scanlineCallback
  BY <1>3 DEF gridvideo_scanlineCallback, ScreenInv
<1>4. ASSUME step = "run", NEW addr \in program.addresses, Write(addr)
      PROVE  ScreenInv'
  <2> DEFINE a == Wrap(addr)
  <2>1. a \in Addresses /\ Started
    BY <1>4 DEF MapInv, Wrapped, Started
  <2>2. PICK byte \in Bytes : cpu_write(a, byte)
    BY <1>4 DEF Write
  <2>3. CASE Video(a)
    <3>1. /\ gridvideo_RAM' = [gridvideo_RAM EXCEPT ![a - VIDEOBASE] = byte]
          /\ gridvideo_doDraw' = 1
      BY <2>1, <2>2, <2>3, WriteGoes
    <3>2. byte \in 0 .. 255
      BY BoardAssumption
    <3>3. gridvideo_RAM' \in [VideoOffsets -> 0 .. 255]
      BY <3>1, <3>2 DEF ScreenInv
    <3> QED
      BY <3>1, <3>3 DEF ScreenInv
  <2>4. CASE ~Video(a)
    <3>1. UNCHANGED screen
      BY <2>1, <2>2, <2>4, WriteGoes
    <3> QED
      BY <1>1, <3>1
  <2> QED
    BY <2>3, <2>4
<1>5. CASE StartUp
  BY <1>1, <1>5, StartUpFrame
<1>6. CASE MinutePasses \/ Quit \/ UNCHANGED boardVars
  BY <1>1, <1>6 DEF MinutePasses, Quit, boardVars
<1>7. CASE \E addr \in program.addresses : Read(addr)
  BY <1>1, <1>7 DEF Read
<1>8. CASE \E n \in program.ports : PortRead(n) \/ PortWrite(n)
  BY <1>1, <1>8 DEF PortRead, PortWrite
<1> QED
  BY <1>2, <1>3, <1>4, <1>5, <1>6, <1>7, <1>8, LoopSteps DEF BoardNext, Onlooker

\* Map and screen hold of every behaviour.
LEMMA BoardInvariant == BoardSpec => [](MapInv /\ ScreenInv)
<1>1. BoardInit => MapInv /\ ScreenInv
  BY MapInit, ScreenInit
<1>2. MapInv /\ ScreenInv /\ [BoardNext]_boardVars => (MapInv /\ ScreenInv)'
  BY MapNext, ScreenNext
<1> QED
  BY <1>1, <1>2, PTL DEF BoardSpec

\* An odd number follows an even one.
LEMMA EvenNext ==
  ASSUME NEW o \in Int, o % 2 = 0
  PROVE  (o + 1) % 2 # 0
OBVIOUS

\* For any sample of addresses that holds both bytes of a word, whatever the guest
\* writes and in whatever order it is drawn: whenever nothing waits to be drawn,
\* the window shows what the guest reads back (gridvideo.c:58-109).
THEOREM WindowShowsMemory == BoardSpec => []ScreenFollows
<1>1. MapInv /\ ScreenInv => ScreenFollows
  <2> SUFFICES ASSUME MapInv, ScreenInv, Started, gridvideo_doDraw = 0,
                      NEW o \in VideoOffsets, o % 2 = 0
               PROVE  /\ sdl_framebuffer[o] = Seen(VIDEOBASE + o + 1)
                      /\ sdl_framebuffer[o + 1] = Seen(VIDEOBASE + o)
    BY DEF ScreenFollows
  <2>1. VIDEOBASE = 1024
    BY DEF VIDEOBASE
  <2>2. ASSUME NEW p \in VideoOffsets
        PROVE  /\ p \in Int /\ VIDEOBASE + p \in Addresses /\ Video(VIDEOBASE + p)
               /\ Seen(VIDEOBASE + p) = gridvideo_RAM[p]
    <3>1. PICK a \in Addresses : Video(a) /\ p = a - VIDEOBASE
      BY DEF VideoOffsets, Offsets, Video
    <3>2. p \in Int /\ a = VIDEOBASE + p
      BY <2>1, <3>1, Regions
    <3>3. ~Idt(a) /\ a \in MemoryAddresses
      BY <3>1, Regions, DevicesOutside
    <3>4. Cell(a) = gridvideo_RAM[p]
      BY <3>1, <3>3 DEF Cell
    <3> QED
      BY <3>1, <3>2, <3>3, <3>4, Answers
  <2>3. o \in Int /\ Drawn(o) = o + 1
    BY <2>2 DEF Drawn
  <2>4. o + 1 \in VideoOffsets
    BY <2>3, SampleAssumption
  <2>5. Drawn(o + 1) = o
    <3>1. (o + 1) % 2 # 0
      BY <2>3, EvenNext
    <3> QED
      BY <2>3, <3>1 DEF Drawn
  <2>6. /\ sdl_framebuffer[o] = gridvideo_RAM[o + 1]
        /\ sdl_framebuffer[o + 1] = gridvideo_RAM[o]
    BY <2>3, <2>4, <2>5 DEF ScreenInv
  <2>7. VIDEOBASE + (o + 1) = VIDEOBASE + o + 1
    BY <2>1, <2>3
  <2> QED
    BY <2>2, <2>4, <2>6, <2>7
<1> QED
  BY <1>1, BoardInvariant, PTL

-----------------------------------------------------------------------------
(* The address space implements FlatMemory *)

\* What MemoryKept puts for FlatMemory's variable.
Memory == IF Started THEN [a \in MemoryAddresses |-> Seen(a)] ELSE <<>>

\* Once the machine runs, that is the bytes behind the addresses, and not "off".
LEMMA MemoryIs ==
  MapInv /\ Started =>
    /\ Memory = [a \in MemoryAddresses |-> Cell(a)]
    /\ Memory # <<>>
<1> SUFFICES ASSUME MapInv, Started
             PROVE  /\ Memory = [a \in MemoryAddresses |-> Cell(a)]
                    /\ Memory # <<>>
  OBVIOUS
<1>1. Memory = [a \in MemoryAddresses |-> Cell(a)]
  BY Answers DEF Memory
<1>2. DOMAIN Memory # {}
  BY <1>1, SampleAssumption
<1> QED
  BY <1>1, <1>2

\* So it is after a step.
LEMMA MemoryIsNext ==
  MapInv' /\ Started' =>
    /\ Memory' = [a \in MemoryAddresses |-> Cell(a)']
    /\ Memory' # <<>>
<1>1. (MapInv /\ Started => /\ Memory = [a \in MemoryAddresses |-> Cell(a)]
                            /\ Memory # <<>>)'
  BY MemoryIs, PTL
<1> QED
  BY <1>1

\* Bytes behind addresses change with the memory and the screen only.
LEMMA CellSame ==
  ASSUME UNCHANGED <<heap, gridvideo_RAM>>
  PROVE  \A a : Cell(a)' = Cell(a)
BY DEF Cell

\* A step that changes none of them is a stutter, or an access FlatMemory allows.
LEMMA MemorySame ==
  ASSUME MapInv, MapInv', Started, Started', UNCHANGED <<heap, gridvideo_RAM>>
  PROVE  Memory' = Memory
BY MemoryIs, MemoryIsNext, CellSame

\* The last step of start-up turns the memory on: RAM holds anything, ROM its
\* image, the gaps 0xFF.
LEMMA StartsOn ==
  ASSUME MapInv', ScreenInv', ~Started, Started', bus' = bus
  PROVE  Flat!PowerOn
<1>1. \A a \in MemoryAddresses : /\ Cell(a)' \in 0 .. 255
                                 /\ a \notin RamAddresses => Cell(a)' = OtherBytes[a]
  <2>1. (MapInv /\ ScreenInv /\ Started =>
           \A a \in MemoryAddresses : /\ Cell(a) \in 0 .. 255
                                      /\ a \notin RamAddresses => Cell(a) = OtherBytes[a])'
    BY CellTyped, PTL
  <2> QED
    BY <2>1
<1>2. Memory = <<>> /\ Memory' = [a \in MemoryAddresses |-> Cell(a)']
  BY MemoryIsNext DEF Memory
<1> QED
  BY <1>1, <1>2 DEF Flat!PowerOn, Memory

\* A read of memory tells what it holds; of a device, nothing about memory.
LEMMA ReadAllowed ==
  ASSUME MapInv, MapInv', step = "run", NEW addr \in program.addresses, Read(addr)
  PROVE  Flat!Read \/ Flat!Device
<1> DEFINE a == Wrap(addr)
<1>1. PICK byte \in cpu_read(a) : bus' = [op |-> "read", addr |-> a, byte |-> byte]
  BY DEF Read
<1>2. bus'.op = "read" /\ bus'.addr = a /\ bus'.byte = byte
  BY <1>1
<1>3. Started /\ Started' /\ UNCHANGED <<heap, gridvideo_RAM>>
  BY DEF Read, Started, screen
<1>4. Memory' = Memory /\ Memory # <<>> /\ Memory = [b \in MemoryAddresses |-> Cell(b)]
  BY <1>3, MemorySame, MemoryIs
<1>5. CASE a \in MemoryAddresses
  <2>1. byte = Cell(a)
    BY <1>1, <1>3, <1>5, Answers
  <2>2. byte = Memory[a]
    BY <2>1, <1>4, <1>5
  <2> QED
    BY <2>2, <1>2, <1>4, <1>5 DEF Flat!Read, Flat!IsMemory, Memory
<1>6. CASE a \notin MemoryAddresses
  BY <1>2, <1>4, <1>6 DEF Flat!Device, Flat!IsMemory, Memory
<1> QED
  BY <1>5, <1>6

\* A write to RAM changes that byte; one elsewhere none.
LEMMA WriteAllowed ==
  ASSUME MapInv, MapInv', ScreenInv, step = "run",
         NEW addr \in program.addresses, Write(addr)
  PROVE  Flat!Write \/ Flat!Device
<1> DEFINE a == Wrap(addr)
<1>1. PICK byte \in Bytes : /\ cpu_write(a, byte)
                           /\ bus' = [op |-> "write", addr |-> a, byte |-> byte]
                           /\ UNCHANGED step
  BY DEF Write
<1>2. bus'.op = "write" /\ bus'.addr = a /\ bus'.byte = byte /\ byte \in 0 .. 255
  BY <1>1, BoardAssumption
<1>3. Started /\ Started' /\ a \in Addresses
  BY <1>1 DEF Started, MapInv, Wrapped
<1>4. /\ Memory # <<>> /\ Memory = [b \in MemoryAddresses |-> Cell(b)]
      /\ Memory' = [b \in MemoryAddresses |-> Cell(b)']
  BY <1>3, MemoryIs, MemoryIsNext
<1>5. \A b \in MemoryAddresses :
        Cell(b)' = IF b = a /\ a \in RamAddresses THEN byte ELSE Cell(b)
  BY <1>1, <1>3, WriteCell
<1>6. Memory' = IF a \in RamAddresses THEN [Memory EXCEPT ![a] = byte] ELSE Memory
  BY <1>4, <1>5
<1>7. CASE a \in MemoryAddresses
  BY <1>2, <1>4, <1>6, <1>7 DEF Flat!Write, Flat!IsMemory, Memory
<1>8. CASE a \notin MemoryAddresses
  <2>1. a \notin RamAddresses
    BY <1>8 DEF RamAddresses
  <2> QED
    BY <1>2, <1>4, <1>6, <1>8, <2>1 DEF Flat!Device, Flat!IsMemory, Memory
<1> QED
  BY <1>7, <1>8

\* Ports are not memory.
LEMMA PortAllowed ==
  ASSUME MapInv, MapInv', step = "run", NEW n \in program.ports, PortRead(n) \/ PortWrite(n)
  PROVE  Flat!Device
<1>1. bus'.op \in {"in", "out", "dropped"}
  BY DEF PortRead, PortWrite
<1>2. Started /\ Started' /\ UNCHANGED <<heap, gridvideo_RAM>>
  BY DEF PortRead, PortWrite, Started, screen
<1>3. Memory' = Memory /\ Memory # <<>>
  BY <1>2, MemorySame, MemoryIs
<1> QED
  BY <1>1, <1>3 DEF Flat!Device, Flat!IsMemory, Memory

\* Every step of the board is one of FlatMemory or a stutter.
LEMMA MemoryStep ==
  ASSUME MapInv, MapInv', ScreenInv, ScreenInv', [BoardNext]_boardVars
  PROVE  Flat!Next \/ (Memory' = Memory /\ bus' = bus)
<1>1. CASE StartUp
  <2>1. bus' = bus /\ ~Started
    <3>1. step \notin {"run", "quit"}
      BY <1>1 DEF StartUp, memory_init, ports_init, timing_init, ParseArgs, sdlconsole_init,
         FindMachine, MapRams, MapRam, MapRom, ChooseSpeed, i8259_init, gridKeyboard8741_init,
         bubble_init, uart_init, modem_init, tms9914a_init, rtc_init, gridvideo_init,
         Granted, Denied, Step
    <3> QED
      BY <1>1, <3>1, StartUpFrame DEF Started
  <2>2. CASE Started'
    BY <2>1, <2>2, StartsOn DEF Flat!Next
  <2>3. CASE ~Started'
    BY <2>1, <2>3 DEF Memory
  <2> QED
    BY <2>2, <2>3
<1>2. ASSUME step = "run", NEW addr \in program.addresses, Read(addr)
      PROVE  Flat!Next
  BY <1>2, ReadAllowed DEF Flat!Next
<1>3. ASSUME step = "run", NEW addr \in program.addresses, Write(addr)
      PROVE  Flat!Next
  BY <1>3, WriteAllowed DEF Flat!Next
<1>4. ASSUME step = "run", NEW n \in program.ports, PortRead(n) \/ PortWrite(n)
      PROVE  Flat!Next
  BY <1>4, PortAllowed DEF Flat!Next
<1>5. CASE step = "run" /\ (gridvideo_update \/ gridvideo_scanlineCallback \/ Quit
                             \/ MinutePasses)
  <2>1. /\ bus' = bus /\ UNCHANGED <<heap, gridvideo_RAM>>
        /\ Started /\ Started'
    BY <1>5 DEF gridvideo_update, gridvideo_scanlineCallback, Quit, MinutePasses, screen,
       Started
  <2> QED
    BY <2>1, MemorySame
<1>6. CASE UNCHANGED boardVars
  <2>1. /\ bus' = bus /\ UNCHANGED <<heap, gridvideo_RAM>> /\ Started' = Started
    BY <1>6 DEF boardVars, screen, Started
  <2>2. CASE Started
    BY <2>1, <2>2, MemorySame
  <2>3. CASE ~Started
    BY <2>1, <2>3 DEF Memory
  <2> QED
    BY <2>2, <2>3
<1>7. MinutePasses => step = "run"
  BY DEF MinutePasses
<1> QED
  BY <1>1, <1>2, <1>3, <1>4, <1>5, <1>6, <1>7, LoopSteps DEF BoardNext, Onlooker

\* For any sample of the address space, any ROM and any program: behind the tables,
\* pointers and callbacks start-up builds, the guest sees the flat memory it relies
\* on (memory.c:44-115, machine.c:142-166).
THEOREM MemoryImplements == BoardSpec => MemoryKept
<1>1. BoardInit => Flat!Init
  BY DEF BoardInit, Started, Flat!Init
<1>2. /\ MapInv /\ ScreenInv /\ (MapInv /\ ScreenInv)' /\ [BoardNext]_boardVars
      => [Flat!Next]_(Flat!flatVars)
  BY MemoryStep DEF Flat!flatVars, Memory
<1> QED
  BY <1>1, <1>2, BoardInvariant, PTL DEF BoardSpec, MemoryKept, Flat!Spec

-----------------------------------------------------------------------------
(* The clock *)

\* The minute the clock shows is one byte (rtc.c:97).
LEMMA ShownMinutes ==
  ASSUME NEW m \in Nat
  PROVE  /\ ((m % 60) + 250) % 256 \in 0 .. 255
         /\ m % 60 >= 6 => ((m % 60) + 250) % 256 = (m % 60) - 6
OBVIOUS

\* A digit the guest is given is four bits.
LEMMA DigitTyped ==
  ASSUME NEW m \in Nat, m < 24 * 60, NEW d \in ClockDigits
  PROVE  RtcDigit(d, HostTime(m)) \in 0 .. 25 /\ DigitAt(d, m) \in 0 .. 15
<1>1. /\ HostTime(m).min = m % 60
      /\ HostTime(m).hour = (m \div 60) % 24
  BY DEF HostTime
<1>2. d \in {4, 5, 6, 7}
  BY DEF ClockDigits
<1>3. \A x \in 0 .. 255 : x % 10 \in 0 .. 25 /\ x \div 10 \in 0 .. 25
  OBVIOUS
<1>4. (m \div 60) % 24 \in 0 .. 255
  OBVIOUS
<1>5. RtcDigit(d, HostTime(m)) \in 0 .. 25
  BY <1>1, <1>2, <1>3, <1>4, ShownMinutes DEF RtcDigit, ShownMinute
<1> QED
  BY <1>5 DEF DigitAt

\* Bit 4, or-ed in, is not part of the digit (rtc.c:43-64).
LEMMA OrKeepsDigit ==
  ASSUME NEW x \in 0 .. 25
  PROVE  BitOr16(x) % 16 = x % 16
BY DEF BitOr16

\* At first nothing has been read.
LEMMA ClockInit == BoardInit => ClockInv
BY BoardAssumption DEF BoardInit, ClockInv, Unread

\* A read of the clock adds a digit the host's time had when it was read; any other
\* read adds none.
LEMMA ReadKeepsClock ==
  ASSUME MapInv, ClockInv, step = "run", NEW addr \in program.addresses, Read(addr)
  PROVE  ClockInv'
<1> DEFINE a == Wrap(addr)
           r == (a - rtcBase) \div 2
<1>1. PICK byte \in cpu_read(a) : look' = Looked(a, byte)
  BY DEF Read
<1>2. minute' = minute
  BY DEF Read
<1>3. a \in Addresses /\ a \in Int
  BY Regions DEF MapInv, Wrapped
<1>4. CASE ~(callback[a] = "rtc" /\ r \in ClockDigits)
  <2>1. look' = look
    BY <1>1, <1>4 DEF Looked
  <2> QED
    BY <1>2, <2>1 DEF ClockInv
<1>5. CASE callback[a] = "rtc" /\ r \in ClockDigits
  <2>1. byte % 16 = DigitAt(r, minute)
    <3>1. Mapped /\ Attached /\ Started
      BY DEF MapInv, Started
    <3>2. a \notin MemoryAddresses
      BY <1>5, <3>1 DEF Attached, MemoryBare, NULL
    <3>3. mapRead[a] = NullPointer
      BY <1>3, <3>1, <3>2, DevicesOutside, StartedPointer DEF Mapped
    <3>4. byte = rtc_read(a, HostTime(minute))
      BY <1>1, <1>5, <3>3 DEF cpu_read, DeviceAnswers, NULL
    <3> QED
      BY <1>5, <3>4, DigitTyped, OrKeepsDigit DEF rtc_read, RtcRegister, DigitAt, ClockInv
  <2> DEFINE digits == IF Looking THEN look.digits ELSE [d \in ClockDigits |-> Unread]
             from   == IF Looking THEN look.from ELSE minute
  <2>2. look' = [from |-> from, to |-> minute, digits |-> [digits EXCEPT ![r] = byte % 16]]
    BY <1>1, <1>5 DEF Looked
  <2>3. /\ look'.from = from /\ look'.to = minute
        /\ look'.digits = [digits EXCEPT ![r] = byte % 16]
    BY <2>2
  <2>4. digits \in [ClockDigits -> 0 .. Unread] /\ from \in Nat /\ from <= minute
    BY DEF ClockInv, Unread
  <2>5. byte % 16 \in 0 .. Unread
    BY <1>5, <2>1, DigitTyped DEF ClockInv, Unread
  <2>6. look'.digits \in [ClockDigits -> 0 .. Unread]
    BY <2>3, <2>4, <2>5
  <2>7. look' \in [from : Nat, to : Nat, digits : [ClockDigits -> 0 .. Unread]]
    BY <2>2, <2>3, <2>4, <2>6 DEF ClockInv
  <2>8. ASSUME NEW d \in ClockDigits, look'.digits[d] # Unread
        PROVE  \E t \in from .. minute : look'.digits[d] = DigitAt(d, t)
    <3>1. CASE d = r
      <4>1. minute \in from .. minute
        BY <2>4 DEF ClockInv
      <4>2. look'.digits[d] = DigitAt(d, minute)
        BY <2>1, <2>3, <2>4, <3>1
      <4> QED
        BY <4>1, <4>2
    <3>2. CASE d # r
      <4>1. look'.digits[d] = digits[d]
        BY <2>3, <2>4, <3>2
      <4>2. Looking
        BY <2>8, <4>1
      <4>3. PICK t \in look.from .. look.to : look.digits[d] = DigitAt(d, t)
        BY <2>8, <4>1, <4>2 DEF ClockInv
      <4>4. t \in from .. minute
        BY <4>2, <4>3 DEF ClockInv
      <4> QED
        BY <4>1, <4>2, <4>3, <4>4
    <3> QED
      BY <3>1, <3>2
  <2> QED
    BY <1>2, <2>3, <2>4, <2>7, <2>8 DEF ClockInv
<1> QED
  BY <1>4, <1>5

\* Every step keeps what the guest has read true of the minutes of its look.
LEMMA ClockNext ==
  ASSUME MapInv, ClockInv, [BoardNext]_boardVars
  PROVE  ClockInv'
<1>1. CASE UNCHANGED <<minute, look>>
  BY <1>1 DEF ClockInv
<1>2. CASE StartUp
  BY <1>1, <1>2, StartUpFrame
<1>3. ASSUME step = "run", NEW addr \in program.addresses, Read(addr)
      PROVE  ClockInv'
  BY <1>3, ReadKeepsClock
<1>4. CASE \/ \E addr \in program.addresses : Write(addr)
           \/ \E n \in program.ports : PortRead(n) \/ PortWrite(n)
           \/ gridvideo_update \/ gridvideo_scanlineCallback \/ Quit
           \/ UNCHANGED boardVars
  BY <1>1, <1>4 DEF Write, PortRead, PortWrite, gridvideo_update,
     gridvideo_scanlineCallback, Quit, boardVars
<1>5. CASE MinutePasses
  <2>1. minute' = minute + 1 /\ minute < LastMinute /\ look' = look
    BY <1>5 DEF MinutePasses
  <2> QED
    BY <2>1, BoardAssumption DEF ClockInv
<1> QED
  BY <1>2, <1>3, <1>4, <1>5, LoopSteps DEF BoardNext, Onlooker

\* Six minutes and more past the hour the clock shows the digits of six minutes ago.
LEMMA DigitSixAgo ==
  ASSUME NEW t \in Nat, t < 24 * 60, t % 60 >= 6, NEW d \in ClockDigits
  PROVE  DigitAt(d, t) = DigitsOf(t - 6)[d]
<1>1. /\ HostTime(t).min = t % 60
      /\ HostTime(t).hour = (t \div 60) % 24
  BY DEF HostTime
<1>2. ((t % 60) + 250) % 256 = (t % 60) - 6
  BY ShownMinutes
<1>3. /\ (t - 6) % 60 = (t % 60) - 6
      /\ (t - 6) \div 60 = t \div 60
      /\ (t - 6) % 10 = ((t % 60) - 6) % 10
      /\ (t \div 60) % 24 = t \div 60
  OBVIOUS
<1>4. CASE d = 4
  <2>1. (t - 6) % 10 \in 0 .. 15
    OBVIOUS
  <2>2. RtcDigit(d, HostTime(t)) = (t - 6) % 10
    BY <1>1, <1>2, <1>3, <1>4 DEF RtcDigit, ShownMinute
  <2>3. DigitsOf(t - 6)[d] = (t - 6) % 10
    BY <1>4 DEF DigitsOf
  <2> QED
    BY <2>1, <2>2, <2>3 DEF DigitAt
<1>5. CASE d = 5
  <2>1. ((t - 6) % 60) \div 10 \in 0 .. 15
    OBVIOUS
  <2>2. RtcDigit(d, HostTime(t)) = ((t - 6) % 60) \div 10
    BY <1>1, <1>2, <1>3, <1>5 DEF RtcDigit, ShownMinute
  <2>3. DigitsOf(t - 6)[d] = ((t - 6) % 60) \div 10
    BY <1>5 DEF DigitsOf
  <2> QED
    BY <2>1, <2>2, <2>3 DEF DigitAt
<1>6. CASE d = 6
  <2>1. ((t - 6) \div 60) % 10 \in 0 .. 15
    OBVIOUS
  <2>2. RtcDigit(d, HostTime(t)) = ((t - 6) \div 60) % 10
    BY <1>1, <1>3, <1>6 DEF RtcDigit
  <2>3. DigitsOf(t - 6)[d] = ((t - 6) \div 60) % 10
    BY <1>6 DEF DigitsOf
  <2> QED
    BY <2>1, <2>2, <2>3 DEF DigitAt
<1>7. CASE d = 7
  <2>1. ((t - 6) \div 60) \div 10 \in 0 .. 15
    OBVIOUS
  <2>2. RtcDigit(d, HostTime(t)) = ((t - 6) \div 60) \div 10
    BY <1>1, <1>3, <1>7 DEF RtcDigit
  <2>3. DigitsOf(t - 6)[d] = ((t - 6) \div 60) \div 10
    BY <1>7 DEF DigitsOf
  <2> QED
    BY <2>1, <2>2, <2>3 DEF DigitAt
<1>8. d \in {4, 5, 6, 7}
  BY DEF ClockDigits
<1> QED
  BY <1>4, <1>5, <1>6, <1>7, <1>8

\* However long a look takes and whatever else happens meanwhile: four digits give a
\* time the host had during the look, less six minutes, unless a digit above the last
\* changed or the hour was young (rtc.c:96-114).
THEOREM ClockTellsTime == BoardSpec => []ClockReadsTrue
<1>1. BoardInit => ClockInv
  BY ClockInit
<1>2. MapInv /\ ClockInv /\ [BoardNext]_boardVars => ClockInv'
  BY ClockNext
<1>3. ClockInv => ClockReadsTrue
  <2> DEFINE span == look.from .. look.to
  <2> SUFFICES ASSUME ClockInv,
                      \A d \in ClockDigits : look.digits[d] # Unread,
                      \A t \in span : \A d \in 5 .. 7 :
                        DigitsOf(t - 6)[d] = DigitsOf(look.from - 6)[d],
                      \A t \in span : ~(t % 60 < 6)
               PROVE  \E t \in span : look.digits = DigitsOf(t - 6)
    BY DEF ClockReadsTrue
  <2>1. \A t \in span : t \in Nat /\ t < 24 * 60 /\ t % 60 >= 6
    BY DEF ClockInv
  <2>2. ASSUME NEW d \in ClockDigits
        PROVE  \E t \in span : look.digits[d] = DigitsOf(t - 6)[d]
    BY <2>1, DigitSixAgo DEF ClockInv
  <2>3. PICK u \in span : look.digits[4] = DigitsOf(u - 6)[4]
    BY <2>2 DEF ClockDigits
  <2>4. ASSUME NEW d \in ClockDigits
        PROVE  look.digits[d] = DigitsOf(u - 6)[d]
    <3>1. CASE d = 4
      BY <3>1, <2>3
    <3>2. CASE d \in 5 .. 7
      <4>1. PICK t \in span : look.digits[d] = DigitsOf(t - 6)[d]
        BY <2>2
      <4> QED
        BY <3>2, <4>1
    <3> QED
      BY <3>1, <3>2 DEF ClockDigits
  <2>5. look.digits = DigitsOf(u - 6)
    BY <2>4 DEF ClockInv, DigitsOf
  <2> QED
    BY <2>5
<1> QED
  BY <1>1, <1>2, <1>3, BoardInvariant, PTL DEF BoardSpec

-----------------------------------------------------------------------------
(* The command line *)

\* Induction over a set of numbers.
LEMMA Induction ==
  ASSUME NEW T, 0 \in T, \A n \in Nat : n \in T => n + 1 \in T
  PROVE  Nat \subseteq T
<1>1. \A x, y \in Nat : x < y => <<x, y>> \in OpToRel(<, Nat)
  BY DEF OpToRel
<1> SUFFICES ASSUME NEW U, U = Nat \ T, U # {} PROVE FALSE
  OBVIOUS
<1>2. PICK x \in U : \A y \in U : <<y, x>> \notin OpToRel(<, Nat)
  BY NatLessThanWellFounded, WFMin, Zenon
<1>3. x \in Nat /\ x # 0
  OBVIOUS
<1>4. x - 1 \in Nat /\ x - 1 < x /\ (x - 1) + 1 = x
  BY <1>3
<1>5. x - 1 \notin U
  BY <1>1, <1>2, <1>3, <1>4, Zenon
<1>6. (x - 1) + 1 \in T
  BY <1>4, <1>5
<1> QED
  BY <1>3, <1>4, <1>6

\* The loop of args_parse looks at one argument after the other (args.c:88-133).
LEMMA OneByOne ==
  ASSUME NEW line, Len(line) \in Nat
  PROVE  \E o : /\ o[0] = Defaults
                /\ \A n \in 1 .. Len(line) : o[n] = Argument(o[n - 1], line[n])
                /\ args_parse(line) = o[Len(line)]
<1> DEFINE len == Len(line)
           Value(y, n) == IF n = 0 THEN Defaults ELSE Argument(y[n - 1], line[n])
           Is(y, k) == y = [n \in 0 .. k |-> Value(y, n)]
           T == {k \in Nat : \E y : Is(y, k)}
           o == CHOOSE y : Is(y, len)
<1>1. 0 \in T
  <2> DEFINE z == [n \in 0 .. 0 |-> Defaults]
  <2>1. Is(z, 0)
    OBVIOUS
  <2> QED
    BY <2>1
<1>2. ASSUME NEW k \in Nat, k \in T PROVE k + 1 \in T
  <2>1. PICK y : Is(y, k)
    BY <1>2
  <2> DEFINE z == [n \in 0 .. k + 1 |-> IF n = k + 1 THEN Argument(y[k], line[k + 1]) ELSE y[n]]
  <2>2. \A n \in 0 .. k : z[n] = y[n]
    OBVIOUS
  <2>3. ASSUME NEW n \in 0 .. k + 1 PROVE z[n] = Value(z, n)
    <3>1. CASE n = k + 1
      <4>1. z[n] = Argument(y[k], line[k + 1])
        BY <3>1
      <4>2. n - 1 = k /\ n # 0
        BY <3>1
      <4>3. z[n - 1] = y[k]
        BY <2>2, <4>2
      <4> HIDE DEF z
      <4> QED
        BY <3>1, <4>1, <4>2, <4>3
    <3>2. CASE n = 0
      <4>1. z[n] = y[n] /\ y[n] = Value(y, n)
        BY <2>1, <2>2, <3>2
      <4> QED
        BY <3>2, <4>1
    <3>3. CASE n \in 1 .. k
      <4>1. z[n] = y[n] /\ y[n] = Value(y, n)
        BY <2>1, <2>2, <3>3
      <4>2. n - 1 \in 0 .. k /\ n # 0
        BY <3>3
      <4>3. z[n - 1] = y[n - 1]
        BY <2>2, <4>2
      <4> HIDE DEF z
      <4> QED
        BY <4>1, <4>2, <4>3
    <3> QED
      BY <3>1, <3>2, <3>3
  <2>4. z = [n \in 0 .. k + 1 |-> Value(z, n)]
    BY <2>3
  <2> HIDE DEF z
  <2>5. \E w : w = [n \in 0 .. k + 1 |-> Value(w, n)]
    BY <2>4
  <2>6. k + 1 \in Nat
    OBVIOUS
  <2> QED
    BY <2>5, <2>6
<1>3. \E y : Is(y, len)
  <2>1. Nat \subseteq T
    <3> HIDE DEF T
    <3> QED
      BY <1>1, <1>2, Induction
  <2> QED
    BY <2>1
<1>4. Is(o, len)
  BY <1>3
<1>5. args_parse(line) = o[len]
  BY DEF args_parse
<1>6. o[0] = Defaults /\ \A n \in 1 .. len : o[n] = Argument(o[n - 1], line[n])
  <2> HIDE DEF o
  <2>1. \A n \in 0 .. len : o[n] = Value(o, n)
    BY <1>4
  <2> QED
    BY <2>1
<1> QED
  BY <1>5, <1>6

\* What an option and its parameter must be.
FinePair(a, b) ==
  \/ a = "-speed"
  \/ a = "-machine" /\ b # "list"
  \/ a = "-debug" /\ b \in DebugLevels

\* What args_parse keeps has these fields.
IsOptions(p) ==
  /\ p = [machine |-> p.machine, speed |-> p.speed, debug |-> p.debug,
          wants |-> p.wants, ok |-> p.ok]
  /\ p.ok \in BOOLEAN

\* An option and its parameter: either both are fine, and the parameter replaces
\* what the option was, or the command line is refused.
LEMMA PairParsed ==
  ASSUME NEW p, IsOptions(p), p.wants = NULL, NEW a, NEW b
  PROVE  LET q == Argument(Argument(p, a), b)
         IN  /\ IsOptions(q) /\ q.wants = NULL
             /\ q.ok <=> p.ok /\ FinePair(a, b)
             /\ q.ok => /\ q.machine = IF a = "-machine" THEN b ELSE p.machine
                        /\ q.speed = IF a = "-speed" THEN atof(b) ELSE p.speed
                        /\ q.debug = IF a = "-debug" THEN b ELSE p.debug
<1> DEFINE r == Argument(p, a)
           q == Argument(r, b)
<1> SUFFICES /\ IsOptions(q) /\ q.wants = NULL
             /\ q.ok <=> p.ok /\ FinePair(a, b)
             /\ q.ok => /\ q.machine = IF a = "-machine" THEN b ELSE p.machine
                        /\ q.speed = IF a = "-speed" THEN atof(b) ELSE p.speed
                        /\ q.debug = IF a = "-debug" THEN b ELSE p.debug
  OBVIOUS
<1>1. CASE ~p.ok
  <2>1. r = p /\ q = p
    BY <1>1 DEF Argument
  <2> QED
    BY <1>1, <2>1
<1>2. CASE p.ok /\ a \notin {"-machine", "-speed", "-debug"}
  <2>1. r = [p EXCEPT !.ok = FALSE]
    BY <1>2 DEF Argument
  <2>2. IsOptions(r) /\ r.wants = NULL /\ ~r.ok
    BY <2>1 DEF IsOptions
  <2>3. q = r
    BY <2>2 DEF Argument
  <2> QED
    BY <1>2, <2>2, <2>3 DEF FinePair
<1>3. CASE p.ok /\ a \in {"-machine", "-speed", "-debug"}
  <2>1. r = [p EXCEPT !.wants = a]
    BY <1>3 DEF Argument
  <2>2. /\ IsOptions(r) /\ r.wants = a /\ r.ok
        /\ r.machine = p.machine /\ r.speed = p.speed /\ r.debug = p.debug
    BY <1>3, <2>1 DEF IsOptions
  <2> HIDE DEF r
  <2>3. q = [Parameter(r, b) EXCEPT !.wants = NULL]
    BY <1>3, <2>2 DEF Argument, NULL
  <2> DEFINE s == Parameter(r, b)
  <2>4. ASSUME IsOptions(s)
        PROVE  /\ IsOptions(q) /\ q.wants = NULL /\ q.ok = s.ok
               /\ q.machine = s.machine /\ q.speed = s.speed /\ q.debug = s.debug
    <3> HIDE DEF s
    <3>1. q = [s EXCEPT !.wants = NULL]
      BY <2>3 DEF s
    <3> HIDE DEF q
    <3> QED
      BY <2>4, <3>1 DEF IsOptions, NULL
  <2> HIDE DEF q
  <2>5. CASE a = "-machine"
    <3>1. Parameter(r, b) = [r EXCEPT !.machine = b, !.ok = b # "list"]
      BY <2>2, <2>5 DEF Parameter
    <3>2. /\ IsOptions(Parameter(r, b))
          /\ Parameter(r, b).ok <=> b # "list"
          /\ Parameter(r, b).machine = b
          /\ Parameter(r, b).speed = p.speed
          /\ Parameter(r, b).debug = p.debug
      BY <2>2, <3>1 DEF IsOptions
    <3> QED
      BY <1>3, <2>4, <2>5, <3>2 DEF FinePair
  <2>6. CASE a = "-speed"
    <3>1. Parameter(r, b) = [r EXCEPT !.speed = atof(b)]
      BY <2>2, <2>6 DEF Parameter
    <3>2. /\ IsOptions(Parameter(r, b))
          /\ Parameter(r, b).ok
          /\ Parameter(r, b).machine = p.machine
          /\ Parameter(r, b).speed = atof(b)
          /\ Parameter(r, b).debug = p.debug
      BY <2>2, <3>1 DEF IsOptions
    <3> QED
      BY <1>3, <2>4, <2>6, <3>2 DEF FinePair
  <2>7. CASE a = "-debug" /\ b \in DebugLevels
    <3>1. Parameter(r, b) = [r EXCEPT !.debug = b]
      BY <2>2, <2>7 DEF Parameter
    <3>2. /\ IsOptions(Parameter(r, b))
          /\ Parameter(r, b).ok
          /\ Parameter(r, b).machine = p.machine
          /\ Parameter(r, b).speed = p.speed
          /\ Parameter(r, b).debug = b
      BY <2>2, <3>1 DEF IsOptions
    <3> QED
      BY <1>3, <2>4, <2>7, <3>2 DEF FinePair
  <2>8. CASE a = "-debug" /\ b \notin DebugLevels
    <3>1. Parameter(r, b) = [r EXCEPT !.ok = FALSE]
      BY <2>2, <2>8 DEF Parameter
    <3>2. IsOptions(Parameter(r, b)) /\ ~Parameter(r, b).ok
      BY <2>2, <3>1 DEF IsOptions
    <3> QED
      BY <1>3, <2>4, <2>8, <3>2 DEF FinePair
  <2> QED
    BY <1>3, <2>5, <2>6, <2>7, <2>8
<1> QED
  BY <1>1, <1>2, <1>3

\* LastOf and WellFormed of the first n arguments.
Places(name, line, n) == {i \in 1 .. n : i % 2 = 1 /\ line[i] = name}
Greatest(at) == CHOOSE i \in at : \A j \in at : j <= i
LastUpTo(name, line, n, default) ==
  IF Places(name, line, n) = {} THEN default ELSE line[1 + Greatest(Places(name, line, n))]
FineUpTo(line, n) == \A i \in 1 .. n : i % 2 = 1 => FinePair(line[i], line[i + 1])

\* A further pair replaces what the option was if it names it.
LEMMA LastGrows ==
  ASSUME NEW line, NEW k \in Nat, NEW name, NEW default
  PROVE  LastUpTo(name, line, 2 * k + 2, default) =
           IF line[2 * k + 1] = name THEN line[2 * k + 2]
           ELSE LastUpTo(name, line, 2 * k, default)
<1> DEFINE new == Places(name, line, 2 * k + 2)
           old == Places(name, line, 2 * k)
<1>1. (2 * k + 1) % 2 = 1 /\ (2 * k + 2) % 2 = 0
  OBVIOUS
<1>2. CASE line[2 * k + 1] = name
  <2>1. 2 * k + 1 \in new /\ \A j \in new : j <= 2 * k + 1
    BY <1>1, <1>2 DEF Places
  <2>2. \A i \in new : i \in Int
    BY DEF Places
  <2> HIDE DEF new
  <2>3. Greatest(new) \in new /\ \A j \in new : j <= Greatest(new)
    BY <2>1 DEF Greatest
  <2>4. Greatest(new) = 2 * k + 1
    BY <2>1, <2>2, <2>3
  <2>5. new # {} /\ 1 + Greatest(new) = 2 * k + 2
    BY <2>1, <2>4
  <2> QED
    BY <1>2, <2>5, Zenon DEF LastUpTo, new
<1>3. CASE line[2 * k + 1] # name
  <2>1. new = old
    <3>1. ASSUME NEW i \in new PROVE i \in 1 .. 2 * k
      <4>1. i \in 1 .. 2 * k + 2 /\ i # 2 * k + 1 /\ i # 2 * k + 2
        BY <1>1, <1>3 DEF Places
      <4> QED
        BY <4>1
    <3>2. ASSUME NEW i \in old PROVE i \in 1 .. 2 * k + 2
      BY DEF Places
    <3> QED
      BY <3>1, <3>2 DEF Places
  <2> QED
    BY <1>3, <2>1, Zenon DEF LastUpTo
<1> QED
  BY <1>2, <1>3

LEMMA FineGrows ==
  ASSUME NEW line, NEW k \in Nat
  PROVE  FineUpTo(line, 2 * k + 2)
           <=> FineUpTo(line, 2 * k) /\ FinePair(line[2 * k + 1], line[2 * k + 2])
<1>1. (2 * k + 1) % 2 = 1 /\ (2 * k + 2) % 2 = 0 /\ (2 * k + 1) + 1 = 2 * k + 2
  OBVIOUS
<1>2. \A i : i \in 1 .. 2 * k + 2 <=> i \in 1 .. 2 * k \/ i = 2 * k + 1 \/ i = 2 * k + 2
  OBVIOUS
<1> QED
  BY <1>1, <1>2, Zenon DEF FineUpTo

\* What the loop has made of the first n arguments.
Agrees(p, line, n) ==
  /\ IsOptions(p) /\ p.wants = NULL
  /\ p.ok <=> FineUpTo(line, n)
  /\ p.ok => /\ p.machine = LastUpTo("-machine", line, n, "1101")
             /\ p.speed = atof(LastUpTo("-speed", line, n, "0"))
             /\ p.debug = LastUpTo("-debug", line, n, "info")

LEMMA PairsParsed ==
  ASSUME NEW line \in Seq(STRING), NEW o, o[0] = Defaults,
         \A n \in 1 .. Len(line) : o[n] = Argument(o[n - 1], line[n])
  PROVE  \A k \in Nat : 2 * k <= Len(line) => Agrees(o[2 * k], line, 2 * k)
<1> DEFINE T == {k \in Nat : 2 * k <= Len(line) => Agrees(o[2 * k], line, 2 * k)}
<1>1. 0 \in T
  <2>1. Agrees(Defaults, line, 0)
    <3>1. IsOptions(Defaults) /\ Defaults.wants = NULL /\ Defaults.ok
      BY DEF Defaults, IsOptions
    <3>2. FineUpTo(line, 0)
      BY DEF FineUpTo
    <3>3. \A name : Places(name, line, 0) = {}
      BY DEF Places
    <3>4. \A name, default : LastUpTo(name, line, 0, default) = default
      BY <3>3 DEF LastUpTo
    <3>5. Defaults.machine = "1101" /\ Defaults.debug = "info" /\ Defaults.speed = atof("0")
      BY DEF Defaults, atof
    <3> QED
      BY <3>1, <3>2, <3>4, <3>5 DEF Agrees
  <2>2. 2 * 0 = 0
    OBVIOUS
  <2> QED
    BY <2>1, <2>2
<1>2. ASSUME NEW k \in Nat, k \in T PROVE k + 1 \in T
  <2> DEFINE n == 2 * k
  <2> SUFFICES ASSUME n + 2 <= Len(line)
               PROVE  Agrees(o[n + 2], line, n + 2)
    <3>1. 2 * (k + 1) = n + 2 /\ k + 1 \in Nat
      OBVIOUS
    <3> QED
      BY <3>1
  <2>1. /\ Len(line) \in Nat /\ n \in Nat
        /\ n + 1 \in 1 .. Len(line) /\ n + 2 \in 1 .. Len(line)
        /\ (n + 1) - 1 = n /\ (n + 2) - 1 = n + 1
    OBVIOUS
  <2>2. Agrees(o[n], line, n)
    BY <1>2, <2>1
  <2>3. o[n + 2] = Argument(Argument(o[n], line[n + 1]), line[n + 2])
    BY <2>1
  <2>4. /\ FineUpTo(line, n + 2)
             <=> FineUpTo(line, n) /\ FinePair(line[n + 1], line[n + 2])
        /\ \A name, default : LastUpTo(name, line, n + 2, default) =
             IF line[n + 1] = name THEN line[n + 2] ELSE LastUpTo(name, line, n, default)
    BY FineGrows, LastGrows
  <2> DEFINE p == o[n]
             q == o[n + 2]
             a == line[n + 1]
             b == line[n + 2]
  <2>5. IsOptions(p) /\ p.wants = NULL
    BY <2>2 DEF Agrees
  <2>6. /\ IsOptions(q) /\ q.wants = NULL
        /\ q.ok <=> p.ok /\ FinePair(a, b)
        /\ q.ok => /\ q.machine = IF a = "-machine" THEN b ELSE p.machine
                   /\ q.speed = IF a = "-speed" THEN atof(b) ELSE p.speed
                   /\ q.debug = IF a = "-debug" THEN b ELSE p.debug
    <3>1. q = Argument(Argument(p, a), b)
      BY <2>3
    <3> HIDE DEF p, q, a, b
    <3> QED
      BY <2>5, <3>1, PairParsed
  <2> HIDE DEF n, p, q
  <2>7. q.ok <=> FineUpTo(line, n + 2)
    BY <2>2, <2>4, <2>6 DEF Agrees, p
  <2>8. ASSUME q.ok
        PROVE  /\ q.machine = LastUpTo("-machine", line, n + 2, "1101")
               /\ q.speed = atof(LastUpTo("-speed", line, n + 2, "0"))
               /\ q.debug = LastUpTo("-debug", line, n + 2, "info")
    <3>1. /\ p.machine = LastUpTo("-machine", line, n, "1101")
          /\ p.speed = atof(LastUpTo("-speed", line, n, "0"))
          /\ p.debug = LastUpTo("-debug", line, n, "info")
      BY <2>2, <2>6, <2>8 DEF Agrees, p
    <3> QED
      BY <2>4, <2>6, <2>8, <3>1
  <2>9. Agrees(q, line, n + 2)
    BY <2>6, <2>7, <2>8 DEF Agrees
  <2> QED
    BY <2>9 DEF q
<1>3. Nat \subseteq T
  <2> HIDE DEF T
  <2> QED
    BY <1>1, <1>2, Induction
<1> QED
  BY <1>3

\* args_parse reads a command line as a user means it: it accepts exactly those that
\* consist of options with their parameters, and gives each option its last parameter.
THEOREM ArgumentsRead ==
  ASSUME NEW line \in Seq(STRING)
  PROVE  LET o == args_parse(line)
         IN  /\ o.ok /\ o.wants = NULL <=> WellFormed(line)
             /\ WellFormed(line) =>
                  /\ o.machine = LastOf("-machine", line, "1101")
                  /\ o.speed = atof(LastOf("-speed", line, "0"))
                  /\ o.debug = LastOf("-debug", line, "info")
<1> DEFINE len == Len(line)
           k == len \div 2
<1>1. len \in Nat /\ DOMAIN line = 1 .. len
  OBVIOUS
<1>2. PICK o : /\ o[0] = Defaults
               /\ \A n \in 1 .. len : o[n] = Argument(o[n - 1], line[n])
               /\ args_parse(line) = o[len]
  BY <1>1, OneByOne
<1> HIDE DEF len
<1>3. k \in Nat /\ (len = 2 * k \/ len = 2 * k + 1) /\ 2 * k <= len
  BY <1>1
<1>4. Agrees(o[2 * k], line, 2 * k)
  <2> HIDE DEF k
  <2> QED
    BY <1>2, <1>3, PairsParsed DEF len
<1> HIDE DEF k
<1>5. CASE len = 2 * k
  <2>1. len % 2 = 0
    BY <1>3, <1>5
  <2>2. \A name, default : LastOf(name, line, default) = LastUpTo(name, line, len, default)
    <3> TAKE name, default
    <3> DEFINE at == {i \in DOMAIN line : i % 2 = 1 /\ line[i] = name}
    <3>1. at = Places(name, line, len)
      BY <1>1 DEF Places
    <3>2. LastOf(name, line, default) =
            IF at = {} THEN default ELSE line[1 + Greatest(at)]
      BY Zenon DEF LastOf, Greatest
    <3> HIDE DEF at
    <3> QED
      BY <3>1, <3>2, Zenon DEF LastUpTo
  <2>3. WellFormed(line) <=> FineUpTo(line, len)
    BY <1>1, <2>1, Zenon DEF WellFormed, FineUpTo, FinePair, len
  <2>4. Agrees(args_parse(line), line, len)
    BY <1>2, <1>4, <1>5
  <2> QED
    BY <2>2, <2>3, <2>4 DEF Agrees
<1>6. CASE len = 2 * k + 1
  <2>1. ~WellFormed(line)
    <3>1. len % 2 # 0
      BY <1>3, <1>6
    <3> QED
      BY <3>1 DEF WellFormed, len
  <2> DEFINE p == o[2 * k]
             q == args_parse(line)
             a == line[len]
  <2>2. q = Argument(p, a) /\ IsOptions(p) /\ p.wants = NULL
    <3>1. len \in 1 .. len /\ len - 1 = 2 * k
      BY <1>1, <1>3, <1>6
    <3> QED
      BY <1>2, <1>4, <3>1 DEF Agrees
  <2> HIDE DEF p, q, a
  <2>3. ~(q.ok /\ q.wants = NULL)
    <3>1. CASE ~p.ok
      BY <2>2, <3>1 DEF Argument
    <3>2. CASE p.ok /\ a \in {"-machine", "-speed", "-debug"}
      <4>1. q = [p EXCEPT !.wants = a]
        BY <2>2, <3>2 DEF Argument
      <4>2. q.wants = a
        BY <2>2, <4>1 DEF IsOptions
      <4> QED
        BY <3>2, <4>2 DEF NULL
    <3>3. CASE p.ok /\ a \notin {"-machine", "-speed", "-debug"}
      <4>1. q = [p EXCEPT !.ok = FALSE]
        BY <2>2, <3>3 DEF Argument
      <4> QED
        BY <2>2, <4>1 DEF IsOptions
    <3> QED
      BY <3>1, <3>2, <3>3
  <2> QED
    BY <2>1, <2>3 DEF q
<1> QED
  BY <1>3, <1>5, <1>6

-----------------------------------------------------------------------------
(* Start-up does what the command line asks for *)

EarlySteps  == {"memory_init", "ports_init", "timing_init", "args_parse"}
ReadySteps  == {"bubble_init", "uart_init", "modem_init", "tms9914a_init", "rtc_init",
                "gridvideo_init"}
PacedSteps  == {"i8259_init", "gridKeyboard8741_init", "run", "quit"} \cup ReadySteps
FoundSteps  == {"idt", "main", "rom", "speed"} \cup PacedSteps
ParsedSteps == {"sdlconsole_init", "machine_defs"} \cup FoundSteps

Keyboard == "gridKeyboard8741_tickCallback"
ScanLine == "gridvideo_scanlineCallback"
Wanted   == args_parse(argv)
SpeedOf(o) == CASE o.speed > 0 -> o.speed [] o.speed < 0 -> -1 [] OTHER -> 5

\* What has been settled when a step of start-up is next.
Settled ==
  /\ step \in ParsedSteps => options = Wanted /\ Wanted.ok /\ Wanted.wants = NULL
  /\ step \in FoundSteps => Wanted.machine = "1101"
  /\ step \in PacedSteps => speed = SpeedOf(Wanted)
TimersAdded ==
  timers = IF Started THEN <<Keyboard, ScanLine>>
           ELSE IF step \in ReadySteps THEN <<Keyboard>> ELSE <<>>
RefusedFor ==
  IF step = "exited"
  THEN refused \/ ~(Wanted.ok /\ Wanted.wants = NULL /\ Wanted.machine = "1101")
  ELSE ~refused /\ step \in EarlySteps \cup ParsedSteps

StartInv ==
  /\ argv \in Seq(STRING)
  /\ RefusedFor /\ Settled
  /\ step # "exited" => TimersAdded

\* A step of start-up the host may refuse and that settles nothing.
LEMMA StartGoesOn ==
  ASSUME StartInv, UNCHANGED <<argv, options, speed, timers>>,
         NEW from, NEW to, Granted(from, to) \/ Denied(from),
         \/ from \in EarlySteps \ {"args_parse"} /\ to \in EarlySteps
         \/ from = "sdlconsole_init" /\ to = "machine_defs"
         \/ from \in {"idt", "main", "rom"} /\ to \in {"main", "rom", "speed"}
         \/ from = "i8259_init" /\ to = "gridKeyboard8741_init"
         \/ from \in ReadySteps /\ to \in ReadySteps
  PROVE  StartInv'
<1> USE DEF EarlySteps, ParsedSteps, FoundSteps, PacedSteps, ReadySteps
<1>1. Wanted' = Wanted
  BY DEF Wanted
<1>2. CASE Denied(from)
  BY <1>1, <1>2 DEF StartInv, RefusedFor, Settled, TimersAdded, Denied, Step
<1>3. CASE Granted(from, to)
  <2>1. step = from /\ step' = to /\ refused' = refused
    BY <1>3 DEF Granted, Step
  <2>2. RefusedFor'
    BY <2>1 DEF StartInv, RefusedFor
  <2>3. Settled'
    BY <1>1, <2>1 DEF StartInv, Settled
  <2>4. TimersAdded'
    BY <2>1 DEF StartInv, TimersAdded, Started
  <2> QED
    BY <2>2, <2>3, <2>4 DEF StartInv
<1> QED
  BY <1>2, <1>3

\* The steps that settle something.
LEMMA ParsingSettles ==
  ASSUME StartInv, ParseArgs \/ FindMachine
  PROVE  StartInv'
<1> USE DEF EarlySteps, ParsedSteps, FoundSteps, PacedSteps, ReadySteps
<1>1. CASE ParseArgs
  BY <1>1 DEF ParseArgs, Granted, Step, StartInv, RefusedFor, Settled, TimersAdded, Started,
              Wanted
<1>2. CASE FindMachine
  BY <1>2 DEF FindMachine, Granted, Step, StartInv, RefusedFor, Settled, TimersAdded,
              Started, Wanted
<1> QED
  BY <1>1, <1>2

LEMMA SpeedSettles ==
  ASSUME StartInv, ChooseSpeed
  PROVE  StartInv'
<1> USE DEF EarlySteps, ParsedSteps, FoundSteps, PacedSteps, ReadySteps
<1>1. /\ step = "speed" /\ step' = "i8259_init" /\ UNCHANGED <<refused, argv, options, timers>>
      /\ speed' = SpeedOf(options)
  BY DEF ChooseSpeed, Granted, Step, SpeedOf
<1>2. Wanted' = Wanted
  BY <1>1 DEF Wanted
<1>3. RefusedFor' /\ TimersAdded'
  BY <1>1 DEF StartInv, RefusedFor, TimersAdded, Started
<1>4. Settled'
  BY <1>1, <1>2 DEF StartInv, Settled
<1> QED
  BY <1>1, <1>3, <1>4 DEF StartInv

\* The steps that add a timer, and those that add none.
LEMMA TimersFollow ==
  ASSUME StartInv, UNCHANGED <<argv, options, speed>>,
         NEW from, NEW to, Granted(from, to), NEW added, timers' = timers \o added,
         \/ from = "gridKeyboard8741_init" /\ to = "bubble_init" /\ added = <<Keyboard>>
         \/ from = "gridvideo_init" /\ to = "run" /\ added = <<ScanLine>>
         \/ from \in ReadySteps /\ to \in ReadySteps /\ added = <<>>
  PROVE  StartInv'
<1> USE DEF EarlySteps, ParsedSteps, FoundSteps, PacedSteps, ReadySteps
<1>1. step = from /\ step' = to /\ refused' = refused
  BY DEF Granted, Step
<1>2. Wanted' = Wanted
  BY DEF Wanted
<1>3. RefusedFor' /\ Settled'
  BY <1>1, <1>2 DEF StartInv, RefusedFor, Settled
<1>4. TimersAdded'
  <2>1. /\ <<>> \o <<Keyboard>> = <<Keyboard>>
        /\ <<Keyboard>> \o <<ScanLine>> = <<Keyboard, ScanLine>>
        /\ <<Keyboard>> \o <<>> = <<Keyboard>>
    <3>1. <<>> \o <<Keyboard>> = <<Keyboard>>
      BY ConcatEmptySeq
    <3>2. <<Keyboard>> \o <<ScanLine>> = <<Keyboard, ScanLine>>
      <4> DEFINE S == {Keyboard, ScanLine}
                 both == <<Keyboard>> \o <<ScanLine>>
      <4>1. /\ <<Keyboard>> \in Seq(S) /\ <<ScanLine>> \in Seq(S)
            /\ <<Keyboard, ScanLine>> \in Seq(S)
        OBVIOUS
      <4>2. /\ both \in Seq(S) /\ Len(both) = 1 + 1
            /\ \A i \in 1 .. 1 + 1 :
                 both[i] = IF i <= 1 THEN <<Keyboard>>[i] ELSE <<ScanLine>>[i - 1]
        BY <4>1, ConcatProperties
      <4> HIDE DEF both, S
      <4>3. both[1] = Keyboard /\ both[2] = ScanLine
        BY <4>2
      <4>4. both = <<Keyboard, ScanLine>>
        BY <4>1, <4>2, <4>3
      <4> QED
        BY <4>4 DEF both
    <3>3. <<Keyboard>> \o <<>> = <<Keyboard>>
      BY ConcatEmptySeq
    <3> QED
      BY <3>1, <3>2, <3>3
  <2>2. CASE from = "gridKeyboard8741_init"
    BY <1>1, <2>1, <2>2 DEF StartInv, TimersAdded, Started
  <2>3. CASE from = "gridvideo_init" /\ to = "run"
    BY <1>1, <2>1, <2>3 DEF StartInv, TimersAdded, Started
  <2>4. CASE from \in ReadySteps /\ to \in ReadySteps /\ added = <<>>
    BY <1>1, <2>1, <2>4 DEF StartInv, TimersAdded, Started
  <2> QED
    BY <2>2, <2>3, <2>4
<1> QED
  BY <1>3, <1>4 DEF StartInv

LEMMA StartUpSettles ==
  ASSUME StartInv, StartUp
  PROVE  StartInv'
<1>1. CASE memory_init \/ ports_init
  BY <1>1, StartGoesOn DEF memory_init, ports_init, EarlySteps
<1>2. CASE timing_init
  <2>1. UNCHANGED <<argv, options, speed, timers>> /\ Granted("timing_init", "args_parse")
    BY <1>2 DEF timing_init, StartInv, RefusedFor, TimersAdded, Started, ReadySteps, Granted, Step
  <2> QED
    BY <2>1, StartGoesOn DEF EarlySteps
<1>3. CASE ParseArgs \/ FindMachine
  BY <1>3, ParsingSettles
<1>4. CASE sdlconsole_init
  BY <1>4, StartGoesOn DEF sdlconsole_init
<1>5. CASE MapRams
  BY <1>5, StartGoesOn DEF MapRams, MapRam
<1>6. CASE MapRom
  BY <1>6, StartGoesOn DEF MapRom
<1>7. CASE ChooseSpeed
  BY <1>7, SpeedSettles
<1>8. CASE i8259_init
  BY <1>8, StartGoesOn DEF i8259_init
<1>9. CASE gridKeyboard8741_init
  <2>1. /\ Granted("gridKeyboard8741_init", "bubble_init")
        /\ UNCHANGED <<argv, options, speed>> /\ timers' = timers \o <<Keyboard>>
    BY <1>9 DEF gridKeyboard8741_init, Attach, Keyboard
  <2> QED
    BY <2>1, TimersFollow
<1>10. CASE bubble_init
  <2>1. CASE Denied("bubble_init") /\ UNCHANGED <<argv, options, speed>>
    BY <2>1 DEF StartInv, RefusedFor, Settled, Denied, Step, ParsedSteps, FoundSteps,
                PacedSteps, ReadySteps
  <2>2. CASE Granted("bubble_init", "uart_init") /\ Attach(\hDFE80, 4, "bubble", <<>>)
    <3>1. /\ Granted("bubble_init", "uart_init")
          /\ UNCHANGED <<argv, options, speed>> /\ timers' = timers \o <<>>
      BY <2>2 DEF Attach
    <3> QED
      BY <3>1, TimersFollow DEF ReadySteps
  <2> QED
    BY <1>10, <2>1, <2>2 DEF bubble_init, Attach
<1>11. CASE uart_init \/ modem_init \/ rtc_init
  <2>1. PICK from \in ReadySteps, to \in ReadySteps : Granted(from, to)
    BY <1>11 DEF uart_init, modem_init, rtc_init, ReadySteps
  <2>2. UNCHANGED <<argv, options, speed>> /\ timers' = timers \o <<>>
    BY <1>11 DEF uart_init, modem_init, rtc_init, Attach
  <2> QED
    BY <2>1, <2>2, TimersFollow
<1>12. CASE tms9914a_init
  BY <1>12, StartGoesOn DEF tms9914a_init, ReadySteps
<1>13. CASE gridvideo_init
  BY <1>13, TimersFollow DEF gridvideo_init, Attach, ScanLine
<1> QED
  BY <1>1, <1>2, <1>3, <1>4, <1>5, <1>6, <1>7, <1>8, <1>9, <1>10, <1>11, <1>12, <1>13
     DEF StartUp

\* Once the loop is reached nothing of this changes.
LEMMA StartStays ==
  ASSUME StartInv, UNCHANGED settings, step' = step \/ (step = "run" /\ step' \in {"run", "quit"})
  PROVE  StartInv'
<1>1. Wanted' = Wanted
  BY DEF Wanted, settings
<1> QED
  BY <1>1 DEF settings, StartInv, RefusedFor, Settled, TimersAdded, Started, EarlySteps,
              ParsedSteps, FoundSteps, PacedSteps, ReadySteps

LEMMA StartNext ==
  ASSUME StartInv, [BoardNext]_boardVars
  PROVE  StartInv'
<1>1. CASE StartUp
  BY <1>1, StartUpSettles
<1>2. CASE step = "run" /\ (Onlooker \/ MinutePasses)
  BY <1>2, OnlookersFrame, StartStays
<1>3. CASE \E addr \in program.addresses : Write(addr)
  <2>1. UNCHANGED <<settings, step>>
    BY <1>3 DEF Write
  <2> QED
    BY <2>1, StartStays
<1>4. CASE UNCHANGED boardVars
  BY <1>4, StartStays DEF boardVars
<1>5. MinutePasses => step = "run"
  BY DEF MinutePasses
<1> QED
  BY <1>1, <1>2, <1>3, <1>4, <1>5, LoopSteps DEF BoardNext

\* For command lines of any length: the loop is reached exactly by those that ask for
\* this machine and that the host refuses nothing, with the last value of each option
\* and both timers running (main.c:97-113, args.c:95-133, machine.c:121-187).
THEOREM StartsAsAsked == BoardSpec => []StartedAsAsked
<1>1. BoardInit => StartInv
  BY BoardAssumption DEF BoardInit, StartInv, RefusedFor, Settled, TimersAdded, Started,
                         EarlySteps, ParsedSteps, FoundSteps, PacedSteps, ReadySteps
<1>2. StartInv /\ [BoardNext]_boardVars => StartInv'
  BY StartNext
<1>3. StartInv => StartedAsAsked
  <2> SUFFICES ASSUME StartInv PROVE StartedAsAsked
    OBVIOUS
  <2> DEFINE machine == LastOf("-machine", argv, "1101")
             mhz == atof(LastOf("-speed", argv, "0"))
             asked == WellFormed(argv) /\ machine = "1101"
  <2>1. /\ Wanted.ok /\ Wanted.wants = NULL <=> WellFormed(argv)
        /\ WellFormed(argv) => /\ Wanted.machine = machine
                               /\ Wanted.speed = mhz
                               /\ Wanted.debug = LastOf("-debug", argv, "info")
    BY ArgumentsRead DEF StartInv, Wanted
  <2> HIDE DEF machine, mhz
  <2>2. step = "exited" => ~asked \/ refused
    BY <2>1 DEF StartInv, RefusedFor
  <2>3. ASSUME Started
        PROVE  /\ asked /\ ~refused
               /\ options.debug = LastOf("-debug", argv, "info")
               /\ mhz # 0 => speed = IF mhz > 0 THEN mhz ELSE -1
               /\ timers = <<Keyboard, ScanLine>>
    <3>1. /\ step \in {"run", "quit"} /\ step # "exited"
          /\ step \in ParsedSteps /\ step \in FoundSteps /\ step \in PacedSteps
      BY <2>3 DEF Started, ParsedSteps, FoundSteps, PacedSteps
    <3>2. /\ options = Wanted /\ Wanted.ok /\ Wanted.wants = NULL /\ Wanted.machine = "1101"
          /\ speed = SpeedOf(Wanted) /\ ~refused /\ timers = <<Keyboard, ScanLine>>
      BY <2>3, <3>1 DEF StartInv, Settled, RefusedFor, TimersAdded
    <3>3. mhz # 0 => speed = IF mhz > 0 THEN mhz ELSE -1
      <4>1. mhz \in Int
        BY DEF mhz, atof
      <4>2. Wanted.speed = mhz
        BY <2>1, <3>2
      <4> QED
        BY <3>2, <4>1, <4>2 DEF SpeedOf
    <3> QED
      BY <2>1, <3>2, <3>3
  <2> QED
    BY <2>2, <2>3 DEF StartedAsAsked, Keyboard, ScanLine, machine, mhz
<1> QED
  BY <1>1, <1>2, <1>3, PTL DEF BoardSpec
=============================================================================

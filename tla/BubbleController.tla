--------------------------- MODULE BubbleController ---------------------------
(***************************************************************************)
(* The Intel 7220 bubble memory controller of src/src/i7220.c: the two     *)
(* ports the guest reads and writes (main thread, "cpu"), bubble_thread    *)
(* that executes commands ("bubble"), and the FIFO of BubbleFifo between   *)
(* them.                                                                   *)
(*                                                                         *)
(* pc["cpu"] = "caller" is the point between two guest instructions;       *)
(* pc["bubble"] = "caller" is the body of the command that commandStart    *)
(* switched to, which calls fifo_push or fifo_clear.                       *)
(***************************************************************************)
EXTENDS BubbleFifo, FiniteSets

CONSTANTS
  GuestCommands,    \* commands the guest issues
  SelectValues,     \* register addresses it selects
  WriteValues,      \* WriteValues[r]: what it writes to register r
  PageBytes,        \* bytes sectorRead delivers (32)
  bubbleModuleCount,
  MbmPages,         \* pages of an MBM in the image (I7110_MBM_SIZE / 32)
  ImagePages,       \* pages in the image file
  Driver            \* does the guest follow the driver's protocol?

Registers == 10 .. 15
\* The addresses the chip does not have: regArray[regRAC - 10] is in front of
\* regArray, in this build regRAC itself (9) and the bytes of bubbleFile (8 .. 1).
OnAddress == 9
OnFile    == 1 .. 8

ASSUME ControllerAssumption ==
  /\ GuestCommands \subseteq Commands
  /\ SelectValues \subseteq 0 .. 15
  /\ WriteValues \in [1 .. 15 -> SUBSET (0 .. 255)]
  /\ PageBytes \in Nat \ {0}
  /\ bubbleModuleCount \in Nat /\ MbmPages \in Nat /\ ImagePages \in Nat
  /\ Driver \in BOOLEAN

VARIABLES
  regRAC, regArray, lastCommand,
  bubbleFile,       \* "opened", or "stray": the guest has stored into the pointer
  regBubbleCounter, regBubbleLimit,
  filePage,         \* page of the image where bubbleFile stands
  bufferPage,       \* page bubbleBuffer holds; -1 is its zeros at the start
  cmd,              \* argument of commandStart
  byteNo,           \* a, the byte of the page being pushed
  sucess,           \* argument of commandEnd
  prev,             \* history: the command commandStart ran before this one
  moved,            \* history: bytes the running command put in the ring
  phaseLost,        \* history: has commandEnd erased a newer PHASE_CMD?
  asked,            \* history: page the registers named when the guest gave the command
  failed            \* history: has a command failed?

regs    == <<regRAC, regArray, bubbleFile>>
file    == <<filePage, bufferPage>>
counters == <<regBubbleCounter, regBubbleLimit>>
thread  == <<lastCommand, counters, file, cmd, byteNo, sucess>>
ghosts  == <<prev, moved, phaseLost, asked, failed>>
ctlVars == <<vars, regs, thread, ghosts>>

cmdInitialize == 1

regUtility     == 10
regBlockLenLSB == 11
regBlockLenMSB == 12
regAddressLSB  == 14
regAddressMSB  == 15

\* regUpdate: what the parametric registers say.
regBlockLen == regArray[regBlockLenMSB] * 256 + regArray[regBlockLenLSB]
regAddress  == regArray[regAddressMSB] * 256 + regArray[regAddressLSB]
regBlockLenCount == regBlockLen % 2048
regBlockLen_nfc  == IF regBlockLen \div 4096 # 0 THEN 2 * (regBlockLen \div 4096)
                    ELSE 1
regAddress_mbm   == (regAddress \div 2048) % 16
regAddress_addr  == regAddress % 2048

\* filePosition of commandReadBubbleData, before the counter is added, in pages.
FirstPage == regAddress_addr * regBlockLen_nfc + regAddress_mbm * MbmPages

-----------------------------------------------------------------------------
(* The guest: bubble_read and bubble_write *)

AtGuest == pc["cpu"] = "caller"

\* The driver polls the status register: it programs the controller and
\* issues commands when BUSY is off, and reads data when FIFO READY is on,
\* while a command is running only if that command is a Read.
MayProgram == Driver => "BUSY" \notin regStatus
MayCommand == Driver => "BUSY" \notin regStatus /\ regRAC = 0
MayRead    == Driver => /\ "FIFO_READY" \in regStatus
                        /\ "BUSY" \in regStatus => bubbleCommand = cmdReadBubbleData

SelectRegister ==
  /\ AtGuest /\ MayProgram
  /\ regRAC' \in SelectValues
  /\ UNCHANGED <<vars, regArray, bubbleFile, thread, ghosts>>

WriteRegister ==
  /\ AtGuest /\ MayProgram
  /\ regRAC \in Registers
  /\ \E v \in WriteValues[regRAC] : regArray' = [regArray EXCEPT ![regRAC] = v]
  /\ regRAC' = (regRAC + 1) % 16
  /\ UNCHANGED <<vars, bubbleFile, thread, ghosts>>

WriteOnAddress ==
  /\ AtGuest /\ MayProgram
  /\ regRAC = OnAddress
  /\ \E v \in WriteValues[regRAC] : regRAC' = (v + 1) % 16
  /\ UNCHANGED <<vars, regArray, bubbleFile, thread, ghosts>>

WriteOnFile ==
  /\ AtGuest /\ MayProgram
  /\ regRAC \in OnFile /\ WriteValues[regRAC] # {}
  /\ bubbleFile' = "stray"
  /\ regRAC' = regRAC + 1
  /\ UNCHANGED <<vars, regArray, thread, ghosts>>

ReadRegister ==
  /\ AtGuest /\ MayProgram
  /\ regRAC \in {regUtility, regAddressLSB, regAddressMSB}
  /\ regRAC' = (regRAC + 1) % 16
  /\ UNCHANGED <<vars, regArray, bubbleFile, thread, ghosts>>

\* The other registers answer 0 and leave regRAC where it is; the status
\* register may be read at any time.
ReadQuietly == AtGuest /\ MayProgram /\ UNCHANGED ctlVars

ReadFifo == /\ AtGuest /\ MayRead /\ regRAC = 0 /\ "pop" \in CpuCalls
            /\ PopCall("cpu")
            /\ UNCHANGED <<regs, thread, ghosts>>

WriteFifo == /\ AtGuest /\ MayProgram /\ regRAC = 0 /\ "push" \in CpuCalls
             /\ \E b \in Bytes : PushCall("cpu", b)
             /\ UNCHANGED <<regs, thread, ghosts>>

\* A command: four stores to shared memory, two of them updates of regStatus.
WriteCommand ==
  /\ MayCommand
  /\ Goto("cpu", "caller", "cmd_busy")
  /\ bubbleCommand' \in GuestCommands
  /\ asked' = FirstPage
  /\ UNCHANGED <<ring, fifo_size, fifoLock, regStatus, irqRaised, mainExecPhase,
                 locals, history, regs, thread, prev, moved, phaseLost, failed>>

\* Mutant: the last command's OP COMPLETE is left on.
SetBusyOnly ==
  /\ \/ LoadStatus("cpu", "cmd_busy", "cmd_setBusy")
     \/ StoreStatus("cpu", "cmd_setBusy", "cmd_phase", bits["cpu"] \cup {"BUSY"})
  /\ UNCHANGED <<regs, thread, ghosts>>

SetBusy ==
  /\ \/ LoadStatus("cpu", "cmd_busy", "cmd_setBusy")
     \/ StoreStatus("cpu", "cmd_setBusy", "cmd_complete", bits["cpu"] \cup {"BUSY"})
     \/ LoadStatus("cpu", "cmd_complete", "cmd_clearComplete")
     \/ StoreStatus("cpu", "cmd_clearComplete", "cmd_phase",
                    bits["cpu"] \ {"OP_COMPLETE"})
  /\ UNCHANGED <<regs, thread, ghosts>>

SetPhase ==
  /\ Goto("cpu", "cmd_phase", "caller")
  /\ mainExecPhase' = "CMD"
  /\ UNCHANGED <<ring, fifo_size, fifoLock, regStatus, irqRaised, bubbleCommand,
                 locals, history, regs, thread, ghosts>>

CpuFifo == Run("cpu") /\ UNCHANGED <<regs, thread, ghosts>>

Guest == \/ SelectRegister \/ WriteRegister \/ WriteOnAddress \/ WriteOnFile
         \/ ReadRegister \/ ReadQuietly
         \/ ReadFifo \/ WriteFifo \/ CpuFifo
         \/ WriteCommand \/ SetBusy \/ SetPhase

-----------------------------------------------------------------------------
(* bubble_thread: commandStart, commandReadBubbleData, commandEnd *)

\* The thread sees PHASE_CMD; bubbleCommand is another access.
SeeCommand ==
  /\ mainExecPhase = "CMD"
  /\ Branch("bubble", "loop", "start")
  /\ UNCHANGED <<regs, thread, ghosts>>

TakeCommand ==
  /\ Goto("bubble", "start", "exec")
  /\ cmd' = bubbleCommand
  /\ UNCHANGED <<ring, fifo_size, fifoLock, regStatus, irqRaised, command,
                 locals, history, regs, lastCommand, counters, file, byteNo,
                 sucess, ghosts>>

EnterExec ==
  /\ Goto("bubble", "exec", "switch")
  /\ mainExecPhase' = "EXEC"
  /\ moved' = 0
  /\ UNCHANGED <<ring, fifo_size, fifoLock, regStatus, irqRaised, bubbleCommand,
                 locals, history, regs, thread, prev, phaseLost, asked, failed>>

ReadAllowed == regAddress_mbm < bubbleModuleCount /\ regBlockLen_nfc = 2

\* commandEnd(ok) is next.
EndWith(ok, from) ==
  /\ Branch("bubble", from, "end_outcome")
  /\ sucess' = ok
  /\ failed' = (failed \/ ~ok)
  /\ UNCHANGED <<regs, lastCommand, counters, file, cmd, byteNo, prev, moved,
                 phaseLost, asked>>

\* The commands that move no data.
SwitchInitialize == cmd = cmdInitialize /\ EndWith(regBlockLen_nfc = 2, "switch")
SwitchReadRefused == cmd = cmdReadBubbleData /\ ~ReadAllowed /\ EndWith(FALSE, "switch")
SwitchDefault ==
  /\ cmd \notin {cmdInitialize, cmdReadBubbleData} \cup ClearingCommands
  /\ EndWith(FALSE, "switch")

\* Abort, Reset FIFO and Software Reset all run fifo_clear.  The last one also
\* stores 0 in regArray[regUtility]: element 10 of 6, which in this build is a
\* byte of padding, so the Utility register keeps its value.
SwitchClear ==
  /\ cmd \in ClearingCommands
  /\ ClearFrom("bubble", "switch")
  /\ UNCHANGED <<regs, thread, ghosts>>

ClearReturns ==
  /\ cmd \in ClearingCommands
  /\ EndWith(TRUE, "caller")

\* Mutant: the limit counts pages of one channel.
StartCountingOneChannel ==
  IF lastCommand # cmdReadBubbleData
  THEN /\ regBubbleCounter' = 0
       /\ regBubbleLimit' = regBlockLenCount
  ELSE UNCHANGED counters

\* A Read that follows a Read goes on where that one stopped.
StartCounting ==
  IF lastCommand # cmdReadBubbleData
  THEN /\ regBubbleCounter' = 0
       /\ regBubbleLimit' = regBlockLenCount * regBlockLen_nfc
  ELSE UNCHANGED counters

\* Mutant: the file goes on from where it stands.
SwitchReadNoSeek ==
  /\ cmd = cmdReadBubbleData /\ ReadAllowed
  /\ Branch("bubble", "switch", "page")
  /\ StartCounting
  /\ UNCHANGED <<regs, lastCommand, file, cmd, byteNo, sucess, ghosts>>

\* Up to the fseek of commandReadBubbleData.  What fseek and fread do with a stray
\* pointer is undefined: it may be the image's all the same, the call may fail, or
\* never come back (CallHangs).
SwitchRead ==
  /\ cmd = cmdReadBubbleData /\ ReadAllowed
  /\ Branch("bubble", "switch", "page")
  /\ StartCounting
  /\ \/ filePage' = FirstPage + regBubbleCounter'
     \/ bubbleFile = "stray" /\ UNCHANGED filePage
  /\ UNCHANGED <<regs, lastCommand, bufferPage, cmd, byteNo, sucess, ghosts>>

\* fread leaves the buffer as it is at the end of the image.
sectorRead ==
  \/ filePage < ImagePages /\ bufferPage' = filePage /\ filePage' = filePage + 1
  \/ (filePage >= ImagePages \/ bubbleFile = "stray") /\ UNCHANGED file

ReadPage ==
  /\ regBubbleCounter < regBubbleLimit
  /\ Branch("bubble", "page", "caller")
  /\ sectorRead
  /\ byteNo' = 0
  /\ UNCHANGED <<regs, lastCommand, counters, cmd, sucess, ghosts>>

\* If the process dies in the call, the guest takes no step either.
CallHangs ==
  /\ bubbleFile = "stray"
  /\ \/ cmd = cmdReadBubbleData /\ ReadAllowed /\ Branch("bubble", "switch", "hung")
     \/ regBubbleCounter < regBubbleLimit /\ Branch("bubble", "page", "hung")
  /\ UNCHANGED <<regs, thread, ghosts>>

\* Bytes of the image are any; bufferPage says whose they are.
PushByte ==
  /\ cmd = cmdReadBubbleData /\ byteNo < PageBytes
  /\ \E b \in Bytes : PushCall("bubble", b)
  /\ byteNo' = byteNo + 1
  /\ UNCHANGED <<regs, lastCommand, counters, file, cmd, sucess, ghosts>>

PageDone ==
  /\ cmd = cmdReadBubbleData /\ byteNo = PageBytes
  /\ Branch("bubble", "caller", "page")
  /\ regBubbleCounter' = regBubbleCounter + 1
  /\ byteNo' = 0
  /\ UNCHANGED <<regs, lastCommand, regBubbleLimit, file, cmd, sucess, ghosts>>

ReadDone == regBubbleCounter >= regBubbleLimit /\ EndWith(TRUE, "page")

\* Mutant: BUSY is left on.
SetOutcomeBusy ==
  /\ \/ LoadStatus("bubble", "end_outcome", "end_setOutcome")
     \/ StoreStatus("bubble", "end_setOutcome", "end_phase",
                    bits["bubble"] \cup {IF sucess THEN "OP_COMPLETE" ELSE "OP_FAIL"})
  /\ UNCHANGED <<regs, thread, ghosts>>

\* commandEnd; OP FAIL, once set, is never reset.
SetOutcome ==
  /\ \/ LoadStatus("bubble", "end_outcome", "end_setOutcome")
     \/ StoreStatus("bubble", "end_setOutcome", "end_busy",
                    bits["bubble"] \cup {IF sucess THEN "OP_COMPLETE" ELSE "OP_FAIL"})
     \/ LoadStatus("bubble", "end_busy", "end_clearBusy")
     \/ StoreStatus("bubble", "end_clearBusy", "end_phase",
                    bits["bubble"] \ {"BUSY"})
  /\ UNCHANGED <<regs, thread, ghosts>>

EndPhase ==
  /\ Goto("bubble", "end_phase", "last")
  /\ mainExecPhase' = "IDLE"
  /\ phaseLost' = (phaseLost \/ mainExecPhase = "CMD")
  /\ UNCHANGED <<ring, fifo_size, fifoLock, regStatus, irqRaised, bubbleCommand,
                 locals, history, regs, thread, prev, moved, asked, failed>>

\* lastCommand is what bubbleCommand holds now, not what was executed.
RememberCommand ==
  /\ Branch("bubble", "last", "loop")
  /\ lastCommand' = bubbleCommand
  /\ prev' = cmd
  /\ UNCHANGED <<regs, counters, file, cmd, byteNo, sucess, moved, phaseLost, asked,
                 failed>>

BubbleFifoStep ==
  /\ Run("bubble")
  /\ moved' = IF pc["bubble"] = "push_head" THEN moved + 1 ELSE moved
  /\ UNCHANGED <<regs, thread, prev, phaseLost, asked, failed>>

Bubble == \/ SeeCommand \/ TakeCommand \/ EnterExec
          \/ SwitchInitialize \/ SwitchReadRefused \/ SwitchDefault
          \/ SwitchClear \/ ClearReturns \/ SwitchRead \/ CallHangs
          \/ ReadPage \/ PushByte \/ PageDone \/ ReadDone
          \/ SetOutcome \/ EndPhase \/ RememberCommand \/ BubbleFifoStep

-----------------------------------------------------------------------------
ControllerInit ==
  /\ fifoArray = [i \in Slots |-> 0]
  /\ fifo_head = 0 /\ fifo_tail = 0 /\ fifo_size = 0 /\ fifoLock = FALSE
  /\ regStatus = {} /\ irqRaised = FALSE
  /\ mainExecPhase = "IDLE" /\ bubbleCommand = 0 /\ lastCommand = 0
  /\ pc = [t \in Threads |-> IF t = "cpu" THEN "caller" ELSE "loop"]
  /\ val = [t \in Threads |-> 0] /\ idx = [t \in Threads |-> 0]
  /\ acc = [t \in Threads |-> 0] /\ bits = [t \in Threads |-> {}]
  /\ clobbered = {} /\ overlapped = FALSE
  /\ bubbleFile = "opened"
  /\ regRAC = 0 /\ regArray = [r \in Registers |-> 0]
  /\ regBubbleCounter = 0 /\ regBubbleLimit = 0
  /\ filePage = 0 /\ bufferPage = -1
  /\ cmd = 0 /\ byteNo = 0 /\ sucess = FALSE
  /\ prev = 0 /\ moved = 0 /\ phaseLost = FALSE /\ asked = 0 /\ failed = FALSE

ControllerNext == Guest \/ Bubble

ControllerSpec == ControllerInit /\ [][ControllerNext]_ctlVars

\* bubble_thread spins for ever, a guest instruction that has begun goes on,
\* and the driver reads as long as FIFO READY is on.
ControllerFairSpec ==
  /\ ControllerSpec
  /\ WF_ctlVars(Bubble)
  /\ WF_ctlVars(CpuFifo \/ SetBusy \/ SetPhase)
  /\ WF_ctlVars(ReadFifo)

-----------------------------------------------------------------------------
(* Properties *)

\* One of the unsynchronised updates has gone wrong: of regStatus or fifo_size,
\* of mainExecPhase, or of lastCommand.
Slipped == clobbered # {} \/ phaseLost \/ lastCommand # prev

\* When the thread is back in its loop and no command is pending, BUSY is off,
\* OP COMPLETE says how the last command ended and OP FAIL whether any command
\* ever failed, for nothing resets it (i7220.c:278-279, 461-462), unless an
\* update was lost.
IdleStatus ==
  pc["bubble"] = "loop" /\ mainExecPhase = "IDLE" /\ AtGuest /\ ~Slipped =>
    /\ "BUSY" \notin regStatus
    /\ ("OP_COMPLETE" \in regStatus) <=> sucess
    /\ ("OP_FAIL" \in regStatus) <=> failed

\* A Read has put every byte of count * nfc pages in the ring when it ends, or
\* none if the command before it was a Read too (i7220.c:469-487), unless an
\* update was lost.
ReadMovesEverything ==
  pc["bubble"] = "page" /\ regBubbleCounter = regBubbleLimit /\ ~Slipped =>
    moved = IF prev = cmdReadBubbleData THEN 0
            ELSE PageBytes * regBlockLenCount * regBlockLen_nfc

\* The pages a Read sends are, in order, those of the image from the address the
\* registers held when the guest gave the command (i7220.c:389-395, 474-494), up
\* to the end of the image, unless an update was lost or the guest has written to a
\* register the chip does not have: an increment of regRAC never leads there (268).
PagesAreRead ==
  pc["bubble"] = "caller" /\ cmd = cmdReadBubbleData /\ ~Slipped
    /\ bubbleFile = "opened" /\ asked + regBubbleCounter < ImagePages =>
    bufferPage = asked + regBubbleCounter

\* Abort, Reset FIFO and Software Reset leave an empty FIFO with READY off
\* and indices, fill count and status that agree (i7220.c:321-326), if the
\* guest keeps its hands off the data port meanwhile.
ClearEmpties ==
  cmd \in ClearingCommands /\ pc["bubble"] = "end_outcome"
    /\ ~Slipped =>
    /\ fifo_head = fifo_tail /\ fifo_size = 0
    /\ "FIFO_READY" \notin regStatus

\* A driver that drains the FIFO sees BUSY go off after every command (i7220.c:278,
\* 462), and one that reads when FIFO READY is on never hangs the emulator in
\* fifo_pop (330), unless an update was lost, both threads were inside fifoLock or
\* the guest has stored into bubbleFile.
BusyEnds ==
  LET excused == Slipped \/ overlapped \/ bubbleFile = "stray"
  IN  /\ "BUSY" \in regStatus ~> ("BUSY" \notin regStatus \/ excused)
      /\ pc["cpu"] = "pop_wait" ~> (pc["cpu"] # "pop_wait" \/ excused)

\* i7220.c:424-425 on Abort: "controlled termination of currently executing
\* command.  command accepted in BUSY state."  So one that has been issued is
\* executed, not erased by the end of the command it was to terminate.
AbortAccepted ==
  [][mainExecPhase = "CMD" /\ bubbleCommand = cmdAbort
       => mainExecPhase' # "IDLE"]_ctlVars
==============================================================================

------------------------------ MODULE I7220Device ------------------------------
(***************************************************************************)
(* i7220_device of src/removed/i7220.cpp: the emulation of the bubble      *)
(* memory controller that src/src/i7220.c was ported from, kept beside it. *)
(* The host of the device calls read() and write() for the guest and       *)
(* general_continue() when the timer expires, one call at a time.          *)
(*                                                                         *)
(* The image is a sequence of pages of PageBytes (32); positions in it are *)
(* counted in pages, because every fseek is to the start of one.  Left out *)
(* are the interrupt line, which nothing raises, and writes behind the end *)
(* of the image.                                                           *)
(***************************************************************************)
EXTENDS Integers, Sequences, FiniteSetsExt

CONSTANTS
  PageBytes,       \* 32
  FifoSize,        \* 40
  DrqLevel,        \* 22
  MbmPages,        \* pages of a bubble module: I7110_MBM_SIZE / 32
  DataSize,        \* m_data_size: the number of modules
  Image,           \* the image that is loaded: page -> bytes
  Setups,          \* register contents from which the guest starts
  Sends(_, _),     \* what it writes to the FIFO, after how many commands and bytes,
  Selects,         \* to the register address counter,
  RegValues,       \* to the registers (register -> set of values)
  Commands,        \* and as commands
  MaxCommands      \* bound: commands the guest gives

\* Registers, FIFO and m_buf hold uint8_t; m_buf is a page.
Byte == 0 .. 255
Page == [1 .. PageBytes -> Byte]
ImageSize == DataSize * MbmPages
ImagePages == 0 .. ImageSize - 1

ASSUME DeviceAssumption ==
  /\ PageBytes \in Nat \ {0} /\ FifoSize \in Nat /\ PageBytes <= FifoSize
  /\ DrqLevel \in 0 .. FifoSize
  /\ DataSize \in Nat /\ MbmPages \in Nat
  /\ Image \in [ImagePages -> Page]
  /\ Setups \subseteq [1 .. 15 -> Byte] /\ RegValues \in [1 .. 15 -> SUBSET Byte]
  /\ Selects \subseteq 0 .. 15 /\ Commands \subseteq 0 .. 15

C_INIT == 1
C_READ == 2
C_WRITE == 3
C_READ_FSA_STATUS == 8
C_ABORT == 9
C_RESET_FIFO == 13
C_MBM_PURGE == 14
C_RESET == 15
R_UR == 10
R_BLR_L == 11
R_BLR_M == 12
R_AR_L == 14
R_AR_M == 15

VARIABLES
  phase,           \* m_main_phase: "idle", "exec" or "result"
  main, sub,       \* m_bi.main_state and sub_state
  timer,           \* m_bi.tm is armed
  counter, limit,  \* m_bi.counter and limit, in pages
  pos,             \* the image's file position
  buf,             \* m_buf
  fifo, drq,
  regs, rac,       \* m_regs and the register address counter
  par,             \* what update_regs() makes of the registers
  str,             \* m_str: a subset of {"DONE", "FAIL", "TE"}
  image,
  given,           \* commands the guest has given
  job              \* history: the command in progress or just ended

bubble == <<main, sub, timer, counter, limit, pos, buf, image>>
registers == <<regs, rac, par>>
vars == <<phase, bubble, fifo, drq, registers, str, given, job>>

Decoded(rs) ==
  LET blr == 256 * rs[R_BLR_M] + rs[R_BLR_L]
      ar  == 256 * rs[R_AR_M] + rs[R_AR_L]
  IN  [count |-> blr % 2048,
       nfc |-> IF blr \div 4096 = 0 THEN 1 ELSE 2 * (blr \div 4096),
       addr |-> ar % 2048, mbm |-> (ar \div 2048) % 16]
UpdateRegs(rs) == regs' = rs /\ par' = Decoded(rs)
FirstPage(p) == p.addr * p.nfc + p.mbm * MbmPages

\* The history: which command, with which parameters, image and FIFO, and what
\* the guest put in and took out since; None for a command that was disturbed.
None == [cmd |-> 0, sent |-> <<>>]
Job(cmd) ==
  [cmd |-> cmd, par |-> par, image |-> image, before |-> fifo, got |-> <<>>, sent |-> <<>>]

Init ==
  /\ phase = "idle" /\ main = "idle" /\ sub = "idle"
  /\ timer = FALSE /\ counter = 0 /\ limit = 0 /\ pos = 0
  /\ buf = [i \in 1 .. PageBytes |-> 0]
  /\ fifo = <<>> /\ drq = FALSE
  /\ regs \in Setups /\ par = Decoded(regs) /\ rac = 0
  /\ str = {} /\ image = Image /\ given = 0 /\ job = None

-----------------------------------------------------------------------------
(* The FIFO.  update_drq() runs for a byte that went in or out while a       *)
(* command executes; between commands the main state is idle.               *)

DrqFor(state, size) ==
  CASE state = "read_data"  -> size >= DrqLevel
    [] state = "write_data" -> size < FifoSize - DrqLevel
    [] OTHER -> drq
SetFifo(new, state) ==
  /\ fifo' = new
  /\ drq' = IF Len(new) # Len(fifo) THEN DrqFor(state, Len(new)) ELSE drq
FifoClear == fifo' = <<>> /\ drq' = FALSE

\* A byte pushed into a full FIFO is lost.
Room == FifoSize - Len(fifo)
Pushable(bytes) == SubSeq(bytes, 1, Min({Len(bytes), Room}))

-----------------------------------------------------------------------------
(* The end of a command, and waiting for the timer                          *)

CommandEnd(success) ==
  /\ phase' = "result" /\ main' = "idle" /\ sub' = "idle"
  /\ str' = IF success THEN {"DONE"} ELSE {"FAIL", "TE"}
\* Mutant: the timer is not armed again.
DelayForgotten == timer' = FALSE

DelayCycles == timer' = TRUE
Await(state, next) ==
  /\ phase' = "exec" /\ main' = state /\ sub' = next /\ str' = {}
  /\ DelayCycles

-----------------------------------------------------------------------------
(* The states of a command                                                  *)

\* SECTOR_READ and WAIT_FSA_REPLY of read_data_continue(), one after the other:
\* the break behind delay_cycles() goes on in the loop.  Behind the end of the
\* image fread() leaves the buffer as it is.
ReadSector(c, n, at, j) ==
  LET page == IF at \in DOMAIN image THEN image[at] ELSE buf
  IN  /\ buf' = page /\ pos' = at + 1 /\ limit' = n
      /\ IF c < n
         THEN /\ Await("read_data", "sector_read") /\ counter' = c + 1
              /\ SetFifo(fifo \o Pushable(page), "read_data")
              /\ job' = IF Room < PageBytes THEN None ELSE j
         ELSE /\ CommandEnd(TRUE) /\ counter' = c /\ DelayCycles
              /\ job' = j /\ UNCHANGED <<fifo, drq>>
      /\ UNCHANGED <<registers, image>>

ReadDataStart ==
  ReadSector(0, par.count * par.nfc, FirstPage(par), Job(C_READ))
ReadDataContinue ==
  /\ main = "read_data"
  /\ ReadSector(counter, limit, pos, job)
  /\ UNCHANGED given

WriteDataStart ==
  /\ Await("write_data", "wait_fifo")
  /\ counter' = 0 /\ limit' = par.count * par.nfc
  /\ job' = Job(C_WRITE)
  /\ UNCHANGED <<registers, fifo, drq, pos, buf, image>>

\* Mutant: m_bi.counter is left out of the seek.
SectorAtStart(p, c) == FirstPage(p)

\* The page the next sector goes to: the registers are read for every sector.
SectorAt(p, c) == FirstPage(p) + c
WriteDataContinue ==
  /\ main = "write_data"
  /\ LET full == Len(fifo) >= PageBytes
         page == SubSeq(fifo, 1, PageBytes)
         at   == SectorAt(par, counter)
         c    == IF full THEN counter + 1 ELSE counter
     IN  /\ counter' = c
         /\ IF c < limit THEN Await("write_data", "wait_fifo")
                         ELSE CommandEnd(TRUE) /\ timer' = FALSE
         /\ IF full
            THEN /\ buf' = page /\ pos' = at + 1
                 /\ fifo' = SubSeq(fifo, PageBytes + 1, Len(fifo))
                 /\ drq' = DrqFor("write_data", Len(fifo) - PageBytes)
                 /\ image' = [p \in DOMAIN image |-> IF p = at THEN page ELSE image[p]]
            ELSE UNCHANGED <<buf, pos, fifo, drq, image>>
  /\ UNCHANGED <<registers, limit, given, job>>

\* Initialize, Read FSA Status and a failure wait once.
Quiet == UNCHANGED <<registers, counter, limit, pos, buf, image>>
InitStart    == Await("init", "wait_fsa_reply") /\ job' = Job(C_INIT)
ReadFsaStart == Await("read_fsa", "wait_fsa_reply") /\ job' = Job(C_READ_FSA_STATUS)
CommandFailStart(cmd) == Await("fail", "command_done") /\ job' = Job(cmd)
InitContinue ==
  /\ main = "init" /\ CommandEnd(TRUE) /\ timer' = FALSE
  /\ Quiet /\ UNCHANGED <<fifo, drq, given, job>>
CommandFailContinue ==
  /\ main = "fail" /\ CommandEnd(FALSE) /\ timer' = FALSE
  /\ Quiet /\ UNCHANGED <<fifo, drq, given, job>>

\* Each module answers with two status bytes, here Fsa.
Fsa == 40
ReadFsaContinue ==
  /\ main = "read_fsa" /\ CommandEnd(TRUE) /\ timer' = FALSE
  /\ fifo' = fifo \o Pushable([i \in 1 .. 2 * DataSize |-> Fsa])
  /\ Quiet /\ UNCHANGED <<drq, given, job>>

\* general_continue(): a timer that a read left armed expires for nothing.
Expire == main = "idle" /\ timer' = FALSE
          /\ UNCHANGED <<phase, main, sub, str, fifo, drq, given, job>> /\ Quiet
GeneralContinue ==
  /\ timer
  /\ InitContinue \/ CommandFailContinue \/ ReadFsaContinue \/ ReadDataContinue
     \/ WriteDataContinue \/ Expire

-----------------------------------------------------------------------------
(* Commands.  start_command() runs only while idle, and sets the phase to   *)
(* EXEC before it looks at the command.                                     *)

Valid == par.mbm < DataSize /\ par.nfc = 2
AtOnce(cmd) == /\ CommandEnd(TRUE) /\ job' = Job(cmd)
               /\ UNCHANGED <<timer, counter, limit, pos, buf, image>>
Purge ==
  /\ AtOnce(C_MBM_PURGE)
  /\ UpdateRegs([regs EXCEPT ![R_AR_L] = 0, ![R_AR_M] = 8 * (@ \div 8)])
  /\ UNCHANGED <<rac, fifo, drq>>
\* The test for PHASE_IDLE never holds, so that the FIFO is not cleared.
Abort == AtOnce(C_ABORT) /\ UNCHANGED <<registers, fifo, drq>>
ResetFifo == AtOnce(C_RESET_FIFO) /\ FifoClear /\ UNCHANGED registers
SoftReset ==
  /\ AtOnce(C_RESET) /\ FifoClear
  /\ regs' = [regs EXCEPT ![R_UR] = 0] /\ UNCHANGED <<rac, par>>

Waiting(start) == start /\ Quiet /\ UNCHANGED <<fifo, drq>>
StartCommand(cmd) ==
  \/ cmd = C_INIT /\ par.nfc = 2 /\ Waiting(InitStart)
  \/ cmd = C_READ_FSA_STATUS /\ Waiting(ReadFsaStart)
  \/ cmd = C_READ /\ Valid /\ ReadDataStart
  \/ cmd = C_WRITE /\ Valid /\ WriteDataStart
  \/ cmd = C_MBM_PURGE /\ Purge
  \/ cmd = C_ABORT /\ Abort
  \/ cmd = C_RESET_FIFO /\ ResetFifo
  \/ cmd = C_RESET /\ SoftReset
  \/ /\ \/ cmd = C_INIT /\ par.nfc # 2
        \/ cmd \in {C_READ, C_WRITE} /\ ~Valid
        \/ cmd \notin {C_INIT, C_READ, C_WRITE, C_READ_FSA_STATUS, C_ABORT, C_RESET_FIFO,
                       C_MBM_PURGE, C_RESET}
     /\ Waiting(CommandFailStart(cmd))

-----------------------------------------------------------------------------
(* What the guest can do                                                    *)

NextRac == rac' = (rac + 1) % 16
\* An empty FIFO gives any byte and stays as it is.
ReadData ==
  /\ IF rac # 0 THEN NextRac /\ UNCHANGED <<fifo, drq, job>>
     ELSE /\ fifo # <<>> /\ SetFifo(Tail(fifo), main) /\ rac' = rac
          /\ job' = CASE job.cmd = C_READ  -> [job EXCEPT !.got = Append(@, Head(fifo))]
                      [] job.cmd = C_WRITE -> None
                      [] OTHER -> job
  /\ UNCHANGED <<phase, bubble, regs, par, str, given>>

WriteRegister ==
  /\ rac # 0
  /\ \E v \in RegValues[rac] :
       /\ UpdateRegs([regs EXCEPT ![rac] = v])
       /\ job' = IF job.cmd = C_WRITE /\ par' # job.par THEN None ELSE job
  /\ NextRac /\ UNCHANGED <<phase, bubble, fifo, drq, str, given>>
WriteFifo ==
  /\ rac = 0 /\ Room > 0
  /\ \E b \in Byte \cap Sends(given, Len(job.sent)) :
       /\ SetFifo(Append(fifo, b), main)
       /\ job' = CASE job.cmd = C_READ  -> None
                   [] job.cmd = C_WRITE -> [job EXCEPT !.sent = Append(@, b)]
                   [] OTHER -> job
  /\ UNCHANGED <<phase, bubble, registers, str, given>>

\* The status the guest reads, and that reading it ends the result phase.
Ready == CASE phase = "exec" /\ main = "read_data"  -> fifo # <<>>
           [] phase = "exec" /\ main = "write_data" -> Room > 0
           [] phase = "exec" -> FALSE
           [] OTHER -> fifo # <<>>
Status == str \cup (IF phase = "exec" THEN {"BUSY"} ELSE {}) \cup (IF Ready THEN {"FIFO"} ELSE {})
ReadStatus ==
  /\ phase = "result" /\ phase' = "idle" /\ job' = None
  /\ UNCHANGED <<bubble, fifo, drq, registers, str, given>>

WriteControl ==
  \/ /\ rac' \in Selects /\ UNCHANGED <<phase, bubble, fifo, drq, regs, par, str, given, job>>
  \/ /\ phase = "idle" /\ given < MaxCommands /\ given' = given + 1
     /\ \E cmd \in Commands : StartCommand(cmd)

Next == GeneralContinue \/ ReadData \/ WriteRegister \/ WriteFifo \/ ReadStatus \/ WriteControl

\* The host of the device lets its timer expire.
Spec == Init /\ [][Next]_vars /\ WF_vars(GeneralContinue)

-----------------------------------------------------------------------------
(* Properties *)

\* A command has ended and the guest is about to be told that it was done.
Reported(cmd) == job.cmd = cmd /\ "BUSY" \notin Status /\ "DONE" \in Status

\* The bytes of n pages from p on in an image, one after the other.
Pages(img, p, n) ==
  [i \in 1 .. n * PageBytes |-> img[p + ((i - 1) \div PageBytes)][((i - 1) % PageBytes) + 1]]

\* The pages of the command's block, and that the image has them all.
Amount == job.par.count * job.par.nfc
Inside == FirstPage(job.par) + Amount <= ImageSize

\* A write that is reported done has put the bytes the guest gave it into the
\* pages of the block, in order, and left every other page alone, whatever the
\* timer and the guest did in between; excepted are a guest that takes bytes
\* out or moves the block meanwhile, a block that leaves the image, and a block of
\* no pages, for which a page found in the FIFO is written all the same (523-563).
WriteLands ==
  Reported(C_WRITE) /\ Inside /\ Amount > 0 =>
    LET first == FirstPage(job.par)
        bytes == job.before \o job.sent
    IN  /\ Pages(image, first, Amount) = SubSeq(bytes, 1, Amount * PageBytes)
        /\ \A p \in DOMAIN image : p - first \notin 0 .. Amount - 1 => image[p] = job.image[p]

\* A read that is reported done has delivered the pages of the block in order
\* behind what was in the FIFO, even if the guest has moved the registers on;
\* excepted are a FIFO that had no room for a page, a guest that pushes, and a
\* block that leaves the image, behind which m_buf comes again (471-513).
ReadDelivers ==
  Reported(C_READ) /\ Inside =>
    job.got \o fifo = job.before \o Pages(job.image, FirstPage(job.par), Amount)

\* What is written reaches its pages and what is read comes from them.
TransfersLand == WriteLands /\ ReadDelivers

\* Every command ends, except a write whose guest keeps the FIFO below a page,
\* at least now and then: the timer is armed as long as a command executes
\* (308-359, 536-550).
CommandsEnd ==
  <>[]("BUSY" \in Status) => <>[](main = "write_data") /\ []<>(Len(fifo) < PageBytes)
=============================================================================

--------------------------- MODULE I7220DeviceProofs ---------------------------
(***************************************************************************)
(* Theorems about I7220Device, for pages, FIFO and image of any size, any  *)
(* registers and any guest.                                                *)
(***************************************************************************)
EXTENDS I7220Device, SequenceTheorems, TLAPS

-----------------------------------------------------------------------------
(* Types *)

Blocks == [count : Nat, nfc : Nat, addr : Nat, mbm : Nat]
Jobs == [cmd : Nat, par : Blocks, image : [ImagePages -> Page],
         before : Seq(Byte), got : Seq(Byte), sent : Seq(Byte)]

RegisterTypes == regs \in [1 .. 15 -> Byte] /\ par = Decoded(regs) /\ rac \in 0 .. 15
TransferTypes ==
  /\ counter \in Nat /\ limit \in Nat /\ pos \in Nat
  /\ buf \in Page /\ image \in [ImagePages -> Page]
DeviceTypeOK ==
  /\ phase \in {"idle", "exec", "result"}
  /\ main \in {"idle", "init", "fail", "read_fsa", "read_data", "write_data"}
  /\ RegisterTypes /\ TransferTypes
  /\ fifo \in Seq(Byte)
  /\ job = None \/ job \in Jobs

-----------------------------------------------------------------------------
(* What a command has done so far *)

\* The command of the history is refused or has been; it moves nothing.
Refused == main = "fail" \/ "FAIL" \in str

\* The bytes of the pages a command has done.
Done == Pages(image, FirstPage(job.par), counter)

\* A Read has the image of its beginning before it, and the guest has got or will
\* get from the FIFO what was there and the pages read so far.
Reading ==
  /\ main \in {"read_data", "idle"}
  /\ image = job.image
  /\ limit = Amount /\ counter <= limit
  /\ IF main = "read_data" THEN pos = FirstPage(job.par) + counter ELSE counter = limit
  /\ job.got \o fifo = job.before \o Done

\* A Write has the bytes that left the FIFO in its first pages, and has touched no
\* others.
Writing ==
  /\ main \in {"write_data", "idle"}
  /\ par = job.par
  /\ limit = Amount
  /\ IF main = "write_data" THEN counter < limit ELSE counter = limit
  /\ job.before \o job.sent = Done \o fifo
  /\ \A p \in ImagePages : p - FirstPage(job.par) \notin 0 .. counter - 1 => image[p] = job.image[p]

DeviceInv ==
  /\ phase = "idle" => job = None
  /\ str \in {{}, {"DONE"}, {"FAIL", "TE"}}
  /\ str # {} => main = "idle"
  /\ job.cmd = C_READ /\ Inside /\ ~Refused => Reading
  /\ job.cmd = C_WRITE /\ Inside /\ Amount > 0 /\ ~Refused => Writing

-----------------------------------------------------------------------------
(* Pages and bytes *)

\* The smaller of two numbers.
LEMMA MinOfTwo ==
  ASSUME NEW a \in Int, NEW b \in Int
  PROVE  Min({a, b}) = IF a <= b THEN a ELSE b
<1> DEFINE m == IF a <= b THEN a ELSE b
<1>1. m \in {a, b} /\ \A y \in {a, b} : m <= y
  OBVIOUS
<1>2. \A x \in {a, b} : (\A y \in {a, b} : x <= y) => x = m
  OBVIOUS
<1> QED
  BY <1>1, <1>2 DEF Min

\* A part of bytes is bytes.
LEMMA PartOfBytes ==
  ASSUME NEW bytes \in Seq(Byte), NEW m \in Int, NEW n \in Int, m >= 1, n <= Len(bytes)
  PROVE  /\ SubSeq(bytes, m, n) \in Seq(Byte)
         /\ Len(SubSeq(bytes, m, n)) = IF m <= n THEN n - m + 1 ELSE 0
         /\ \A i \in 1 .. n - m + 1 : SubSeq(bytes, m, n)[i] = bytes[m + i - 1]
<1>1. \A i \in m .. n : bytes[i] \in Byte
  OBVIOUS
<1> QED
  BY <1>1, SubSeqProperties

\* What fits of a page or an answer is bytes, and all of it if there is room.
LEMMA PushableBytes ==
  ASSUME fifo \in Seq(Byte), NEW bytes \in Seq(Byte)
  PROVE  /\ Pushable(bytes) \in Seq(Byte)
         /\ Len(bytes) <= Room => Pushable(bytes) = bytes
<1>1. Room \in Int
  BY DeviceAssumption DEF Room
<1>2. Min({Len(bytes), Room}) \in Int /\ Min({Len(bytes), Room}) <= Len(bytes)
  BY <1>1, MinOfTwo
<1>3. Pushable(bytes) \in Seq(Byte)
  <2>1. 1 \in Int /\ 1 >= 1
    OBVIOUS
  <2> QED
    BY <1>2, <2>1, PartOfBytes, Zenon DEF Pushable
<1>4. ASSUME Len(bytes) <= Room PROVE Pushable(bytes) = bytes
  <2>1. Min({Len(bytes), Room}) = Len(bytes)
    BY <1>1, <1>4, MinOfTwo
  <2> QED
    BY <2>1 DEF Pushable
<1> QED
  BY <1>3, <1>4

\* A page is PageBytes bytes.
LEMMA PageBytesSeq ==
  ASSUME NEW page \in Page
  PROVE  page \in Seq(Byte) /\ Len(page) = PageBytes /\ DOMAIN page = 1 .. PageBytes
BY DeviceAssumption DEF Page

\* Nonlinear arithmetic, once for all.
LEMMA ProductNat ==
  ASSUME NEW a \in Nat, NEW b \in Nat
  PROVE  a * b \in Nat
OBVIOUS

\* Quotient and remainder.
LEMMA Division ==
  ASSUME NEW x \in Nat, NEW d \in Nat \ {0}
  PROVE  /\ x \div d \in Nat /\ x % d \in 0 .. d - 1
         /\ (x \div d) * d + (x % d) = x
OBVIOUS

\* One more of a thing is a whole thing more.
LEMMA ProductGrows ==
  ASSUME NEW a \in Nat, NEW b \in Nat, NEW d \in Nat, a < b
  PROVE  a * d + d <= b * d
<1>1. (a + 1) * d <= b * d
  OBVIOUS
<1> QED
  BY <1>1

\* The byte at offset i of the n-th page.
LEMMA PageOf ==
  ASSUME NEW n \in Nat, NEW i \in Nat, i < PageBytes
  PROVE  (n * PageBytes + i) \div PageBytes = n /\ (n * PageBytes + i) % PageBytes = i
<1> DEFINE x == n * PageBytes + i
           q == x \div PageBytes
           r == x % PageBytes
<1>1. PageBytes \in Nat \ {0} /\ n * PageBytes \in Nat /\ x \in Nat /\ x = n * PageBytes + i
  BY ProductNat, DeviceAssumption
<1> HIDE DEF x
<1>2. q * PageBytes + r = x /\ r \in 0 .. PageBytes - 1 /\ q \in Nat
  BY <1>1, Division
<1> HIDE DEF q, r
<1>3. q = n
  <2>1. q * PageBytes \in Nat
    BY <1>1, <1>2, ProductNat
  <2>2. ASSUME q < n PROVE FALSE
    <3>1. q * PageBytes + PageBytes <= n * PageBytes
      BY <1>1, <1>2, <2>2, ProductGrows
    <3> QED
      BY <1>1, <1>2, <2>1, <3>1
  <2>3. ASSUME n < q PROVE FALSE
    <3>1. n * PageBytes + PageBytes <= q * PageBytes
      BY <1>1, <1>2, <2>3, ProductGrows
    <3> QED
      BY <1>1, <1>2, <2>1, <3>1
  <2> QED
    BY <1>2, <2>2, <2>3
<1>4. q = n /\ r = i
  BY <1>1, <1>2, <1>3
<1> QED
  BY <1>4 DEF q, r, x

\* A byte in front of the n-th page lies in an earlier one.
LEMMA EarlierPage ==
  ASSUME NEW n \in Nat, NEW i \in Nat, i < n * PageBytes
  PROVE  i \div PageBytes \in 0 .. n - 1 /\ i % PageBytes \in 0 .. PageBytes - 1
<1> DEFINE q == i \div PageBytes
           r == i % PageBytes
<1>1. PageBytes \in Nat \ {0}
  BY DeviceAssumption
<1>2. q * PageBytes + r = i /\ r \in 0 .. PageBytes - 1 /\ q \in Nat
  BY <1>1, Division
<1> HIDE DEF q, r
<1>3. q < n
  <2>1. ASSUME n <= q PROVE FALSE
    <3>1. n * PageBytes <= q * PageBytes
      BY <1>1, <1>2, <2>1
    <3>2. n * PageBytes \in Nat /\ q * PageBytes \in Nat
      BY <1>1, <1>2, ProductNat
    <3> QED
      BY <1>1, <1>2, <3>1, <3>2
  <2> QED
    BY <1>2, <2>1
<1> QED
  BY <1>2, <1>3 DEF q, r

\* Pages inside the image are bytes, PageBytes of each.
LEMMA PagesBytes ==
  ASSUME NEW img \in [ImagePages -> Page], NEW p \in Nat, NEW n \in Nat, p + n <= ImageSize
  PROVE  Pages(img, p, n) \in Seq(Byte) /\ Len(Pages(img, p, n)) = n * PageBytes
<1>1. n * PageBytes \in Nat /\ ImageSize \in Nat
  BY ProductNat, DeviceAssumption DEF ImageSize
<1>2. ASSUME NEW i \in 1 .. n * PageBytes
      PROVE  img[p + ((i - 1) \div PageBytes)][((i - 1) % PageBytes) + 1] \in Byte
  <2>1. (i - 1) \div PageBytes \in 0 .. n - 1 /\ (i - 1) % PageBytes \in 0 .. PageBytes - 1
    BY <1>1, EarlierPage
  <2>2. p + ((i - 1) \div PageBytes) \in ImagePages
    BY <1>1, <2>1 DEF ImagePages
  <2>3. img[p + ((i - 1) \div PageBytes)] \in [1 .. PageBytes -> Byte]
    BY <2>2, Zenon DEF Page
  <2>4. ((i - 1) % PageBytes) + 1 \in 1 .. PageBytes
    BY <2>1, DeviceAssumption
  <2> QED
    BY <2>3, <2>4, Zenon
<1> QED
  BY <1>1, <1>2 DEF Pages

\* Pages that are the same give the same bytes.
LEMMA PagesSame ==
  ASSUME NEW img, NEW other, NEW p \in Nat, NEW n \in Nat,
         \A q \in p .. p + n - 1 : img[q] = other[q]
  PROVE  Pages(img, p, n) = Pages(other, p, n)
<1>1. n * PageBytes \in Nat
  BY ProductNat, DeviceAssumption
<1>2. ASSUME NEW i \in 1 .. n * PageBytes
      PROVE  img[p + ((i - 1) \div PageBytes)] = other[p + ((i - 1) \div PageBytes)]
  <2>1. (i - 1) \div PageBytes \in 0 .. n - 1
    BY <1>1, EarlierPage
  <2> QED
    BY <2>1
<1> QED
  BY <1>2 DEF Pages

\* No pages are no bytes.
LEMMA NoPages ==
  ASSUME NEW img, NEW p
  PROVE  Pages(img, p, 0) = << >>
<1>1. 0 * PageBytes = 0
  BY DeviceAssumption
<1> QED
  BY <1>1 DEF Pages

\* One page more is that page behind the others.
LEMMA PagesStep ==
  ASSUME NEW img \in [ImagePages -> Page], NEW p \in Nat, NEW n \in Nat, p + n + 1 <= ImageSize
  PROVE  Pages(img, p, n + 1) = Pages(img, p, n) \o img[p + n]
<1>1. /\ n * PageBytes \in Nat /\ PageBytes \in Nat /\ ImageSize \in Nat
      /\ (n + 1) * PageBytes = n * PageBytes + PageBytes
  BY ProductNat, DeviceAssumption DEF ImageSize
<1>2. /\ Pages(img, p, n) \in Seq(Byte) /\ Len(Pages(img, p, n)) = n * PageBytes
      /\ Pages(img, p, n + 1) \in Seq(Byte)
      /\ Len(Pages(img, p, n + 1)) = n * PageBytes + PageBytes
  <2>1. n + 1 \in Nat /\ p + n <= ImageSize /\ p + (n + 1) <= ImageSize
    BY <1>1
  <2> QED
    BY <1>1, <2>1, PagesBytes
<1>3. img[p + n] \in Page
  BY <1>1 DEF ImagePages
<1>4. img[p + n] \in Seq(Byte) /\ Len(img[p + n]) = PageBytes
  BY <1>3, PageBytesSeq
<1>5. ASSUME NEW i \in 1 .. n * PageBytes + PageBytes
      PROVE  Pages(img, p, n + 1)[i] = (Pages(img, p, n) \o img[p + n])[i]
  <2>1. Pages(img, p, n + 1)[i] = img[p + ((i - 1) \div PageBytes)][((i - 1) % PageBytes) + 1]
    BY <1>1 DEF Pages
  <2>2. CASE i <= n * PageBytes
    <3>1. Pages(img, p, n)[i] = img[p + ((i - 1) \div PageBytes)][((i - 1) % PageBytes) + 1]
      BY <1>1, <2>2 DEF Pages
    <3>2. (Pages(img, p, n) \o img[p + n])[i] = Pages(img, p, n)[i]
      BY <1>1, <1>2, <1>4, <2>2, ConcatProperties
    <3> QED
      BY <2>1, <3>1, <3>2
  <2>3. CASE i > n * PageBytes
    <3> DEFINE k == i - 1 - n * PageBytes
    <3>1. k \in Nat /\ k < PageBytes /\ i - 1 = n * PageBytes + k
      BY <1>1, <2>3
    <3>2. (i - 1) \div PageBytes = n /\ (i - 1) % PageBytes = k
      BY <3>1, PageOf
    <3>3. (Pages(img, p, n) \o img[p + n])[i] = img[p + n][k + 1]
      BY <1>1, <1>2, <1>4, <2>3, ConcatProperties
    <3> QED
      BY <2>1, <3>2, <3>3
  <2>4. i <= n * PageBytes \/ i > n * PageBytes
    BY <1>1
  <2> QED
    BY <2>2, <2>3, <2>4
<1>6. Len(Pages(img, p, n) \o img[p + n]) = n * PageBytes + PageBytes
  <2>1. Len(Pages(img, p, n) \o img[p + n]) = Len(Pages(img, p, n)) + Len(img[p + n])
    BY <1>2, <1>4, ConcatProperties, Zenon
  <2> QED
    BY <1>2, <1>4, <2>1, Zenon
<1>7. Pages(img, p, n) \o img[p + n] \in Seq(Byte)
  BY <1>2, <1>4, ConcatProperties, Zenon
<1> QED
  BY <1>2, <1>5, <1>6, <1>7, SeqEqual

\* What a Write takes out of the FIFO is a page, and what stays is in order.
LEMMA PageTaken ==
  ASSUME fifo \in Seq(Byte), Len(fifo) >= PageBytes
  PROVE  /\ SubSeq(fifo, 1, PageBytes) \in Page
         /\ SubSeq(fifo, PageBytes + 1, Len(fifo)) \in Seq(Byte)
         /\ fifo = SubSeq(fifo, 1, PageBytes) \o SubSeq(fifo, PageBytes + 1, Len(fifo))
<1>1. PageBytes \in Nat \ {0} /\ Len(fifo) \in Nat
  BY DeviceAssumption
<1>2. /\ SubSeq(fifo, 1, PageBytes) \in Seq(Byte) /\ Len(SubSeq(fifo, 1, PageBytes)) = PageBytes
      /\ SubSeq(fifo, PageBytes + 1, Len(fifo)) \in Seq(Byte)
  BY <1>1, PartOfBytes
<1>3. SubSeq(fifo, 1, PageBytes) \in Page
  <2>1. SubSeq(fifo, 1, PageBytes) \in [1 .. Len(SubSeq(fifo, 1, PageBytes)) -> Byte]
    BY <1>2, LenProperties
  <2> QED
    BY <1>2, <2>1, Zenon DEF Page
<1>4. SubSeq(fifo, 1, PageBytes) \o SubSeq(fifo, PageBytes + 1, Len(fifo)) = SubSeq(fifo, 1, Len(fifo))
  <2>1. /\ 1 \in 1 .. Len(fifo) + 1 /\ PageBytes \in 1 - 1 .. Len(fifo)
        /\ Len(fifo) \in PageBytes .. Len(fifo)
    BY <1>1
  <2> QED
    BY <2>1, ConcatAdjacentSubSeq, Zenon
<1>5. SubSeq(fifo, 1, Len(fifo)) = fifo
  BY SubSeqFull
<1> QED
  BY <1>2, <1>3, <1>4, <1>5

-----------------------------------------------------------------------------
(* Types *)

\* A byte is a number.
LEMMA ByteIsNat == \A b \in Byte : b \in Nat
  BY DEF Byte

\* What the parametric registers are decoded to.
LEMMA DecodedTypes ==
  ASSUME NEW rs \in [1 .. 15 -> Byte]
  PROVE  Decoded(rs) \in Blocks
<1> DEFINE blr == 256 * rs[R_BLR_M] + rs[R_BLR_L]
           ar  == 256 * rs[R_AR_M] + rs[R_AR_L]
<1>1. \A r \in 1 .. 15 : rs[r] \in Nat
  <2>1. \A r \in 1 .. 15 : rs[r] \in Byte
    BY Zenon
  <2> QED
    BY <2>1, ByteIsNat, Zenon
<1>2. blr \in Nat /\ ar \in Nat
  BY <1>1 DEF R_BLR_M, R_BLR_L, R_AR_M, R_AR_L
<1> HIDE DEF blr, ar
<1>3. /\ blr % 2048 \in Nat /\ blr \div 4096 \in Nat
      /\ ar % 2048 \in Nat /\ (ar \div 2048) % 16 \in Nat
  BY <1>2
<1>4. (IF blr \div 4096 = 0 THEN 1 ELSE 2 * (blr \div 4096)) \in Nat
  BY <1>3
<1> QED
  BY <1>3, <1>4 DEF Decoded, Blocks, blr, ar

\* A block begins at a page and has a number of pages (241, 481).
LEMMA BlockTypes ==
  ASSUME NEW p \in Blocks
  PROVE  FirstPage(p) \in Nat /\ p.count * p.nfc \in Nat
<1>1. p.addr \in Nat /\ p.nfc \in Nat /\ p.mbm \in Nat /\ p.count \in Nat
  BY DEF Blocks
<1>2. p.addr * p.nfc \in Nat /\ p.mbm * MbmPages \in Nat /\ p.count * p.nfc \in Nat
  BY <1>1, ProductNat, DeviceAssumption
<1> QED
  BY <1>2 DEF FirstPage

\* The history of a command has its type.
LEMMA JobTypes ==
  ASSUME DeviceTypeOK, NEW cmd \in Nat
  PROVE  Job(cmd) \in Jobs
<1>1. par \in Blocks
  BY DecodedTypes DEF DeviceTypeOK, RegisterTypes
<1> QED
  BY <1>1 DEF Job, Jobs, DeviceTypeOK, TransferTypes

\* A sector of a Read, the first or a later one.
LEMMA ReadSectorTypes ==
  ASSUME DeviceTypeOK, NEW c \in Nat, NEW n \in Nat, NEW at \in Nat,
         NEW j, j = None \/ j \in Jobs, ReadSector(c, n, at, j)
  PROVE  DeviceTypeOK'
<1> DEFINE page == IF at \in DOMAIN image THEN image[at] ELSE buf
<1>1. page \in Page
  BY DEF DeviceTypeOK, TransferTypes
<1> HIDE DEF page
<1>2. page \in Seq(Byte)
  BY <1>1, PageBytesSeq
<1>3. Pushable(page) \in Seq(Byte)
  BY <1>2, PushableBytes DEF DeviceTypeOK
<1>4. buf' \in Page /\ pos' \in Nat /\ limit' \in Nat
  BY <1>1 DEF ReadSector, page
<1>5. UNCHANGED <<registers, image>>
  BY DEF ReadSector
<1>6. CASE c < n
  <2>1. /\ phase' = "exec" /\ main' = "read_data" /\ counter' = c + 1
        /\ fifo' = fifo \o Pushable(page)
        /\ job' = None \/ job' = j
    BY <1>6 DEF ReadSector, Await, SetFifo, page
  <2>2. fifo' \in Seq(Byte)
    BY <1>3, <2>1 DEF DeviceTypeOK
  <2>3. RegisterTypes'
    BY <1>5, Zenon DEF DeviceTypeOK, RegisterTypes, registers
  <2>4. TransferTypes'
    <3>1. c + 1 \in Nat
      OBVIOUS
    <3> QED
      BY <1>4, <1>5, <2>1, <3>1, Zenon DEF DeviceTypeOK, TransferTypes
  <2>5. job' = None \/ job' \in Jobs
    BY <2>1, Zenon
  <2> QED
    BY <2>1, <2>2, <2>3, <2>4, <2>5 DEF DeviceTypeOK
<1>7. CASE ~(c < n)
  BY <1>4, <1>5, <1>7
  DEF ReadSector, CommandEnd, DeviceTypeOK, RegisterTypes, TransferTypes, registers
<1> QED
  BY <1>6, <1>7

\* A sector of a Write (523-563).
LEMMA WriteDataContinueTypes ==
  ASSUME DeviceTypeOK, WriteDataContinue
  PROVE  DeviceTypeOK'
<1>1. /\ UNCHANGED <<registers, limit, job>>
      /\ main' \in {"write_data", "idle"} /\ phase' \in {"exec", "result"}
  BY DEF WriteDataContinue, Await, CommandEnd
<1>2. CASE Len(fifo) >= PageBytes
  <2> DEFINE page == SubSeq(fifo, 1, PageBytes)
             at   == SectorAt(par, counter)
  <2>1. /\ counter' = counter + 1 /\ buf' = page /\ pos' = at + 1
        /\ fifo' = SubSeq(fifo, PageBytes + 1, Len(fifo))
        /\ image' = [p \in DOMAIN image |-> IF p = at THEN page ELSE image[p]]
    BY <1>2 DEF WriteDataContinue
  <2>2. page \in Page
    BY <1>2, PageTaken DEF DeviceTypeOK
  <2>3. fifo' \in Seq(Byte)
    BY <2>1, <1>2, PageTaken DEF DeviceTypeOK
  <2>4. at \in Nat
    <3>1. par \in Blocks
      BY DecodedTypes DEF DeviceTypeOK, RegisterTypes
    <3> QED
      BY <3>1, BlockTypes DEF SectorAt, DeviceTypeOK, TransferTypes
  <2> HIDE DEF page, at
  <2> QED
    BY <1>1, <2>1, <2>2, <2>3, <2>4
    DEF DeviceTypeOK, RegisterTypes, TransferTypes, registers
<1>3. CASE ~(Len(fifo) >= PageBytes)
  <2>1. counter' = counter /\ UNCHANGED <<buf, pos, fifo, image>>
    BY <1>3 DEF WriteDataContinue
  <2> QED
    BY <1>1, <2>1 DEF DeviceTypeOK, RegisterTypes, TransferTypes, registers
<1> QED
  BY <1>2, <1>3

\* What the timer calls (308-339).
LEMMA ContinueTypes ==
  ASSUME DeviceTypeOK, GeneralContinue
  PROVE  DeviceTypeOK'
<1>1. CASE InitContinue \/ CommandFailContinue \/ Expire
  BY <1>1
  DEF InitContinue, CommandFailContinue, Expire, Quiet, CommandEnd, registers,
      DeviceTypeOK, RegisterTypes, TransferTypes
<1>2. CASE ReadFsaContinue
  <2> DEFINE answer == [i \in 1 .. 2 * DataSize |-> Fsa]
  <2>1. answer \in Seq(Byte)
    BY DeviceAssumption DEF Fsa, Byte
  <2> HIDE DEF answer
  <2>2. Pushable(answer) \in Seq(Byte)
    BY <2>1, PushableBytes DEF DeviceTypeOK
  <2>3. fifo' \in Seq(Byte)
    BY <1>2, <2>2 DEF ReadFsaContinue, DeviceTypeOK, answer
  <2> QED
    BY <1>2, <2>3
    DEF ReadFsaContinue, Quiet, CommandEnd, registers, DeviceTypeOK, RegisterTypes,
        TransferTypes
<1>3. CASE ReadDataContinue
  BY <1>3, ReadSectorTypes DEF ReadDataContinue, DeviceTypeOK, TransferTypes
<1>4. CASE WriteDataContinue
  BY <1>4, WriteDataContinueTypes
<1> QED
  BY <1>1, <1>2, <1>3, <1>4 DEF GeneralContinue

\* What a command does at once (209-306).
LEMMA StartTypes ==
  ASSUME DeviceTypeOK, NEW cmd \in Nat, StartCommand(cmd)
  PROVE  DeviceTypeOK'
<1>1. Job(cmd) \in Jobs /\ Job(C_INIT) \in Jobs /\ Job(C_READ) \in Jobs /\ Job(C_WRITE) \in Jobs
      /\ Job(C_READ_FSA_STATUS) \in Jobs /\ Job(C_MBM_PURGE) \in Jobs /\ Job(C_ABORT) \in Jobs
      /\ Job(C_RESET_FIFO) \in Jobs /\ Job(C_RESET) \in Jobs
  BY JobTypes
  DEF C_INIT, C_READ, C_WRITE, C_READ_FSA_STATUS, C_MBM_PURGE, C_ABORT, C_RESET_FIFO, C_RESET
<1>2. par \in Blocks
  BY DecodedTypes DEF DeviceTypeOK, RegisterTypes
<1>3. par.count * par.nfc \in Nat /\ FirstPage(par) \in Nat
  BY <1>2, BlockTypes
<1>4. CASE \/ Waiting(InitStart) \/ Waiting(ReadFsaStart) \/ Waiting(CommandFailStart(cmd))
  BY <1>1, <1>4
  DEF Waiting, InitStart, ReadFsaStart, CommandFailStart, Await, Quiet, registers,
      DeviceTypeOK, RegisterTypes, TransferTypes
<1>5. CASE ReadDataStart
  BY <1>1, <1>3, <1>5, ReadSectorTypes DEF ReadDataStart
<1>6. CASE WriteDataStart
  BY <1>1, <1>3, <1>6
  DEF WriteDataStart, Await, registers, DeviceTypeOK, RegisterTypes, TransferTypes
<1>7. CASE Purge
  <2> DEFINE rs == [regs EXCEPT ![R_AR_L] = 0, ![R_AR_M] = 8 * (@ \div 8)]
  <2>1. regs[R_AR_M] \in Byte /\ R_AR_M \in 1 .. 15 /\ R_AR_L \in 1 .. 15 /\ R_AR_L # R_AR_M
    BY DEF DeviceTypeOK, RegisterTypes, R_AR_M, R_AR_L
  <2>2. 8 * (regs[R_AR_M] \div 8) \in Byte /\ 0 \in Byte
    BY <2>1 DEF Byte
  <2>3. rs \in [1 .. 15 -> Byte]
    BY <2>1, <2>2 DEF DeviceTypeOK, RegisterTypes
  <2> HIDE DEF rs
  <2>4. regs' = rs /\ par' = Decoded(rs)
    BY <1>7 DEF Purge, UpdateRegs, rs
  <2> QED
    BY <1>1, <1>7, <2>3, <2>4
    DEF Purge, AtOnce, CommandEnd, DeviceTypeOK, RegisterTypes, TransferTypes
<1>8. CASE Abort \/ ResetFifo
  <2>1. /\ phase' = "result" /\ main' = "idle" /\ job' \in Jobs
        /\ UNCHANGED <<counter, limit, pos, buf, image, registers>>
    BY <1>1, <1>8 DEF Abort, ResetFifo, AtOnce, CommandEnd
  <2>2. fifo' = fifo \/ fifo' = << >>
    BY <1>8 DEF Abort, ResetFifo, FifoClear
  <2>3. fifo' \in Seq(Byte)
    <3>1. << >> \in Seq(Byte)
      BY EmptySeq
    <3> QED
      BY <2>2, <3>1, Zenon DEF DeviceTypeOK
  <2>4. RegisterTypes' /\ TransferTypes'
    BY <2>1 DEF registers, DeviceTypeOK, RegisterTypes, TransferTypes
  <2> QED
    BY <2>1, <2>3, <2>4 DEF DeviceTypeOK
<1>9. CASE SoftReset
  <2>1. regs' \in [1 .. 15 -> Byte] /\ \A r \in 1 .. 15 : r # R_UR => regs'[r] = regs[r]
    <3>1. regs' = [regs EXCEPT ![R_UR] = 0] /\ 0 \in Byte /\ R_UR \in 1 .. 15
      BY <1>9 DEF SoftReset, R_UR, Byte
    <3> QED
      BY <3>1 DEF DeviceTypeOK, RegisterTypes
  <2>2. Decoded(regs') = Decoded(regs)
    BY <2>1 DEF Decoded, R_UR, R_BLR_M, R_BLR_L, R_AR_M, R_AR_L
  <2> QED
    BY <1>1, <1>9, <2>1, <2>2
    DEF SoftReset, FifoClear, AtOnce, CommandEnd, DeviceTypeOK, RegisterTypes, TransferTypes
<1> QED
  BY <1>4, <1>5, <1>6, <1>7, <1>8, <1>9 DEF StartCommand

\* The guest's other accesses (570-700).
LEMMA GuestTypes ==
  ASSUME DeviceTypeOK,
         ReadData \/ WriteRegister \/ WriteFifo \/ ReadStatus
           \/ (rac' \in Selects /\ UNCHANGED <<phase, bubble, fifo, drq, regs, par, str, given, job>>)
  PROVE  DeviceTypeOK'
<1> USE DEF DeviceTypeOK, RegisterTypes, TransferTypes, bubble
<1>1. CASE ReadData
  <2>1. rac' \in 0 .. 15 /\ UNCHANGED <<phase, bubble, regs, par>>
    BY <1>1 DEF ReadData, NextRac
  <2>2. CASE rac # 0
    BY <1>1, <2>1, <2>2 DEF ReadData
  <2>3. CASE rac = 0
    <3>1. fifo # << >> /\ fifo' = Tail(fifo)
      BY <1>1, <2>3 DEF ReadData, SetFifo
    <3>2. fifo' \in Seq(Byte) /\ Head(fifo) \in Byte
      BY <3>1
    <3>3. job' = CASE job.cmd = C_READ  -> [job EXCEPT !.got = Append(@, Head(fifo))]
                   [] job.cmd = C_WRITE -> None
                   [] OTHER -> job
      BY <1>1, <2>3 DEF ReadData
    <3>4. job' = None \/ job' \in Jobs
      <4>1. CASE job.cmd = C_READ
        <5>1. job \in Jobs
          BY <4>1 DEF None, C_READ
        <5>2. job' = [job EXCEPT !.got = Append(@, Head(fifo))]
          BY <3>3, <4>1 DEF C_READ, C_WRITE
        <5>3. Append(job.got, Head(fifo)) \in Seq(Byte)
          BY <3>2, <5>1 DEF Jobs
        <5> QED
          BY <5>1, <5>2, <5>3 DEF Jobs
      <4>2. CASE job.cmd # C_READ
        BY <3>3, <4>2
      <4> QED
        BY <4>1, <4>2
    <3> QED
      BY <2>1, <3>2, <3>4
  <2> QED
    BY <2>2, <2>3
<1>2. CASE WriteRegister
  <2>1. /\ rac \in 1 .. 15 /\ rac' \in 0 .. 15 /\ UNCHANGED <<phase, bubble, fifo>>
        /\ job' = None \/ job' = job
    BY <1>2 DEF WriteRegister, NextRac
  <2>2. PICK v \in RegValues[rac] : UpdateRegs([regs EXCEPT ![rac] = v])
    BY <1>2 DEF WriteRegister
  <2>3. v \in Byte
    BY <2>1, DeviceAssumption
  <2>4. [regs EXCEPT ![rac] = v] \in [1 .. 15 -> Byte]
    BY <2>1, <2>3
  <2> QED
    BY <2>1, <2>2, <2>4 DEF UpdateRegs
<1>3. CASE WriteFifo
  <2>1. UNCHANGED <<phase, bubble, registers>>
    BY <1>3 DEF WriteFifo
  <2>2. PICK b \in Byte :
          /\ fifo' = Append(fifo, b)
          /\ job' = CASE job.cmd = C_READ  -> None
                      [] job.cmd = C_WRITE -> [job EXCEPT !.sent = Append(@, b)]
                      [] OTHER -> job
    BY <1>3 DEF WriteFifo, SetFifo
  <2>3. job' = None \/ job' \in Jobs
    <3>1. CASE job.cmd = C_WRITE
      <4>1. job \in Jobs
        BY <3>1 DEF None, C_WRITE
      <4>2. job' = [job EXCEPT !.sent = Append(@, b)]
        BY <2>2, <3>1 DEF C_READ, C_WRITE
      <4>3. Append(job.sent, b) \in Seq(Byte)
        BY <4>1 DEF Jobs
      <4> QED
        BY <4>1, <4>2, <4>3 DEF Jobs
    <3>2. CASE job.cmd # C_WRITE
      BY <2>2, <3>2
    <3> QED
      BY <3>1, <3>2
  <2>4. fifo' \in Seq(Byte)
    BY <2>2
  <2>5. DeviceTypeOK
    OBVIOUS
  <2> QED
    BY <2>1, <2>3, <2>4, <2>5, Zenon DEF registers
<1>4. CASE ReadStatus
  BY <1>4 DEF ReadStatus, registers
<1>5. CASE rac' \in Selects /\ UNCHANGED <<phase, bubble, fifo, drq, regs, par, str, given, job>>
  BY <1>5, DeviceAssumption
<1> QED
  BY <1>1, <1>2, <1>3, <1>4, <1>5

\* Whatever the guest does, the device's registers, FIFO, image and counters keep
\* their types, and the parameters are those of the registers (198-206).
THEOREM DeviceTypeCorrect == Spec => []DeviceTypeOK
<1>1. Init => DeviceTypeOK
  <2>1. Init => regs \in [1 .. 15 -> Byte] /\ image \in [ImagePages -> Page]
    BY DeviceAssumption DEF Init
  <2>2. [i \in 1 .. PageBytes |-> 0] \in Page
    BY DEF Page, Byte
  <2> QED
    BY <2>1, <2>2 DEF Init, DeviceTypeOK, RegisterTypes, TransferTypes
<1>2. DeviceTypeOK /\ [Next]_vars => DeviceTypeOK'
  <2> SUFFICES ASSUME DeviceTypeOK, [Next]_vars
               PROVE  DeviceTypeOK'
    OBVIOUS
  <2>1. CASE GeneralContinue
    BY <2>1, ContinueTypes
  <2>2. CASE WriteControl
    <3>1. CASE \E cmd \in Commands : StartCommand(cmd)
      BY <3>1, StartTypes, DeviceAssumption
    <3> QED
      BY <2>2, <3>1, GuestTypes DEF WriteControl
  <2>3. CASE ReadData \/ WriteRegister \/ WriteFifo \/ ReadStatus
    BY <2>3, GuestTypes
  <2>4. CASE UNCHANGED vars
    BY <2>4 DEF vars, bubble, registers, DeviceTypeOK, RegisterTypes, TransferTypes
  <2> QED
    BY <2>1, <2>2, <2>3, <2>4 DEF Next
<1> QED
  BY <1>1, <1>2, PTL DEF Spec

-----------------------------------------------------------------------------
(* Bytes that move from one end of an equation to the other *)

\* Concatenation of bytes is associative.
LEMMA ConcatBytes ==
  ASSUME NEW s \in Seq(Byte), NEW t \in Seq(Byte), NEW u \in Seq(Byte)
  PROVE  (s \o t) \o u = s \o (t \o u)
BY ConcatAssociative

\* A byte appended to the second part is appended to the whole.
LEMMA AppendBehind ==
  ASSUME NEW s \in Seq(Byte), NEW t \in Seq(Byte), NEW b \in Byte
  PROVE  s \o Append(t, b) = Append(s \o t, b)
<1>1. /\ s \o Append(t, b) \in Seq(Byte) /\ Append(s \o t, b) \in Seq(Byte)
      /\ Len(s \o Append(t, b)) = Len(Append(s \o t, b))
  OBVIOUS
<1>2. \A i \in 1 .. Len(s \o Append(t, b)) : (s \o Append(t, b))[i] = Append(s \o t, b)[i]
  OBVIOUS
<1> QED
  BY <1>1, <1>2, SeqEqual

\* A byte taken from the front of the second part goes behind the first.
LEMMA HeadMoves ==
  ASSUME NEW s \in Seq(Byte), NEW t \in Seq(Byte), t # << >>
  PROVE  Append(s, Head(t)) \o Tail(t) = s \o t
<1>1. /\ Append(s, Head(t)) \o Tail(t) \in Seq(Byte) /\ s \o t \in Seq(Byte)
      /\ Len(Append(s, Head(t)) \o Tail(t)) = Len(s \o t)
  OBVIOUS
<1>2. \A i \in 1 .. Len(s \o t) : (Append(s, Head(t)) \o Tail(t))[i] = (s \o t)[i]
  OBVIOUS
<1> QED
  BY <1>1, <1>2, SeqEqual

\* The beginning of a concatenation is its first part.
LEMMA FirstPart ==
  ASSUME NEW s \in Seq(Byte), NEW t \in Seq(Byte)
  PROVE  SubSeq(s \o t, 1, Len(s)) = s
<1>1. s \o t \in Seq(Byte) /\ Len(s \o t) = Len(s) + Len(t) /\ Len(s) \in Nat /\ Len(t) \in Nat
  OBVIOUS
<1>2. /\ SubSeq(s \o t, 1, Len(s)) \in Seq(Byte)
      /\ Len(SubSeq(s \o t, 1, Len(s))) = Len(s)
      /\ \A i \in 1 .. Len(s) : SubSeq(s \o t, 1, Len(s))[i] = s[i]
  BY <1>1
<1> QED
  BY <1>2, SeqEqual

-----------------------------------------------------------------------------
(* Transfers: each step *)

\* The history of a Read or Write is a record, and its block has a place and a length.
LEMMA JobKnown ==
  ASSUME DeviceTypeOK, job.cmd \in {C_READ, C_WRITE}
  PROVE  job \in Jobs /\ FirstPage(job.par) \in Nat /\ Amount \in Nat
<1>1. job \in Jobs
  BY DEF DeviceTypeOK, None, C_READ, C_WRITE
<1>2. job.par \in Blocks
  BY <1>1 DEF Jobs
<1> QED
  BY <1>1, <1>2, BlockTypes DEF Amount

\* A sector of a Read that has gone well so far: there was no room for it, the
\* image ended, or the Read goes well on.
LEMMA SectorReads ==
  ASSUME DeviceTypeOK, NEW c \in Nat, NEW n \in Nat, NEW at \in Nat, NEW j \in Jobs,
         j.image = image, n = j.par.count * j.par.nfc, c <= n,
         at = FirstPage(j.par) + c, FirstPage(j.par) + n <= ImageSize,
         j.got \o fifo = j.before \o Pages(image, FirstPage(j.par), c),
         ReadSector(c, n, at, j)
  PROVE  job' = None \/ (job' = j /\ Reading')
<1> DEFINE first == FirstPage(j.par)
           page  == IF at \in DOMAIN image THEN image[at] ELSE buf
<1>1. first \in Nat /\ ImageSize \in Nat /\ image \in [ImagePages -> Page] /\ fifo \in Seq(Byte)
  <2>1. j.par \in Blocks
    BY DEF Jobs
  <2> QED
    BY <2>1, BlockTypes, ProductNat, DeviceAssumption DEF ImageSize, DeviceTypeOK, TransferTypes
<1>2. limit' = n /\ pos' = at + 1 /\ image' = image
  BY DEF ReadSector
<1>3. CASE c < n
  <2>1. /\ main' = "read_data" /\ counter' = c + 1 /\ fifo' = fifo \o Pushable(page)
        /\ job' = IF Room < PageBytes THEN None ELSE j
    BY <1>3 DEF ReadSector, Await, SetFifo
  <2>2. SUFFICES ASSUME ~(Room < PageBytes) PROVE Reading' /\ job' = j
    BY <2>1
  <2>3. at \in ImagePages
    BY <1>1, <1>3 DEF ImagePages
  <2>4. page = image[first + c] /\ page \in Page
    BY <1>1, <2>3
  <2> HIDE DEF page
  <2>5. page \in Seq(Byte) /\ Len(page) = PageBytes
    BY <2>4, PageBytesSeq
  <2>6. Pushable(page) = page
    <3>1. Room \in Int /\ PageBytes \in Int
      BY <1>1, DeviceAssumption DEF Room
    <3> QED
      BY <1>1, <2>2, <2>5, <3>1, PushableBytes
  <2>7. Pages(image, first, c) \in Seq(Byte) /\ first + c + 1 <= ImageSize
    <3>1. first + c + 1 <= ImageSize /\ first + c <= ImageSize
      BY <1>1, <1>3
    <3> QED
      BY <1>1, <3>1, PagesBytes, Zenon
  <2>8. Pages(image, first, c + 1) = Pages(image, first, c) \o page
    BY <1>1, <2>4, <2>7, PagesStep
  <2>9. j.got \in Seq(Byte) /\ j.before \in Seq(Byte)
    BY DEF Jobs
  <2>10. j.got \o fifo' = j.before \o Pages(image, first, c + 1)
    <3>1. j.got \o (fifo \o page) = (j.got \o fifo) \o page
      BY <1>1, <2>5, <2>9, ConcatBytes
    <3>2. (j.before \o Pages(image, first, c)) \o page
            = j.before \o (Pages(image, first, c) \o page)
      BY <2>5, <2>7, <2>9, ConcatBytes
    <3> QED
      BY <2>1, <2>6, <2>8, <3>1, <3>2
  <2>11. job' = j
    BY <2>1, <2>2
  <2> QED
    <3>1. counter' <= limit' /\ limit' = Amount'
      <4>1. c + 1 <= n
        BY <1>3
      <4>2. Amount' = j.par.count * j.par.nfc
        BY <2>11 DEF Amount
      <4> QED
        BY <1>2, <2>1, <4>1, <4>2
    <3>2. pos' = (FirstPage(job.par) + counter)'
      <4>1. at + 1 = first + (c + 1)
        BY <1>1
      <4>2. (FirstPage(job.par) + counter)' = first + (c + 1)
        BY <2>1, <2>11
      <4> QED
        BY <1>2, <4>1, <4>2
    <3>3. Done' = Pages(image, first, c + 1)
      BY <1>2, <2>1, <2>11 DEF Done
    <3>4. (job.got \o fifo)' = (job.before)' \o Done'
      BY <2>10, <2>11, <3>3
    <3>5. image' = (job.image)'
      BY <1>2, <2>11
    <3> QED
      BY <2>1, <2>11, <3>1, <3>2, <3>4, <3>5 DEF Reading
<1>4. CASE ~(c < n)
  <2>1. /\ main' = "idle" /\ counter' = c /\ fifo' = fifo /\ job' = j /\ c = n
    BY <1>4 DEF ReadSector, CommandEnd
  <2> QED
    BY <1>2, <2>1 DEF Reading, Amount, Done
<1> QED
  BY <1>3, <1>4

\* A step of a Write that has gone well so far goes well.
LEMMA SectorWrites ==
  ASSUME DeviceTypeOK, job.cmd = C_WRITE, Inside, Amount > 0, Writing, WriteDataContinue
  PROVE  Writing'
<1> DEFINE first == FirstPage(job.par)
           page  == SubSeq(fifo, 1, PageBytes)
           rest  == SubSeq(fifo, PageBytes + 1, Len(fifo))
           at    == first + counter
<1>1. /\ first \in Nat /\ Amount \in Nat /\ ImageSize \in Nat /\ counter \in Nat /\ limit \in Nat
      /\ image \in [ImagePages -> Page] /\ fifo \in Seq(Byte)
      /\ job.before \in Seq(Byte) /\ job.sent \in Seq(Byte)
  BY JobKnown, ProductNat, DeviceAssumption DEF ImageSize, DeviceTypeOK, TransferTypes, Jobs
<1>2. /\ main = "write_data" /\ counter < limit /\ limit = Amount
      /\ UNCHANGED <<limit, job, par>> /\ par = job.par
      /\ first + limit <= ImageSize
  BY DEF WriteDataContinue, Writing, Inside, registers
<1>3. job.before \o job.sent = Pages(image, first, counter) \o fifo
  BY DEF Writing, Done
<1>4. main' = IF counter' < limit THEN "write_data" ELSE "idle"
  BY DEF WriteDataContinue, Await, CommandEnd
<1>5. CASE Len(fifo) >= PageBytes
  <2>1. /\ counter' = counter + 1 /\ fifo' = rest
        /\ image' = [p \in DOMAIN image |-> IF p = at THEN page ELSE image[p]]
    BY <1>2, <1>5 DEF WriteDataContinue, SectorAt
  <2>2. page \in Page /\ rest \in Seq(Byte) /\ fifo = page \o rest
    BY <1>1, <1>5, PageTaken
  <2> HIDE DEF page, rest
  <2>3. at \in ImagePages
    BY <1>1, <1>2 DEF ImagePages
  <2>4. image' \in [ImagePages -> Page] /\ image'[at] = page
    BY <1>1, <2>1, <2>2, <2>3
  <2>5. Pages(image', first, counter) = Pages(image, first, counter)
    <3>1. \A q \in first .. first + counter - 1 : image'[q] = image[q]
      BY <1>1, <1>2, <2>1 DEF ImagePages
    <3> QED
      BY <1>1, <3>1, PagesSame
  <2>6. Pages(image', first, counter + 1) = Pages(image, first, counter) \o page
    <3>1. first + counter + 1 <= ImageSize
      BY <1>1, <1>2
    <3> QED
      <4>1. Pages(image', first, counter + 1)
              = Pages(image', first, counter) \o image'[first + counter]
        BY <1>1, <2>4, <3>1, PagesStep, Zenon
      <4> QED
        BY <2>4, <2>5, <4>1, Zenon
  <2>7. page \in Seq(Byte) /\ Pages(image, first, counter) \in Seq(Byte)
    <3>1. first + counter <= ImageSize
      BY <1>1, <1>2
    <3> QED
      BY <1>1, <2>2, <3>1, PageBytesSeq, PagesBytes, Zenon
  <2>8. Pages(image', first, counter + 1) \o rest = Pages(image, first, counter) \o fifo
    <3>1. (Pages(image, first, counter) \o page) \o rest = Pages(image, first, counter) \o (page \o rest)
      BY <2>2, <2>7, ConcatBytes
    <3> QED
      BY <2>2, <2>6, <3>1, Zenon
  <2>9. \A p \in ImagePages : p - first \notin 0 .. (counter + 1) - 1 => image'[p] = job.image[p]
    <3>1. SUFFICES ASSUME NEW p \in ImagePages, p - first \notin 0 .. (counter + 1) - 1
                   PROVE  image'[p] = job.image[p]
      OBVIOUS
    <3>2. p # at /\ p - first \notin 0 .. counter - 1
      BY <1>1, <3>1 DEF ImagePages
    <3> QED
      BY <1>1, <2>1, <3>2 DEF Writing
  <2>10. Done' = Pages(image', first, counter + 1)
    BY <1>2, <2>1 DEF Done
  <2>11. (job.before \o job.sent)' = Done' \o fifo'
    BY <1>2, <1>3, <2>1, <2>8, <2>10
  <2>12. main' = IF counter + 1 < limit THEN "write_data" ELSE "idle"
    BY <1>4, <2>1
  <2>13. Amount' = Amount
    BY <1>2 DEF Amount
  <2> QED
    <3>1. par' = (job.par)' /\ limit' = Amount'
      BY <1>2, <2>13
    <3>2. IF main' = "write_data" THEN counter' < limit' ELSE counter' = limit'
      BY <1>1, <1>2, <2>1, <2>12
    <3>3. (\A p \in ImagePages : p - FirstPage(job.par) \notin 0 .. counter - 1
                                => image[p] = job.image[p])'
      BY <1>2, <2>1, <2>9
    <3> QED
      BY <2>11, <2>12, <3>1, <3>2, <3>3 DEF Writing
<1>6. CASE ~(Len(fifo) >= PageBytes)
  <2>1. counter' = counter /\ UNCHANGED <<fifo, image>>
    BY <1>6 DEF WriteDataContinue
  <2> QED
    BY <1>1, <1>2, <1>4, <2>1 DEF Writing, Done, Amount
<1> QED
  BY <1>5, <1>6

\* What DeviceInv says of the command in progress.
Going ==
  /\ job.cmd = C_READ /\ Inside /\ ~Refused => Reading
  /\ job.cmd = C_WRITE /\ Inside /\ Amount > 0 /\ ~Refused => Writing

\* A step that leaves command, block, FIFO and image alone changes neither.
LEMMA GoingSame ==
  ASSUME Going,
         UNCHANGED <<main, counter, limit, pos, image, fifo, par, str, job>>
  PROVE  Going'
<1>1. (Inside' <=> Inside) /\ Amount' = Amount /\ (Refused' <=> Refused)
  BY DEF Inside, Amount, Refused
<1>2. Done' = Done
  BY DEF Done
<1>3. (Reading' <=> Reading) /\ (Writing' <=> Writing)
  BY <1>1, <1>2 DEF Reading, Writing
<1> QED
  BY <1>1, <1>3 DEF Going

\* The timer moves the command on.
LEMMA ContinueGoing ==
  ASSUME DeviceTypeOK, DeviceInv, GeneralContinue
  PROVE  Going'
<1>1. CASE Expire
  <2>1. UNCHANGED <<main, counter, limit, pos, image, fifo, par, str, job>>
    BY <1>1 DEF Expire, Quiet, registers
  <2> QED
    BY <2>1, GoingSame DEF DeviceInv, Going
<1>2. CASE InitContinue \/ ReadFsaContinue
  <2>1. job' = job /\ main \in {"init", "read_fsa"}
    BY <1>2 DEF InitContinue, ReadFsaContinue
  <2>2. ~Refused
    BY <2>1 DEF Refused, DeviceInv
  <2>3. ~Reading /\ ~Writing
    BY <2>1 DEF Reading, Writing
  <2>4. (Inside' <=> Inside) /\ Amount' = Amount
    BY <2>1 DEF Inside, Amount
  <2> QED
    BY <2>1, <2>2, <2>3, <2>4 DEF DeviceInv, Going
<1>3. CASE CommandFailContinue
  <2>1. Refused'
    BY <1>3 DEF CommandFailContinue, CommandEnd, Refused
  <2> QED
    BY <2>1 DEF Going
<1>4. CASE ReadDataContinue
  <2>1. main = "read_data" /\ ReadSector(counter, limit, pos, job)
    BY <1>4 DEF ReadDataContinue
  <2>2. ~Refused /\ ~Writing
    BY <2>1 DEF Refused, Writing, DeviceInv
  <2>3. job' = job \/ job' = None
    BY <2>1 DEF ReadSector
  <2>4. CASE job' = None
    BY <2>4 DEF Going, None, C_READ, C_WRITE
  <2>5. CASE job' = job /\ job' # None
    <3>1. (Inside' <=> Inside) /\ Amount' = Amount
      BY <2>5 DEF Inside, Amount
    <3>2. CASE job.cmd = C_READ /\ Inside
      <4>1. Reading
        BY <2>2, <3>2 DEF DeviceInv
      <4>2. job \in Jobs
        BY <3>2, JobKnown
      <4>3. /\ counter \in Nat /\ limit \in Nat /\ pos \in Nat
            /\ job.image = image /\ limit = job.par.count * job.par.nfc /\ counter <= limit
            /\ pos = FirstPage(job.par) + counter
            /\ FirstPage(job.par) + limit <= ImageSize
            /\ job.got \o fifo = job.before \o Pages(image, FirstPage(job.par), counter)
        BY <2>1, <3>2, <4>1
        DEF Reading, Done, Amount, Inside, DeviceTypeOK, TransferTypes
      <4>4. job' = None \/ (job' = job /\ Reading')
        BY <2>1, <4>2, <4>3, SectorReads
      <4> QED
        BY <2>5, <3>2, <4>4 DEF Going, C_READ, C_WRITE
    <3>3. CASE ~(job.cmd = C_READ /\ Inside)
      BY <2>2, <2>5, <3>1, <3>3 DEF Going, DeviceInv
    <3> QED
      BY <3>2, <3>3
  <2> QED
    BY <2>3, <2>4, <2>5
<1>5. CASE WriteDataContinue
  <2>1. main = "write_data" /\ job' = job
    BY <1>5 DEF WriteDataContinue
  <2>2. ~Refused /\ ~Reading
    BY <2>1 DEF Refused, Reading, DeviceInv
  <2>3. (Inside' <=> Inside) /\ Amount' = Amount
    BY <2>1 DEF Inside, Amount
  <2>4. CASE job.cmd = C_WRITE /\ Inside /\ Amount > 0
    <3>1. Writing
      BY <2>2, <2>4 DEF DeviceInv
    <3>2. Writing'
      BY <1>5, <2>4, <3>1, SectorWrites
    <3> QED
      BY <2>1, <2>4, <3>2 DEF Going, C_READ, C_WRITE
  <2>5. CASE ~(job.cmd = C_WRITE /\ Inside /\ Amount > 0)
    BY <2>1, <2>2, <2>3, <2>5 DEF Going, DeviceInv
  <2> QED
    BY <2>4, <2>5
<1> QED
  BY <1>1, <1>2, <1>3, <1>4, <1>5 DEF GeneralContinue

\* A command starts well, or is refused.
LEMMA StartGoing ==
  ASSUME DeviceTypeOK, NEW cmd \in Nat, StartCommand(cmd)
  PROVE  Going'
<1>1. /\ Job(C_READ) \in Jobs /\ Job(C_WRITE) \in Jobs /\ par \in Blocks
      /\ FirstPage(par) \in Nat /\ par.count * par.nfc \in Nat
  BY JobTypes, DecodedTypes, BlockTypes DEF C_READ, C_WRITE, DeviceTypeOK, RegisterTypes
<1>2. CASE Waiting(CommandFailStart(cmd))
  <2>1. Refused'
    BY <1>2 DEF Waiting, CommandFailStart, Await, Refused
  <2> QED
    BY <2>1 DEF Going
<1>3. CASE \/ Waiting(InitStart) \/ Waiting(ReadFsaStart)
           \/ Purge \/ Abort \/ ResetFifo \/ SoftReset
  <2>1. \E other \in {C_INIT, C_READ_FSA_STATUS, C_MBM_PURGE, C_ABORT, C_RESET_FIFO, C_RESET} :
          job' = Job(other)
    BY <1>3 DEF Waiting, InitStart, ReadFsaStart, Purge, Abort, ResetFifo, SoftReset, AtOnce
  <2>2. job'.cmd \in {C_INIT, C_READ_FSA_STATUS, C_MBM_PURGE, C_ABORT, C_RESET_FIFO, C_RESET}
    BY <2>1 DEF Job
  <2> QED
    BY <2>2
    DEF Going, C_READ, C_WRITE, C_INIT, C_READ_FSA_STATUS, C_MBM_PURGE, C_ABORT,
        C_RESET_FIFO, C_RESET
<1>4. CASE ReadDataStart
  <2> DEFINE n == par.count * par.nfc
             j == Job(C_READ)
  <2>1. /\ j.cmd = C_READ /\ j.par = par /\ j.image = image
        /\ j.before = fifo /\ j.got = << >>
    BY DEF Job
  <2>2. ReadSector(0, n, FirstPage(par), j)
    BY <1>4 DEF ReadDataStart
  <2>3. CASE FirstPage(par) + n <= ImageSize
    <3>1. Pages(image, FirstPage(par), 0) = << >>
      BY NoPages
    <3>2. j.got \o fifo = j.before \o Pages(image, FirstPage(par), 0)
      BY <2>1, <3>1, ConcatEmptySeq DEF DeviceTypeOK
    <3>3. 0 <= n /\ FirstPage(par) = FirstPage(par) + 0 /\ 0 \in Nat
      BY <1>1
    <3>4. job' = None \/ (job' = j /\ Reading')
      <4> HIDE DEF j
      <4>1. /\ j \in Jobs /\ n \in Nat /\ n = j.par.count * j.par.nfc
            /\ FirstPage(par) = FirstPage(j.par) + 0
            /\ FirstPage(j.par) + n <= ImageSize
            /\ j.got \o fifo = j.before \o Pages(image, FirstPage(j.par), 0)
        BY <1>1, <2>1, <2>3, <3>2, <3>3 DEF j
      <4> HIDE DEF n
      <4> QED
        BY <1>1, <2>1, <2>2, <3>3, <4>1, SectorReads
    <3> QED
      BY <2>1, <3>4 DEF Going, None, C_READ, C_WRITE
  <2>4. CASE ~(FirstPage(par) + n <= ImageSize)
    <3>1. job' = None \/ job' = j
      BY <2>2 DEF ReadSector
    <3>2. job' = j => ~Inside'
      BY <2>1, <2>4 DEF Inside, Amount
    <3> QED
      BY <2>1, <3>1, <3>2 DEF Going, None, C_READ, C_WRITE
  <2> QED
    BY <2>3, <2>4
<1>5. CASE WriteDataStart
  <2>1. /\ job'.cmd = C_WRITE /\ (job.par)' = par /\ (job.image)' = image
        /\ (job.before)' = fifo /\ (job.sent)' = << >>
    BY <1>5 DEF WriteDataStart, Job
  <2>2. /\ main' = "write_data" /\ counter' = 0 /\ limit' = par.count * par.nfc
        /\ UNCHANGED <<par, fifo, image>>
    BY <1>5 DEF WriteDataStart, Await, registers
  <2>3. Amount' = limit'
    BY <2>1, <2>2 DEF Amount
  <2>4. Done' = << >>
    BY <2>2, NoPages DEF Done
  <2>5. (job.before \o job.sent)' = Done' \o fifo'
    BY <2>1, <2>2, <2>4, ConcatEmptySeq DEF DeviceTypeOK
  <2>6. Amount' > 0 => Writing'
    BY <2>1, <2>2, <2>3, <2>5 DEF Writing
  <2> QED
    BY <2>1, <2>6 DEF Going, C_READ, C_WRITE
<1> QED
  BY <1>2, <1>3, <1>4, <1>5 DEF StartCommand

\* The guest's other accesses.
LEMMA GuestGoing ==
  ASSUME DeviceTypeOK, Going,
         ReadData \/ WriteRegister \/ WriteFifo \/ ReadStatus
  PROVE  Going'
<1> USE DEF bubble
<1>1. CASE ReadData
  <2>1. UNCHANGED <<main, counter, limit, pos, image, par, str>>
    BY <1>1 DEF ReadData
  <2>2. CASE rac # 0
    BY <1>1, <2>1, <2>2, GoingSame DEF ReadData
  <2>3. CASE rac = 0
    <3>1. /\ fifo # << >> /\ fifo' = Tail(fifo)
          /\ job' = CASE job.cmd = C_READ  -> [job EXCEPT !.got = Append(@, Head(fifo))]
                      [] job.cmd = C_WRITE -> None
                      [] OTHER -> job
      BY <1>1, <2>3 DEF ReadData, SetFifo
    <3>2. CASE job.cmd = C_READ
      <4>1. job \in Jobs
        BY <3>2, JobKnown
      <4>2. job' = [job EXCEPT !.got = Append(@, Head(fifo))]
        BY <3>1, <3>2 DEF C_READ, C_WRITE
      <4>3. /\ job'.cmd = C_READ /\ (job.par)' = job.par /\ (job.image)' = job.image
            /\ (job.before)' = job.before /\ (job.got)' = Append(job.got, Head(fifo))
        BY <3>2, <4>1, <4>2 DEF Jobs
      <4>4. (job.got \o fifo)' = job.got \o fifo
        <5>1. Append(job.got, Head(fifo)) \o Tail(fifo) = job.got \o fifo
          BY <3>1, <4>1, HeadMoves DEF Jobs, DeviceTypeOK
        <5> QED
          BY <3>1, <4>3, <5>1
      <4>5. (Inside' <=> Inside) /\ Amount' = Amount /\ (Refused' <=> Refused) /\ Done' = Done
        BY <2>1, <4>3 DEF Inside, Amount, Refused, Done
      <4>6. Reading => Reading'
        BY <2>1, <4>3, <4>4, <4>5 DEF Reading
      <4> QED
        BY <3>2, <4>3, <4>5, <4>6 DEF Going, C_READ, C_WRITE
    <3>3. CASE job.cmd = C_WRITE
      BY <3>1, <3>3 DEF Going, None, C_READ, C_WRITE
    <3>4. CASE job.cmd # C_READ /\ job.cmd # C_WRITE
      BY <3>1, <3>4 DEF Going
    <3> QED
      BY <3>2, <3>3, <3>4
  <2> QED
    BY <2>2, <2>3
<1>2. CASE WriteRegister
  <2>1. /\ UNCHANGED <<main, counter, limit, pos, image, fifo, str>>
        /\ job' = IF job.cmd = C_WRITE /\ par' # job.par THEN None ELSE job
    BY <1>2 DEF WriteRegister
  <2>2. CASE job' = None
    BY <2>2 DEF Going, None, C_READ, C_WRITE
  <2>3. CASE job' = job /\ (job.cmd = C_WRITE => par' = job.par)
    <3>1. (Inside' <=> Inside) /\ Amount' = Amount /\ (Refused' <=> Refused) /\ Done' = Done
      BY <2>1, <2>3 DEF Inside, Amount, Refused, Done
    <3>2. /\ Reading => Reading'
          /\ Writing /\ job.cmd = C_WRITE => Writing'
      BY <2>1, <2>3, <3>1 DEF Reading, Writing
    <3> QED
      BY <2>3, <3>1, <3>2 DEF Going
  <2> QED
    BY <2>1, <2>2, <2>3
<1>3. CASE WriteFifo
  <2>1. UNCHANGED <<main, counter, limit, pos, image, par, str>>
    BY <1>3 DEF WriteFifo, registers
  <2>2. PICK b \in Byte :
          /\ fifo' = Append(fifo, b)
          /\ job' = CASE job.cmd = C_READ  -> None
                      [] job.cmd = C_WRITE -> [job EXCEPT !.sent = Append(@, b)]
                      [] OTHER -> job
    BY <1>3 DEF WriteFifo, SetFifo
  <2>3. CASE job.cmd = C_READ
    BY <2>2, <2>3 DEF Going, None, C_READ, C_WRITE
  <2>4. CASE job.cmd = C_WRITE
    <3>1. job \in Jobs /\ FirstPage(job.par) \in Nat /\ Amount \in Nat
      BY <2>4, JobKnown
    <3>2. job' = [job EXCEPT !.sent = Append(@, b)]
      BY <2>2, <2>4 DEF C_READ, C_WRITE
    <3>3. /\ job'.cmd = C_WRITE /\ (job.par)' = job.par /\ (job.image)' = job.image
          /\ (job.before)' = job.before /\ (job.sent)' = Append(job.sent, b)
      BY <2>4, <3>1, <3>2 DEF Jobs
    <3>4. (Inside' <=> Inside) /\ Amount' = Amount /\ (Refused' <=> Refused) /\ Done' = Done
      BY <2>1, <3>3 DEF Inside, Amount, Refused, Done
    <3>5. ASSUME Writing, Inside PROVE Writing'
      <4>1. (job.before \o job.sent)' = Append(job.before \o job.sent, b)
        BY <3>1, <3>3, AppendBehind DEF Jobs
      <4>2. Done \in Seq(Byte)
        <5>1. counter \in Nat /\ FirstPage(job.par) + counter <= ImageSize
          BY <3>1, <3>5, DeviceAssumption, ProductNat
          DEF Writing, Inside, ImageSize, DeviceTypeOK, TransferTypes
        <5> QED
          BY <3>1, <5>1, PagesBytes DEF Done, DeviceTypeOK, TransferTypes
      <4>3. Done \o Append(fifo, b) = Append(Done \o fifo, b)
        BY <4>2, AppendBehind DEF DeviceTypeOK
      <4>4. (job.before \o job.sent)' = Done' \o fifo'
        BY <2>2, <3>4, <3>5, <4>1, <4>3 DEF Writing
      <4> QED
        BY <2>1, <3>3, <3>4, <3>5, <4>4 DEF Writing
    <3> QED
      BY <2>4, <3>3, <3>4, <3>5 DEF Going, C_READ, C_WRITE
  <2>5. CASE job.cmd # C_READ /\ job.cmd # C_WRITE
    BY <2>2, <2>5 DEF Going
  <2> QED
    BY <2>3, <2>4, <2>5
<1>4. CASE ReadStatus
  BY <1>4 DEF ReadStatus, Going, None, C_READ, C_WRITE
<1> QED
  BY <1>1, <1>2, <1>3, <1>4

\* Every step keeps the invariant.
LEMMA DeviceInvNext ==
  ASSUME DeviceTypeOK, DeviceInv, Next
  PROVE  DeviceInv'
<1>1. Going
  BY DEF DeviceInv, Going
<1>2. CASE GeneralContinue
  <2>1. Going'
    BY <1>2, ContinueGoing
  <2>2. \/ UNCHANGED <<phase, main, str, job>>
        \/ /\ phase' \in {"exec", "result"}
           /\ IF str' = {} THEN TRUE
              ELSE str' \in {{"DONE"}, {"FAIL", "TE"}} /\ main' = "idle"
    BY <1>2
    DEF GeneralContinue, InitContinue, CommandFailContinue, ReadFsaContinue, ReadDataContinue,
        ReadSector, WriteDataContinue, Expire, Await, CommandEnd
  <2> QED
    BY <2>1, <2>2 DEF DeviceInv, Going
<1>3. CASE ReadData \/ WriteRegister \/ WriteFifo \/ ReadStatus
  <2>1. Going'
    BY <1>1, <1>3, GuestGoing
  <2>2. /\ UNCHANGED <<main, str>>
        /\ phase' = "idle" => job' = None
    <3>1. CASE phase = "idle"
      <4>1. job = None /\ job.cmd = 0
        BY <3>1 DEF DeviceInv, None
      <4>2. job.cmd # C_READ /\ job.cmd # C_WRITE
        BY <4>1 DEF C_READ, C_WRITE
      <4> QED
        BY <1>3, <4>1, <4>2 DEF ReadData, WriteRegister, WriteFifo, ReadStatus, bubble
    <3>2. CASE phase # "idle"
      BY <1>3, <3>2 DEF ReadData, WriteRegister, WriteFifo, ReadStatus, bubble
    <3> QED
      BY <3>1, <3>2
  <2> QED
    BY <2>1, <2>2 DEF DeviceInv, Going
<1>4. CASE WriteControl
  <2>1. CASE rac' \in Selects /\ UNCHANGED <<phase, bubble, fifo, drq, regs, par, str, given, job>>
    BY <1>1, <2>1, GoingSame DEF bubble, DeviceInv, Going
  <2>2. CASE \E cmd \in Commands : StartCommand(cmd)
    <3>1. PICK cmd \in Commands : StartCommand(cmd)
      BY <2>2
    <3>2. Going'
      BY <3>1, StartGoing, DeviceAssumption
    <3>3. /\ phase' \in {"exec", "result"}
          /\ \/ str' = {}
             \/ str' \in {{"DONE"}, {"FAIL", "TE"}} /\ main' = "idle"
      BY <3>1
      DEF StartCommand, Waiting, InitStart, ReadFsaStart, CommandFailStart, ReadDataStart,
          WriteDataStart, Purge, Abort, ResetFifo, SoftReset, AtOnce, ReadSector, Await, CommandEnd
    <3> QED
      BY <3>2, <3>3 DEF DeviceInv, Going
  <2> QED
    BY <1>4, <2>1, <2>2 DEF WriteControl
<1> QED
  BY <1>2, <1>3, <1>4 DEF Next

\* The invariant holds.
LEMMA DeviceInvariant == Spec => []DeviceInv
<1>1. Init => DeviceInv
  BY DEF Init, DeviceInv, None, C_READ, C_WRITE
<1>2. DeviceTypeOK /\ DeviceInv /\ [Next]_vars => DeviceInv'
  <2>1. ASSUME DeviceInv, UNCHANGED vars PROVE DeviceInv'
    BY <2>1, GoingSame DEF vars, bubble, registers, DeviceInv, Going
  <2> QED
    BY <2>1, DeviceInvNext
<1> QED
  BY <1>1, <1>2, DeviceTypeCorrect, PTL DEF Spec

\* For pages, FIFO and image of any size, any parameters and any guest: a Write that
\* is reported done has put the guest's bytes into the pages of its block and touched no
\* other, and a Read has delivered the pages of its block in order, unless the guest
\* has disturbed it or the block leaves the image (471-563).
THEOREM TransfersCorrect == Spec => []TransfersLand
<1>1. DeviceTypeOK /\ DeviceInv => TransfersLand
  <2> SUFFICES ASSUME DeviceTypeOK, DeviceInv PROVE WriteLands /\ ReadDelivers
    BY DEF TransfersLand
  <2>1. ASSUME NEW cmd, Reported(cmd)
        PROVE  job.cmd = cmd /\ main = "idle" /\ ~Refused
    <3>1. job.cmd = cmd /\ "DONE" \in str
      BY <2>1 DEF Reported, Status
    <3> QED
      BY <3>1 DEF DeviceInv, Refused
  <2>2. WriteLands
    <3> SUFFICES ASSUME Reported(C_WRITE), Inside, Amount > 0
                 PROVE  LET first == FirstPage(job.par)
                            bytes == job.before \o job.sent
                        IN  /\ Pages(image, first, Amount) = SubSeq(bytes, 1, Amount * PageBytes)
                            /\ \A p \in DOMAIN image : p - first \notin 0 .. Amount - 1
                                                        => image[p] = job.image[p]
      BY DEF WriteLands
    <3>1. job.cmd = C_WRITE /\ Writing /\ main = "idle"
      BY <2>1 DEF DeviceInv
    <3>2. counter = Amount /\ job.before \o job.sent = Pages(image, FirstPage(job.par), Amount) \o fifo
      BY <3>1 DEF Writing, Done
    <3>3. /\ Pages(image, FirstPage(job.par), Amount) \in Seq(Byte)
          /\ Len(Pages(image, FirstPage(job.par), Amount)) = Amount * PageBytes
      BY <3>1, JobKnown, PagesBytes DEF Inside, DeviceTypeOK, TransferTypes
    <3>4. SubSeq(job.before \o job.sent, 1, Amount * PageBytes)
            = Pages(image, FirstPage(job.par), Amount)
      BY <3>2, <3>3, FirstPart DEF DeviceTypeOK
    <3>5. DOMAIN image = ImagePages
      BY DEF DeviceTypeOK, TransferTypes
    <3> QED
      BY <3>1, <3>2, <3>4, <3>5 DEF Writing
  <2>3. ReadDelivers
    <3> SUFFICES ASSUME Reported(C_READ), Inside
                 PROVE  job.got \o fifo = job.before \o Pages(job.image, FirstPage(job.par), Amount)
      BY DEF ReadDelivers
    <3>1. Reading /\ main = "idle"
      BY <2>1 DEF DeviceInv
    <3> QED
      BY <3>1 DEF Reading, Done
  <2> QED
    BY <2>2, <2>3
<1> QED
  BY <1>1, DeviceTypeCorrect, DeviceInvariant, PTL
=============================================================================

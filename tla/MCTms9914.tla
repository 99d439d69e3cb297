----------------------------- MODULE MCTms9914 -----------------------------
(***************************************************************************)
(* Three chips on one bus: chip 1 is the controller of the GRiD, chips 2   *)
(* and 3 are instruments (a disk and a printer, say).  Each scenario is a  *)
(* program per processor; when the programs run is left open.              *)
(***************************************************************************)
EXTENDS Tms9914

Aux(cmd, on) == [op |-> "write", reg |-> "AUX_CMD", v |-> <<cmd, on>>]
On(cmd) == Aux(cmd, TRUE)
Off(cmd) == Aux(cmd, FALSE)
Set(reg, v) == [op |-> "write", reg |-> reg, v |-> v]
Out(b) == [op |-> "out", byte |-> b]
In == [op |-> "in"]
Irq(b) == [op |-> "irq", bits |-> {b}]
PollFor(bits) == [op |-> "poll", bits |-> bits, clear |-> {}]
PollNot(bits) == [op |-> "poll", bits |-> {}, clear |-> bits]

CAddress == << {0}, {1}, {0, 1} >>
MLA(d) == Address[d] \cup {5}
MTA(d) == Address[d] \cup {6}
MSA(n) == n \cup {5, 6}
ByteA == {0, 6}
ByteB == {1, 6, 7}
Requesting == {0, 6}

TakeBus == <<On("SIC"), Off("SIC")>>

\* The disk talks to the controller and the printer; the controller takes the bus back in step.
DiskTalks ==
  << TakeBus \o <<Out(MTA(2)), Out(MLA(3)), On("LON"), Irq("BO"), On("GTS"),
                  In, Irq("BI"), On("TCS"), In, Out(UNT), Out(UNL), Irq("BO")>>,
     <<PollFor({"TADS"}), PollNot({"ATN"}), Out(ByteA), On("FEOI"), Out(ByteB)>>,
     <<In, In>> >>

\* The controller talks to both, then takes the bus back at once.
ControllerTalks ==
  << TakeBus \o <<Out(MLA(2)), Out(MLA(3)), On("TON"), Irq("BO"), On("GTS"),
                  Out(ByteA), On("FEOI"), Out(ByteB), Irq("BO"), On("TCA"), Out(UNL), Irq("BO")>>,
     <<On("HDFE"), In, In, On("RHDF")>>,
     <<In, On("HDFA"), In, On("RHDF"), Off("HDFA")>> >>

\* The instruments ask for service, each its own way; the controller polls both.
PollOf(d) == <<Out(MTA(d)), Irq("BO"), On("GTS"), Irq("BI"), On("TCS"), In>>
DiskAsks ==
  << TakeBus \o <<PollFor({"SRQ"}), On("LON"), Out(SPE)>> \o PollOf(2) \o <<Out(SPD), Irq("BO")>>,
     <<Set("SERIAL_P", Requesting), Irq("SPAS"), Set("SERIAL_P", {0})>>,
     <<>> >>
BothAsk ==
  << TakeBus \o <<On("LON"), Out(SPE)>> \o PollOf(2) \o PollOf(3),
     <<Set("SERIAL_P", Requesting)>>,
     <<On("RSV2")>> >>

\* Parallel poll, lockout and release of the instruments.
ParallelPoll ==
  << TakeBus \o <<On("SRE"), Out(MLA(2)), Out(LLO), Out(GTL), Irq("BO"), On("RPP"), Off("RPP"),
                  Off("SRE")>>,
     <<Set("PARALLEL_P", {1}), Irq("RLC"), On("RTL")>>,
     <<Set("PARALLEL_P", {2})>> >>

\* Secondary addresses and device clear, with the processors holding the handshake.
HoldOffs ==
  << <<On("RQC"), Out(MLA(2)), Out(MSA({0})), Out(DCL), Out({3, 4, 0, 1}), Irq("BO"), On("RLC")>>,
     <<Set("INT_MASK1", {"APT", "UNC"}), Irq("APT"), On("DACR"), Irq("UNC"), On("DACR")>>,
     <<Set("INT_MASK0", Int0Bits \cup {"INT0", "INT1"}), Set("INT_MASK1", {"DCAS", "MA"}), Irq("DCAS"), On("DACR")>> >>

\* A transfer that the controller, the talker or the listener breaks off at any point.
BrokenOff(controller, talker, listener) ==
  << TakeBus \o <<Out(MTA(2)), Out(MLA(3)), Irq("BO"), On("GTS")>> \o controller,
     <<Set("DO", ByteA)>> \o talker,
     listener >>

CScenarios ==
  {DiskTalks, ControllerTalks, DiskAsks, BothAsk, ParallelPoll, HoldOffs,
   BrokenOff(<<On("TCA"), Out(UNT), Irq("BO")>>, <<>>, <<>>),
   BrokenOff(<<On("SIC"), Off("SIC")>>, <<>>, <<>>),
   BrokenOff(<<>>, <<On("SWRST"), Off("SWRST")>>, <<Off("LON")>>),
   BrokenOff(<<>>, <<On("NBAF"), Off("TON")>>, <<On("SWRST"), Off("SWRST")>>),
   BrokenOff(<<>>, <<Set("ADDRESS", Address[2] \cup {Dat})>>, <<Set("ADDRESS", Address[3] \cup {Dal})>>)}
=============================================================================

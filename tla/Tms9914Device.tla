--------------------------- MODULE Tms9914Device ---------------------------
(***************************************************************************)
(* One TMS9914 GPIB controller, as the kept reference of the port          *)
(* (removed/tms9914.cpp, removed/tms9914.h) computes it: the value of the  *)
(* chip is a record, each state machine of update_fsm() is an operator     *)
(* from record to record, and so is every register access.  What crosses   *)
(* chips -- set_signal() calling into the other chips while update_fsm()   *)
(* is still running -- is in Tms9914.tla.                                  *)
(*                                                                         *)
(* A byte is the set of its bits that are 1, so the OR of the bus is a     *)
(* union and a mask an intersection.  A status register is the set of its  *)
(* bits' names.  Delays are not counted: a running timer is in r.timers    *)
(* until it fires.  STDL and VSTDL only choose a delay (and the two        *)
(* commands are not implemented), so m_stdl, m_vstdl and m_sh_vsts are     *)
(* left out, with the log and save_item().                                 *)
(***************************************************************************)
EXTENDS Naturals, FiniteSets

Bit == 0..7
Byte == SUBSET Bit
Signals == {"EOI", "DAV", "NRFD", "NDAC", "IFC", "SRQ", "ATN", "REN"}

(* The bits of the two status registers, less the two summary bits.        *)
Int0Bits == {"MAC", "RLC", "SPAS", "END", "BO", "BI"}
Int1Bits == {"IFC", "SRQ", "MA", "DCAS", "APT", "UNC", "ERR", "GET"}

(* The latches the auxiliary commands set, and the FSMs' own memory.       *)
Commands == {"swrst", "hdfa", "hdfe", "rtl", "gts", "rpp", "sic", "sre", "dai",
             "pts", "shdw", "rsvd2", "next_eoi"}
Latches == {"adhs", "anhs", "aehs", "shfs", "tpas", "spms", "lpas", "ppas", "ulpa"}

AHStates == {"AIDS", "ANRS", "ACRS", "ACDS1", "ACDS2", "AWNS"}
SHStates == {"SIDS", "SGNS", "SDYS", "SERS", "STRS"}
TStates == {"TIDS", "TADS", "TACS", "SPAS"}
EoiStates == {"ENIS", "ENRS", "ERAS", "ENAS"}
LStates == {"LIDS", "LADS", "LACS"}
SRStates == {"NPRS", "SRQS", "APRS1", "APRS2"}
RLStates == {"LOCS", "REMS", "RWLS", "LWLS"}
CStates == {"CIDS", "CADS", "CACS", "CSBS", "CWAS", "CSHS", "CSWS", "CAWS", "CPWS"}

Device ==
  [own : SUBSET Signals, ext : SUBSET Signals, no_reflection : BOOLEAN,
   ext_state_change : BOOLEAN, changed : BOOLEAN, eoi_signal : BOOLEAN, dio_byte : Byte,
   int0 : SUBSET (Int0Bits \cup {"INT0", "INT1"}), mask0 : SUBSET Int0Bits,
   int1 : SUBSET Int1Bits, mask1 : SUBSET Int1Bits, int_line : BOOLEAN, accrq : BOOLEAN,
   address : Byte, serial_p : Byte, serial_p2 : Byte, parallel_p : Byte, parallel_p2 : Byte,
   di : Byte, do : Byte, dio : Byte, cmd : SUBSET Commands, latch : SUBSET Latches,
   ah : AHStates, sh : SHStates, t : TStates, eoi : EoiStates, l : LStates, sr : SRStates,
   rl : RLStates, c : CStates, timers : SUBSET {"sh", "ah", "c"}]

Put(S, x, b) == IF b THEN S \cup {x} ELSE S \ {x}
Has(r, s) == s \in r.ext                                  \* get_signal()
Ifcin(r) == Has(r, "IFC") /\ "sic" \notin r.cmd           \* get_ifcin()
ContR(r) == r.c \notin {"CIDS", "CADS"}                   \* cont_r()
ShActive(r) == r.sh \in {"SDYS", "STRS", "SERS"}          \* sh_active()

(* Bits of the address and serial poll registers.                          *)
Dat == 5
Dal == 6
Edpa == 7
Rsv == 6

ControllerReset(r) == "swrst" \in r.cmd \/ Ifcin(r)
ListenerReset(r) == ControllerReset(r) \/ Dal \in r.address \/ "sic" \in r.cmd
TalkerReset(r) == ControllerReset(r) \/ Dat \in r.address \/ "sic" \in r.cmd

(***************************************************************************)
(* Interrupts: update_int(), set_int0_bit(), set_int1_bit().               *)
(***************************************************************************)
UpdateInt(r) ==
  LET pending0 == r.int0 \cap Int0Bits \cap r.mask0 # {}
      pending1 == r.int1 \cap r.mask1 # {}
  IN [r EXCEPT !.int0 = (@ \cap Int0Bits) \cup (IF pending0 THEN {"INT0"} ELSE {})
                                          \cup (IF pending1 THEN {"INT1"} ELSE {}),
               !.int_line = (pending0 \/ pending1) /\ "dai" \notin r.cmd]

SetInt0(r, b) ==
  [UpdateInt([r EXCEPT !.int0 = @ \cup {b}]) EXCEPT
     !.accrq = @ \/ b = "BI" \/ (b = "BO" /\ r.c # "CACS")]
SetInt1(r, b) == UpdateInt([r EXCEPT !.int1 = @ \cup {b}])

(* do_swrst(): every state machine to its idle state.                      *)
Swrst(r) ==
  UpdateInt([r EXCEPT !.int0 = {}, !.int1 = {}, !.ah = "AIDS", !.sh = "SIDS", !.t = "TIDS",
                      !.eoi = "ENIS", !.l = "LIDS", !.sr = "NPRS", !.rl = "LOCS", !.c = "CIDS",
                      !.latch = (@ \cap {"ulpa"}) \cup {"shfs"}, !.cmd = @ \ {"gts"},
                      !.accrq = FALSE])

(* The chip after device_reset(); its update_fsm() finds nothing to do.    *)
PowerOn ==
  Swrst([own |-> {}, ext |-> {}, no_reflection |-> FALSE, ext_state_change |-> FALSE,
         changed |-> FALSE, eoi_signal |-> FALSE, dio_byte |-> {},
         int0 |-> {}, mask0 |-> {}, int1 |-> {}, mask1 |-> {}, int_line |-> FALSE,
         accrq |-> TRUE, address |-> {}, serial_p |-> {}, serial_p2 |-> {},
         parallel_p |-> {}, parallel_p2 |-> {}, di |-> {}, do |-> {}, dio |-> {},
         cmd |-> {}, latch |-> {}, ah |-> "AIDS", sh |-> "SIDS", t |-> "TIDS",
         eoi |-> "ENIS", l |-> "LIDS", sr |-> "NPRS", rl |-> "LOCS", c |-> "CIDS",
         timers |-> {}])

(***************************************************************************)
(* Received over the bus: interface commands and data bytes.               *)
(***************************************************************************)
GroupMask == {5, 6}
GTL == {0}
SDC == {2}
GET == {3}
TCT == {0, 3}
LLO == {0, 4}
DCL == {2, 4}
SPE == {3, 4}
SPD == {0, 3, 4}
UNL == 0..5
UNT == {0, 1, 2, 3, 4, 6}

(* is_my_address() without its side effect, which is TakeUlpa().           *)
\* Mutant: the lowest address bit counts for nobody.
IsMyAddressPair(r, cmd) ==
  LET diff == ((cmd \ r.address) \cup (r.address \ cmd)) \cap 0..4
  IN diff = {} \/ diff = {0}

IsMyAddress(r, cmd) ==
  LET diff == ((cmd \ r.address) \cup (r.address \ cmd)) \cap 0..4
  IN diff = {} \/ (Edpa \in r.address /\ diff = {0})
TakeUlpa(r, cmd) == [r EXCEPT !.latch = Put(@, "ulpa", 0 \in cmd)]

DoLAF(r) ==
  LET r1 == [r EXCEPT !.l = IF @ = "LIDS" THEN "LADS" ELSE @, !.t = "TIDS",
                      !.ext_state_change = @ \/ r.l = "LIDS" \/ r.t # "TIDS"]
  IN CASE r.rl = "LWLS" -> SetInt0([r1 EXCEPT !.rl = "RWLS"], "RLC")
       [] r.rl = "LOCS" /\ "rtl" \notin r.cmd /\ Has(r, "REN") ->
            SetInt0([r1 EXCEPT !.rl = "REMS"], "RLC")
       [] OTHER -> r1

DoTAF(r) ==
  [r EXCEPT !.t = IF @ = "TIDS" THEN "TADS" ELSE @, !.l = "LIDS",
            !.ext_state_change = @ \/ r.t = "TIDS" \/ r.l # "LIDS"]

(* An interrupt of register 1 that holds the handshake off when unmasked.  *)
HoldOff(r, b) ==
  [SetInt1(r, b) EXCEPT !.latch = IF b \in r.mask1 THEN @ \cup {"adhs"} ELSE @]

\* My address: "heard" has latched it, "accepted" has also taken the role it gives.
Heard(r, cmd, latch) == [TakeUlpa(r, cmd) EXCEPT !.latch = @ \cup {latch}]
Changed(r, addressed) == IF addressed THEN r ELSE SetInt0(r, "MAC")
MyAddress(heard, reset, accepted) ==
  LET r == IF reset THEN heard ELSE accepted
  IN CASE "APT" \in heard.mask1 -> heard
       [] "spms" \in heard.latch -> r
       [] OTHER -> HoldOff(r, "MA")

IfCmdReceived(r0, cmd) ==
  LET r == IF cmd \cap GroupMask # GroupMask
           THEN [r0 EXCEPT !.latch = @ \ {"lpas", "tpas"}] ELSE r0
      Group(g) == cmd \cap GroupMask = g
  IN CASE cmd = GTL /\ r.l = "LADS" /\ r.rl = "REMS" -> SetInt0([r EXCEPT !.rl = "LOCS"], "RLC")
       [] cmd = GTL /\ r.l = "LADS" /\ r.rl = "RWLS" -> SetInt0([r EXCEPT !.rl = "LWLS"], "RLC")
       [] cmd = DCL \/ (cmd = SDC /\ r.l = "LADS") -> HoldOff(r, "DCAS")
       [] cmd = TCT /\ r.t = "TADS" -> HoldOff(r, "UNC")
       [] cmd = LLO /\ r.rl = "LOCS" /\ Has(r, "REN") -> [r EXCEPT !.rl = "LWLS"]
       [] cmd = LLO /\ r.rl = "REMS" -> [r EXCEPT !.rl = "RWLS"]
       [] cmd = SPE /\ ~Ifcin(r) /\ "spms" \notin r.latch ->
            [r EXCEPT !.latch = @ \cup {"spms"}, !.ext_state_change = TRUE]
       [] cmd = SPD /\ "spms" \in r.latch ->
            [r EXCEPT !.latch = @ \ {"spms"}, !.ext_state_change = TRUE]
       [] cmd = UNL /\ r.l # "LIDS" -> SetInt0([r EXCEPT !.l = "LIDS"], "MAC")
       [] cmd = UNT /\ r.t # "TIDS" -> SetInt0([r EXCEPT !.t = "TIDS"], "MAC")
       [] cmd \in {GTL, SDC, GET, TCT, LLO, SPE, SPD, UNL, UNT} -> r
       [] Group({}) /\ 4 \notin cmd -> IF r.l = "LADS" THEN HoldOff(r, "UNC") ELSE r
       [] Group({}) /\ 4 \in cmd -> HoldOff(r, "UNC")
       [] Group({5}) /\ IsMyAddress(r, cmd) ->
            LET heard == Heard(r, cmd, "lpas")
            IN MyAddress(heard, ListenerReset(r), DoLAF(Changed(heard, r.l = "LADS")))
       [] Group({6}) /\ IsMyAddress(r, cmd) ->
            LET heard == Heard(r, cmd, "tpas")
            IN MyAddress(heard, TalkerReset(r), DoTAF(Changed(heard, r.t = "TADS")))
       [] Group({6}) /\ ~IsMyAddress(r, cmd) /\ r.t # "TIDS" ->
            SetInt0([r EXCEPT !.t = "TIDS"], "MAC")
       [] Group(GroupMask) /\ "pts" \in r.cmd ->
            HoldOff([r EXCEPT !.cmd = @ \ {"pts"}], "UNC")
       [] Group(GroupMask) /\ "pts" \notin r.cmd /\ r.latch \cap {"lpas", "tpas"} # {} ->
            HoldOff(r, "APT")
       [] OTHER -> r

DabReceived(r, dab, eoi) ==
  LET r1 == [r EXCEPT !.di = dab]
      r2 == IF "shdw" \in r.cmd THEN r1
            ELSE SetInt0([r1 EXCEPT !.latch = @ \cup {"anhs"}], "BI")
      r3 == IF "shdw" \notin r.cmd /\ eoi THEN SetInt0(r2, "END") ELSE r2
  IN IF "hdfe" \in r.cmd /\ eoi THEN [r3 EXCEPT !.latch = @ \cup {"aehs"}] ELSE r3

(***************************************************************************)
(* The state machines, in the order of one pass of update_fsm()'s loop.    *)
(***************************************************************************)

\* Source handshake.
ShReset(r) ==
  \/ "swrst" \in r.cmd
  \/ Has(r, "ATN") /\ r.c # "CACS"
  \/ ~Has(r, "ATN") /\ r.t \notin {"TACS", "SPAS"}

ShTarget(r) ==
  CASE ShReset(r) -> "SIDS"
    [] ~ShReset(r) /\ r.sh = "SIDS" /\ (r.t \in {"TACS", "SPAS"} \/ r.c = "CACS") -> "SGNS"
    [] ~ShReset(r) /\ r.sh = "SGNS" /\ ("shfs" \notin r.latch \/ r.t = "SPAS") -> "SDYS"
    [] ~ShReset(r) /\ r.sh = "SDYS" /\ "sh" \notin r.timers /\ ~Has(r, "NRFD") ->
         IF Has(r, "NDAC") THEN "STRS" ELSE "SERS"
    [] ~ShReset(r) /\ r.sh = "SERS" /\ Has(r, "NDAC") -> "STRS"
    [] ~ShReset(r) /\ r.sh = "STRS" /\ ~Has(r, "NDAC") -> "SGNS"
    [] OTHER -> r.sh

\* The serial poll byte carries RQS while the request is being answered.
OutputByte(r) ==
  IF r.t = "SPAS" THEN Put(r.serial_p, Rsv, r.sr \in {"APRS1", "APRS2"}) ELSE r.do

StepSH(r) ==
  LET n == ShTarget(r)
      runs == ~ShReset(r)
      r1 == [r EXCEPT
               !.sh = n,
               !.changed = @ \/ n # r.sh,
               !.timers = IF ~runs THEN @ \ {"sh"}
                          ELSE Put(@, "sh", "sh" \in @ \/ (r.sh = "SGNS" /\ n = "SDYS")),
               !.latch = IF runs /\ r.sh = "STRS" /\ r.t # "SPAS" THEN @ \cup {"shfs"} ELSE @,
               !.eoi = CASE runs /\ r.sh = "SDYS" /\ "spms" \notin r.latch /\ @ = "ENRS" -> "ENIS"
                         [] runs /\ r.sh = "SDYS" /\ "spms" \notin r.latch /\ @ = "ERAS" -> "ENAS"
                         [] OTHER -> @]
      r2 == IF n = "SERS" /\ r.sh = "SDYS" THEN SetInt1(r1, "ERR") ELSE r1
      r3 == IF n = "SGNS" /\ r.sh # "SGNS" /\ "shfs" \in r1.latch /\ r.t # "SPAS"
            THEN SetInt0(r2, "BO") ELSE r2
      r4 == IF r.sh = "STRS" /\ n # "STRS" /\ r.t = "SPAS" /\ r.sr \in {"APRS1", "APRS2"}
            THEN SetInt0(r3, "SPAS") ELSE r3
  IN [r4 EXCEPT !.dio_byte = IF ShActive(r4) THEN OutputByte(r4) ELSE {},
                !.eoi_signal = ShActive(r4) /\ r4.eoi \in {"ERAS", "ENAS"}]

\* Acceptor handshake.
AhReset(r) ==
  \/ "swrst" \in r.cmd
  \/ Has(r, "ATN") /\ ContR(r)
  \/ ~Has(r, "ATN") /\ r.l \notin {"LADS", "LACS"}
\* Mutant: the hold-off on every byte is forgotten.
WithheldAtEnd(r) == ~Has(r, "ATN") /\ "aehs" \in r.latch

Withheld(r) == ~Has(r, "ATN") /\ r.latch \cap {"anhs", "aehs"} # {}

AhTarget(r) ==
  LET dav == Has(r, "DAV")
  IN CASE AhReset(r) -> "AIDS"
       [] ~AhReset(r) /\ r.ah = "AIDS" -> "ANRS"
       [] ~AhReset(r) /\ r.ah = "ANRS" /\ dav -> "AWNS"
       [] ~AhReset(r) /\ r.ah = "ANRS" /\ ~dav /\ r.c # "CWAS" /\ ~Withheld(r) -> "ACRS"
       [] ~AhReset(r) /\ r.ah = "ACRS" /\ Withheld(r) -> "ANRS"
       [] ~AhReset(r) /\ r.ah = "ACRS" /\ ~Withheld(r) /\ "ah" \notin r.timers /\ dav -> "ACDS1"
       [] ~AhReset(r) /\ r.ah = "ACDS1" /\ ~dav -> "ACRS"
       [] ~AhReset(r) /\ r.ah = "ACDS1" /\ dav /\ "ah" \notin r.timers -> "ACDS2"
       [] ~AhReset(r) /\ r.ah = "ACDS2" /\ ("adhs" \notin r.latch \/ ~Has(r, "ATN")) -> "AWNS"
       [] ~AhReset(r) /\ r.ah = "ACDS2" /\ "adhs" \in r.latch /\ Has(r, "ATN") /\ ~dav -> "ANRS"
       [] ~AhReset(r) /\ r.ah = "AWNS" /\ ~dav -> "ANRS"
       [] OTHER -> r.ah

StepAH(r, bus) ==
  LET n == AhTarget(r)
      moved == n # r.ah
      r1 == [r EXCEPT !.ah = n, !.changed = @ \/ moved,
                      !.timers = CASE moved /\ n \in {"ACRS", "ACDS1"} -> @ \cup {"ah"}
                                   [] AhReset(r) \/ (r.ah = "ACRS" /\ n = "ANRS") -> @ \ {"ah"}
                                   [] OTHER -> @]
  IN CASE moved /\ n = "ACDS2" /\ Has(r, "ATN") -> IfCmdReceived(r1, bus \cap 0..6)
       [] moved /\ n = "ACDS2" /\ ~Has(r, "ATN") -> DabReceived(r1, bus, Has(r, "EOI"))
       [] OTHER -> r1

\* Talker.
\* Mutant: a move of the talker does not call for another pass.
StepTQuiet(r) ==
  LET n == CASE TalkerReset(r) -> "TIDS"
             [] ~TalkerReset(r) /\ r.t = "TADS" /\ ~Has(r, "ATN") ->
                  IF "spms" \in r.latch THEN "SPAS" ELSE "TACS"
             [] ~TalkerReset(r) /\ r.t \in {"TACS", "SPAS"} /\ Has(r, "ATN") -> "TADS"
             [] OTHER -> r.t
      ends == "spms" \in r.latch /\ ("swrst" \in r.cmd \/ Ifcin(r) \/ ContR(r))
  IN [r EXCEPT !.t = n, !.changed = @ \/ ends,
               !.serial_p = IF n = "SPAS" /\ r.t # "SPAS" THEN r.serial_p2 ELSE @,
               !.latch = IF ends THEN @ \ {"spms"} ELSE @]

StepT(r) ==
  LET n == CASE TalkerReset(r) -> "TIDS"
             [] ~TalkerReset(r) /\ r.t = "TADS" /\ ~Has(r, "ATN") ->
                  IF "spms" \in r.latch THEN "SPAS" ELSE "TACS"
             [] ~TalkerReset(r) /\ r.t \in {"TACS", "SPAS"} /\ Has(r, "ATN") -> "TADS"
             [] OTHER -> r.t
      ends == "spms" \in r.latch /\ ("swrst" \in r.cmd \/ Ifcin(r) \/ ContR(r))
  IN [r EXCEPT !.t = n, !.changed = @ \/ n # r.t \/ ends,
               !.serial_p = IF n = "SPAS" /\ r.t # "SPAS" THEN r.serial_p2 ELSE @,
               !.latch = IF ends THEN @ \ {"spms"} ELSE @]

\* Listener.
StepL(r) ==
  LET n == CASE ListenerReset(r) -> "LIDS"
             [] ~ListenerReset(r) /\ r.l = "LADS" /\ ~Has(r, "ATN") -> "LACS"
             [] ~ListenerReset(r) /\ r.l = "LACS" /\ Has(r, "ATN") -> "LADS"
             [] OTHER -> r.l
  IN [r EXCEPT !.l = n, !.changed = @ \/ n # r.l]

\* Parallel poll.
\* Mutant: the response register is not copied when the poll begins.
StepPPLate(r) ==
  LET poll == "swrst" \notin r.cmd /\ Has(r, "ATN") /\ Has(r, "EOI") /\ ~ContR(r)
      moved == poll # ("ppas" \in r.latch)
      response == IF poll THEN r.parallel_p2 ELSE r.parallel_p
  IN [r EXCEPT !.latch = Put(@, "ppas", poll), !.changed = @ \/ moved,
               !.parallel_p = response,
               !.dio_byte = IF poll THEN r.parallel_p ELSE @]

StepPP(r) ==
  LET poll == "swrst" \notin r.cmd /\ Has(r, "ATN") /\ Has(r, "EOI") /\ ~ContR(r)
      moved == poll # ("ppas" \in r.latch)
      response == IF poll /\ moved THEN r.parallel_p2 ELSE r.parallel_p
  IN [r EXCEPT !.latch = Put(@, "ppas", poll), !.changed = @ \/ moved,
               !.parallel_p = response,
               !.dio_byte = IF poll THEN @ \cup response ELSE @]

\* Service request.
StepSR(r) ==
  LET served == r.t = "SPAS" /\ r.sh = "STRS" /\ r.sr \in {"APRS1", "APRS2"}
      cmd == IF served THEN r.cmd \ {"rsvd2"} ELSE r.cmd
      wanted == Rsv \in r.serial_p2 \/ "rsvd2" \in cmd
      n == CASE "swrst" \in r.cmd -> "NPRS"
             [] "swrst" \notin r.cmd /\ r.sr = "NPRS" /\ r.t # "SPAS" /\ wanted -> "SRQS"
             [] "swrst" \notin r.cmd /\ r.sr = "SRQS" /\ r.t = "SPAS" -> "APRS1"
             [] "swrst" \notin r.cmd /\ r.sr = "SRQS" /\ r.t # "SPAS" /\ ~wanted -> "NPRS"
             [] "swrst" \notin r.cmd /\ r.sr = "APRS1" /\ ~wanted -> "APRS2"
             [] "swrst" \notin r.cmd /\ r.sr = "APRS2" /\ r.t # "SPAS" -> "NPRS"
             [] OTHER -> r.sr
  IN [r EXCEPT !.sr = n, !.changed = @ \/ n # r.sr,
               !.cmd = IF "swrst" \in r.cmd THEN @ ELSE cmd]

\* Remote/local.
StepRL(r) ==
  LET goes == r.rl # "LOCS" /\ ("swrst" \in r.cmd \/ ~Has(r, "REN"))
  IN [r EXCEPT !.rl = IF goes THEN "LOCS" ELSE @, !.changed = @ \/ goes]

\* Controller.
StepC(r) ==
  LET run == ~ControllerReset(r)
      idle == "c" \notin r.timers
      n == CASE ~run -> "CIDS"
             [] run /\ r.c = "CIDS" /\ "sic" \in r.cmd -> "CADS"
             [] run /\ r.c = "CADS" /\ ~Has(r, "ATN") -> "CACS"
             [] run /\ r.c = "CACS" /\ "rpp" \in r.cmd -> "CPWS"
             [] run /\ r.c = "CACS" /\ "rpp" \notin r.cmd /\ "gts" \in r.cmd /\ ~ShActive(r) -> "CSBS"
             [] run /\ r.c = "CWAS" /\ r.ah = "ANRS" -> "CSHS"
             [] run /\ r.c = "CSHS" /\ idle -> "CSWS"
             [] run /\ r.c = "CSWS" /\ idle -> "CAWS"
             [] run /\ r.c = "CAWS" /\ idle -> "CACS"
             [] run /\ r.c = "CPWS" /\ "rpp" \notin r.cmd -> "CAWS"
             [] OTHER -> r.c
      moved == n # r.c
  IN [r EXCEPT !.c = n, !.changed = @ \/ moved,
               !.sh = IF moved /\ n = "CSBS" THEN "SIDS" ELSE @,
               !.cmd = IF ~run \/ (moved /\ n \in {"CPWS", "CSBS"}) THEN @ \ {"gts"} ELSE @,
               !.timers = CASE ~run -> @ \ {"c"}
                            [] run /\ moved /\ n \in {"CSHS", "CSWS", "CAWS"} -> @ \cup {"c"}
                            [] OTHER -> @,
               !.eoi_signal = @ \/ n = "CPWS"]

(***************************************************************************)
(* Register accesses.  A write yields the chip as the handler leaves it    *)
(* and what it then calls: "fsm" is update_fsm(), "ren" update_ren(), and  *)
(* "sic" the tail of do_aux_cmd(SIC): update_ifc(), SicTail() and          *)
(* update_fsm().                                                           *)
(***************************************************************************)
Then(r, calls) == [r |-> r, calls |-> calls]
Updating(r, update) == Then(r, IF update THEN "fsm" ELSE "nothing")

Differ(x, y, bits) == (x \cap bits) # (y \cap bits)

WriteMask0(r, v) == Then(UpdateInt([r EXCEPT !.mask0 = v \cap Int0Bits]), "nothing")
WriteMask1(r, v) == Then(UpdateInt([r EXCEPT !.mask1 = v]), "nothing")
WriteAddress(r, v) == Updating([r EXCEPT !.address = v], Differ(r.address, v, {Dat, Dal}))
WriteSerialP(r, v) == Updating([r EXCEPT !.serial_p2 = v], Differ(r.serial_p2, v, {Rsv}))
WriteParallelP(r, v) == Then([r EXCEPT !.parallel_p2 = v], "nothing")

\* The EOI generator after a data byte was written, with FEOI given before it or not.
EoiAfterOut(eoi, feoi) ==
  CASE feoi \/ eoi \in {"ENRS", "ERAS"} -> "ERAS"
    [] ~feoi /\ eoi \in {"ENIS", "ENAS"} -> "ENIS"

WriteDO(r, v) ==
  LET r1 == [r EXCEPT !.do = v, !.cmd = @ \ {"next_eoi"}, !.accrq = FALSE]
  IN IF "swrst" \in r.cmd THEN Then(r1, "nothing")
     ELSE Updating([UpdateInt([r1 EXCEPT !.int0 = @ \ {"BO"}]) EXCEPT
                      !.eoi = EoiAfterOut(@, "next_eoi" \in r.cmd),
                      !.latch = @ \ {"shfs"}],
                   ShActive(r) \/ "shfs" \in r.latch)

Latch(r, x, on) == [r EXCEPT !.cmd = Put(@, x, on)]
Unlatch(r, xs) == [r EXCEPT !.latch = @ \ xs]
MoveC(r, c) == [r EXCEPT !.c = c, !.ext_state_change = TRUE]
Running(r) == "swrst" \notin r.cmd

\* With secondary addressing (APT) the cs bit of DACR says whether the address was valid.
SecondaryAddress(r, valid) ==
  LET r1 == IF valid /\ ~ListenerReset(r) /\ "lpas" \in r.latch THEN DoLAF(r) ELSE r
      r2 == IF ~valid /\ r1.t = "TADS" /\ "tpas" \in r1.latch
            THEN [r1 EXCEPT !.t = "TIDS", !.ext_state_change = TRUE] ELSE r1
  IN CASE "APT" \notin r.mask1 -> r
       [] "APT" \in r.mask1 /\ valid /\ ~TalkerReset(r2) /\ "tpas" \in r2.latch -> DoTAF(r2)
       [] OTHER -> r2

\* Mutant: the acceptor stays held off.
DacrKeeps(r, on) == SecondaryAddress(r, on)
\* DACR ends a hold-off.
Dacr(r, on) == SecondaryAddress(Unlatch(r, {"adhs"}), on)

\* The commands of a controller in charge, and the interrupt, shadow and request latches.
ControllerCmd(r, cmd, on) ==
  CASE cmd = "GTS" /\ r.c = "CACS" -> Then(Latch(r, "gts", TRUE), "fsm")
    [] cmd = "TCA" /\ r.c = "CSBS" ->
         Then([MoveC(r, "CSHS") EXCEPT !.timers = @ \cup {"c"}], "fsm")
    [] cmd = "TCS" /\ r.c = "CSBS" -> Then(MoveC(r, "CWAS"), "fsm")
    [] cmd = "RPP" /\ Running(r) -> Updating(Latch(r, "rpp", on), on # ("rpp" \in r.cmd))
    [] cmd = "SIC" /\ on # ("sic" \in r.cmd) -> Then(Latch(r, "sic", on), "sic")
    [] cmd = "SRE" -> Then(Latch(r, "sre", on), "ren")
    [] cmd = "RQC" /\ ~ControllerReset(r) /\ r.c = "CIDS" -> Then(MoveC(r, "CADS"), "fsm")
    [] cmd = "RLC" /\ r.c # "CIDS" -> Then(MoveC(r, "CIDS"), "fsm")
    [] cmd = "DAI" -> Then(UpdateInt(Latch(r, "dai", on)), "nothing")
    [] cmd = "PTS" -> Then(Latch(r, "pts", TRUE), "nothing")
    [] cmd = "SHDW" /\ Running(r) ->
         Updating(IF on THEN Unlatch(Latch(r, "shdw", on), {"anhs"}) ELSE Latch(r, "shdw", on),
                  on /\ "anhs" \in r.latch)
    [] cmd = "RSV2" -> Updating(Latch(r, "rsvd2", on), on # ("rsvd2" \in r.cmd))
    [] OTHER -> Then(r, "nothing")        \* FGET, STDL, VSTDL: not implemented

AuxCmd(r, cmd, on) ==
  CASE cmd = "SWRST" /\ on # ~Running(r) ->
         Then(Latch(IF on THEN Swrst(r) ELSE r, "swrst", on), "fsm")
    [] cmd = "DACR" /\ "adhs" \in r.latch -> Then(Dacr(r, on), "fsm")
    [] cmd = "RHDF" -> Updating(Unlatch(r, {"anhs", "aehs"}), r.latch \cap {"anhs", "aehs"} # {})
    [] cmd = "HDFA" /\ Running(r) -> Then(Latch(r, "hdfa", on), "nothing")
    [] cmd = "HDFE" /\ Running(r) -> Then(Latch(r, "hdfe", on), "nothing")
    [] cmd = "NBAF" -> Updating([r EXCEPT !.eoi = "ENIS", !.latch = @ \cup {"shfs"}],
                                "shfs" \notin r.latch)
    [] cmd = "RTL" /\ on /\ r.rl = "REMS" ->
         Then(SetInt0([Latch(r, "rtl", on) EXCEPT !.rl = "LOCS"], "RLC"), "nothing")
    [] cmd = "RTL" /\ ~(on /\ r.rl = "REMS") -> Then(Latch(r, "rtl", on), "nothing")
    [] cmd = "FEOI" -> Then(Latch(r, "next_eoi", TRUE), "nothing")
    [] cmd = "LON" /\ on -> Then(IF ListenerReset(r) THEN r ELSE DoLAF(r), "fsm")
    [] cmd = "LON" /\ ~on -> Then([r EXCEPT !.l = "LIDS", !.ext_state_change = TRUE], "fsm")
    [] cmd = "TON" /\ on -> Then(IF TalkerReset(r) THEN r ELSE DoTAF(r), "fsm")
    [] cmd = "TON" /\ ~on -> Then([r EXCEPT !.t = "TIDS", !.ext_state_change = TRUE], "fsm")
    [] OTHER -> ControllerCmd(r, cmd, on)

Registers == {"INT_MASK0", "INT_MASK1", "AUX_CMD", "ADDRESS", "SERIAL_P", "PARALLEL_P", "DO"}

\* do_aux_cmd(SIC) between update_ifc() and update_fsm().
SicTail(r) ==
  IF ~ControllerReset(r) /\ "sic" \in r.cmd /\ r.c = "CIDS" THEN MoveC(r, "CADS") ELSE r

Write(r, reg, v) ==
  CASE reg = "INT_MASK0" -> WriteMask0(r, v)
    [] reg = "INT_MASK1" -> WriteMask1(r, v)
    [] reg = "AUX_CMD" -> AuxCmd(r, v[1], v[2])
    [] reg = "ADDRESS" -> WriteAddress(r, v)
    [] reg = "SERIAL_P" -> WriteSerialP(r, v)
    [] reg = "PARALLEL_P" -> WriteParallelP(r, v)
    [] reg = "DO" -> WriteDO(r, v)

\* Reading a status register clears it; reading DI releases the hold-off unless HDFA is on.
ReadInt0(r) == UpdateInt([r EXCEPT !.int0 = {}])
ReadInt1(r) == UpdateInt([r EXCEPT !.int1 = {}])
ReadDI(r) ==
  LET release == "hdfa" \notin r.cmd /\ "anhs" \in r.latch
  IN Updating([UpdateInt([r EXCEPT !.int0 = @ \ {"BI"}]) EXCEPT
                 !.accrq = FALSE, !.latch = IF release THEN @ \ {"anhs"} ELSE @],
              release)

\* The two registers a guest can poll without changing anything.
AddressStatus(r) ==
  (r.latch \cap {"ulpa"})
    \cup (IF r.t # "TIDS" THEN {"TADS"} ELSE {}) \cup (IF r.l # "LIDS" THEN {"LADS"} ELSE {})
    \cup (IF "tpas" \in r.latch THEN {"TPAS"} ELSE {})
    \cup (IF "lpas" \in r.latch THEN {"LPAS"} ELSE {})
    \cup (r.ext \cap {"ATN"})
    \cup (IF r.rl \in {"RWLS", "LWLS"} THEN {"LLO"} ELSE {})
    \cup (IF r.rl \in {"REMS", "RWLS"} THEN {"REM"} ELSE {})
BusStatus(r) == (r.ext \ {"IFC"}) \cup (IF Ifcin(r) THEN {"IFC"} ELSE {})
=============================================================================

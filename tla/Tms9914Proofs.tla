---------------------------- MODULE Tms9914Proofs ----------------------------
(***************************************************************************)
(* A theorem about Tms9914, for any number of chips, any addresses and any *)
(* programs: when no call is in progress every chip knows every line.      *)
(***************************************************************************)
EXTENDS Tms9914, SequenceTheorems, TLAPS

(* What the argument needs of a chip: its lines and its three flags.       *)
Facts == {"own", "ext", "no_reflection", "ext_state_change", "changed", "eoi_signal"}
Chip(r) == Facts \subseteq DOMAIN r

\* From a to b the lines and the flag that update_fsm() runs stay as they are.
Kept(a, b) ==
  /\ DOMAIN b = DOMAIN a
  /\ b.own = a.own /\ b.ext = a.ext /\ b.no_reflection = a.no_reflection

\* So does what asks for another pass.
Quiet(a, b) ==
  /\ Kept(a, b)
  /\ b.ext_state_change = a.ext_state_change /\ b.changed = a.changed

\* A state machine may ask for another pass, in one of the two ways.
Steps(a, b) ==
  /\ Kept(a, b)
  /\ a.changed => b.changed
  /\ b.ext_state_change => a.ext_state_change \/ b.changed

----------------------------------------------------------------------------
(* The operators from chip to chip.                                        *)

\* The two interrupt registers (tms9914.cpp:1597-1632).
LEMMA UpdateIntQuiet == ASSUME NEW r, Chip(r) PROVE Quiet(r, UpdateInt(r))
BY DEF Chip, Facts, Quiet, Kept, UpdateInt

LEMMA SetInt0Quiet == ASSUME NEW r, NEW b, Chip(r) PROVE Quiet(r, SetInt0(r, b))
<1> DEFINE r1 == [r EXCEPT !.int0 = @ \cup {b}]
<1>1. Chip(r1) /\ Quiet(r, r1)
  BY DEF Chip, Facts, Quiet, Kept
<1>2. Quiet(r1, UpdateInt(r1))
  BY <1>1, UpdateIntQuiet
<1> HIDE DEF r1
<1>3. \A x : Chip(x) /\ Quiet(r, x) => Quiet(r, [x EXCEPT !.accrq = @ \/ b = "BI" \/ (b = "BO" /\ r.c # "CACS")])
  BY DEF Chip, Facts, Quiet, Kept
<1> QED
  BY <1>1, <1>2, <1>3 DEF SetInt0, r1, Quiet, Kept, Chip

LEMMA SetInt1Quiet == ASSUME NEW r, NEW b, Chip(r) PROVE Quiet(r, SetInt1(r, b))
<1> DEFINE r1 == [r EXCEPT !.int1 = @ \cup {b}]
<1>1. Chip(r1) /\ Quiet(r, r1)
  BY DEF Chip, Facts, Quiet, Kept
<1> QED
  BY <1>1, UpdateIntQuiet DEF SetInt1, Quiet, Kept

\* Quiet steps and state machines compose.
LEMMA QuietChip == ASSUME NEW a, NEW b, Chip(a), Kept(a, b) PROVE Chip(b)
BY DEF Chip, Kept

LEMMA QuietQuiet == ASSUME NEW a, NEW b, NEW c, Quiet(a, b), Quiet(b, c) PROVE Quiet(a, c)
BY DEF Quiet, Kept

LEMMA StepsSteps == ASSUME NEW a, NEW b, NEW c, Steps(a, b), Steps(b, c) PROVE Steps(a, c)
BY DEF Steps, Kept

LEMMA QuietSteps == ASSUME NEW a, NEW b, Quiet(a, b) PROVE Steps(a, b) /\ Kept(a, b)
BY DEF Steps, Quiet, Kept

(* The interface messages (tms9914.cpp:1183-1386): what they change is the *)
(* roles, the latches and the interrupts, and what asks for another pass.  *)
Turns(a, b) == Kept(a, b) /\ b.changed = a.changed

LEMMA TurnsTurns == ASSUME NEW a, NEW b, NEW c, Turns(a, b), Turns(b, c) PROVE Turns(a, c)
BY DEF Turns, Kept

LEMMA QuietTurns == ASSUME NEW a, NEW b, Quiet(a, b) PROVE Turns(a, b)
BY DEF Turns, Quiet

LEMMA HoldOffQuiet == ASSUME NEW r, NEW b, Chip(r) PROVE Quiet(r, HoldOff(r, b))
<1>1. Quiet(r, SetInt1(r, b))
  BY SetInt1Quiet
<1> DEFINE r1 == SetInt1(r, b)
<1>2. Chip(r1)
  BY <1>1, QuietChip DEF Quiet
<1> HIDE DEF r1
<1>3. \A x : Chip(x) => Quiet(x, [x EXCEPT !.latch = IF b \in r.mask1 THEN @ \cup {"adhs"} ELSE @])
  BY DEF Chip, Facts, Quiet, Kept
<1>4. Quiet(r1, HoldOff(r, b))
  BY <1>2, <1>3 DEF HoldOff, r1
<1> QED
  BY <1>1, <1>4, QuietQuiet DEF r1

LEMMA DoLAFTurns == ASSUME NEW r, Chip(r) PROVE Turns(r, DoLAF(r))
<1> DEFINE r1 == [r EXCEPT !.l = IF @ = "LIDS" THEN "LADS" ELSE @, !.t = "TIDS",
                           !.ext_state_change = @ \/ r.l = "LIDS" \/ r.t # "TIDS"]
           r2 == [r1 EXCEPT !.rl = "RWLS"]
           r3 == [r1 EXCEPT !.rl = "REMS"]
<1>1. /\ Chip(r1) /\ Turns(r, r1)
      /\ Chip(r2) /\ Turns(r, r2)
      /\ Chip(r3) /\ Turns(r, r3)
  BY DEF Chip, Facts, Turns, Kept
<1>2. DoLAF(r) \in {r1, SetInt0(r2, "RLC"), SetInt0(r3, "RLC")}
  BY DEF DoLAF
<1> HIDE DEF r1, r2, r3
<1>3. Turns(r2, SetInt0(r2, "RLC")) /\ Turns(r3, SetInt0(r3, "RLC"))
  BY <1>1, SetInt0Quiet, QuietTurns
<1> QED
  BY <1>1, <1>2, <1>3, TurnsTurns

LEMMA DoTAFTurns == ASSUME NEW r, Chip(r) PROVE Turns(r, DoTAF(r))
BY DEF Chip, Facts, Turns, Kept, DoTAF

LEMMA HeardQuiet ==
  ASSUME NEW r, NEW cmd, NEW latch, Chip(r)
  PROVE  Quiet(r, Heard(r, cmd, latch))
BY DEF Chip, Facts, Quiet, Kept, Heard, TakeUlpa

LEMMA ChangedQuiet ==
  ASSUME NEW r, NEW addressed, Chip(r)
  PROVE  Quiet(r, Changed(r, addressed))
<1>1. Quiet(r, r)
  BY DEF Quiet, Kept
<1> QED
  BY <1>1, SetInt0Quiet DEF Changed

LEMMA MyAddressTurns ==
  ASSUME NEW r, NEW reset, NEW accepted, Chip(r), Turns(r, accepted)
  PROVE  Turns(r, MyAddress(r, reset, accepted))
<1> DEFINE chosen == IF reset THEN r ELSE accepted
<1>1. Chip(chosen) /\ Turns(r, chosen) /\ Turns(r, r)
  BY QuietChip DEF Turns, Kept
<1>2. Turns(r, HoldOff(chosen, "MA"))
  BY <1>1, HoldOffQuiet, QuietTurns, TurnsTurns
<1> QED
  BY <1>1, <1>2 DEF MyAddress

LEMMA IfCmdTurns == ASSUME NEW r0, NEW cmd, Chip(r0) PROVE Turns(r0, IfCmdReceived(r0, cmd))
<1> DEFINE r == IF cmd \cap GroupMask # GroupMask
                THEN [r0 EXCEPT !.latch = @ \ {"lpas", "tpas"}] ELSE r0
<1>1. Chip(r) /\ Turns(r0, r) /\ Turns(r, r)
  BY DEF Chip, Facts, Turns, Kept
<1> HIDE DEF r
<1>2. \A x, b : Chip(x) /\ Turns(r, x) => Turns(r, SetInt0(x, b)) /\ Turns(r, HoldOff(x, b))
  BY SetInt0Quiet, HoldOffQuiet, QuietTurns, TurnsTurns
<1>3. /\ \A rl : Chip([r EXCEPT !.rl = rl]) /\ Turns(r, [r EXCEPT !.rl = rl])
      /\ Chip([r EXCEPT !.l = "LIDS"]) /\ Turns(r, [r EXCEPT !.l = "LIDS"])
      /\ Chip([r EXCEPT !.t = "TIDS"]) /\ Turns(r, [r EXCEPT !.t = "TIDS"])
      /\ Chip([r EXCEPT !.cmd = @ \ {"pts"}]) /\ Turns(r, [r EXCEPT !.cmd = @ \ {"pts"}])
      /\ Turns(r, [r EXCEPT !.latch = @ \cup {"spms"}, !.ext_state_change = TRUE])
      /\ Turns(r, [r EXCEPT !.latch = @ \ {"spms"}, !.ext_state_change = TRUE])
  BY <1>1 DEF Chip, Facts, Turns, Kept
<1>4. \A b, reset, add :
        LET heard == Heard(r, cmd, b) IN
          /\ Turns(r, MyAddress(heard, reset, DoLAF(Changed(heard, add))))
          /\ Turns(r, MyAddress(heard, reset, DoTAF(Changed(heard, add))))
  <2> TAKE b, reset, add
  <2> DEFINE heard == Heard(r, cmd, b)
             x == Changed(heard, add)
  <2>1. Quiet(r, heard) /\ Chip(heard)
    BY <1>1, HeardQuiet, QuietChip DEF Quiet
  <2>2. Quiet(heard, x) /\ Chip(x)
    <3> HIDE DEF heard
    <3> QED
      BY <2>1, ChangedQuiet, QuietChip DEF Quiet
  <2> HIDE DEF heard, x
  <2>3. Turns(heard, DoLAF(x)) /\ Turns(heard, DoTAF(x))
    BY <2>2, DoLAFTurns, DoTAFTurns, QuietTurns, TurnsTurns
  <2>4. Turns(heard, MyAddress(heard, reset, DoLAF(x))) /\ Turns(heard, MyAddress(heard, reset, DoTAF(x)))
    BY <2>1, <2>3, MyAddressTurns
  <2> QED
    BY <2>1, <2>4, QuietTurns, TurnsTurns DEF heard, x
<1>5. Turns(r, IfCmdReceived(r0, cmd))
  BY <1>1, <1>2, <1>3, <1>4, Zenon DEF IfCmdReceived, r
<1> QED
  BY <1>1, <1>5, TurnsTurns

LEMMA DabQuiet ==
  ASSUME NEW r, NEW dab, NEW eoi, Chip(r)
  PROVE  Quiet(r, DabReceived(r, dab, eoi))
<1> DEFINE r1 == [r EXCEPT !.di = dab]
           r2 == IF "shdw" \in r.cmd THEN r1
                 ELSE SetInt0([r1 EXCEPT !.latch = @ \cup {"anhs"}], "BI")
           r3 == IF "shdw" \notin r.cmd /\ eoi THEN SetInt0(r2, "END") ELSE r2
           r4 == IF "hdfe" \in r.cmd /\ eoi THEN [r3 EXCEPT !.latch = @ \cup {"aehs"}] ELSE r3
           x == [r1 EXCEPT !.latch = @ \cup {"anhs"}]
<1>1. Chip(r1) /\ Quiet(r, r1) /\ Chip(x) /\ Quiet(r, x)
  BY DEF Chip, Facts, Quiet, Kept
<1>2. Quiet(r, r2) /\ Chip(r2)
  <2>1. r2 = r1 \/ r2 = SetInt0(x, "BI")
    OBVIOUS
  <2> HIDE DEF r1, r2, x
  <2> QED
    BY <1>1, <2>1, SetInt0Quiet, QuietQuiet, QuietChip DEF Quiet
<1>3. Quiet(r, r3) /\ Chip(r3)
  <2>1. r3 = r2 \/ r3 = SetInt0(r2, "END")
    OBVIOUS
  <2> HIDE DEF r2, r3
  <2> QED
    BY <1>2, <2>1, SetInt0Quiet, QuietQuiet, QuietChip DEF Quiet
<1>4. Quiet(r, r4)
  <2> HIDE DEF r3
  <2>1. Quiet(r3, r4)
    BY <1>3 DEF Chip, Facts, Quiet, Kept
  <2> QED
    BY <1>3, <2>1, QuietQuiet
<1> QED
  BY <1>4 DEF DabReceived

----------------------------------------------------------------------------
(* The state machines (tms9914.cpp:729-1157).                              *)

LEMMA StepSHQuiet ==
  ASSUME NEW r, Chip(r)
  PROVE  /\ Kept(r, StepSH(r)) /\ StepSH(r).ext_state_change = r.ext_state_change
         /\ r.changed => StepSH(r).changed
<1> DEFINE n == ShTarget(r)
           runs == ~ShReset(r)
           r1 == [r EXCEPT
               !.sh = n,
               !.changed = @ \/ n # r.sh,
               !.timers = IF ~runs THEN @ \ {"sh"}
                          ELSE Put(@, "sh", "sh" \in @ \/ (r.sh = "SGNS" /\ n = "SDYS")),
               !.latch = IF runs /\ r.sh = "STRS" /\ r.t # "SPAS" THEN @ \cup {"shfs"} ELSE @,
               !.eoi = CASE runs /\ r.sh = "SDYS" /\ "spms" \notin r.latch /\ @ = "ENRS" -> "ENIS"
                         [] runs /\ r.sh = "SDYS" /\ "spms" \notin r.latch /\ @ = "ERAS" -> "ENAS"
                         [] OTHER -> @]
           r2 == IF n = "SERS" /\ r.sh = "SDYS" THEN SetInt1(r1, "ERR") ELSE r1
           r3 == IF n = "SGNS" /\ r.sh # "SGNS" /\ "shfs" \in r1.latch /\ r.t # "SPAS"
                 THEN SetInt0(r2, "BO") ELSE r2
           r4 == IF r.sh = "STRS" /\ n # "STRS" /\ r.t = "SPAS" /\ r.sr \in {"APRS1", "APRS2"}
                 THEN SetInt0(r3, "SPAS") ELSE r3
           r5 == [r4 EXCEPT !.dio_byte = IF ShActive(r4) THEN OutputByte(r4) ELSE {},
                            !.eoi_signal = ShActive(r4) /\ r4.eoi \in {"ERAS", "ENAS"}]
<1>1. /\ Chip(r1) /\ Kept(r, r1) /\ r1.ext_state_change = r.ext_state_change
      /\ r.changed => r1.changed
  BY DEF Chip, Facts, Kept
<1>2. \A x : Chip(x) => Quiet(x, x)
  BY DEF Quiet, Kept
<1>3. Quiet(r1, r2) /\ Chip(r2)
  <2> HIDE DEF r1
  <2> QED
    BY <1>1, <1>2, SetInt1Quiet, QuietChip DEF Quiet
<1>4. Quiet(r2, r3) /\ Chip(r3)
  <2> HIDE DEF r1, r2
  <2> QED
    BY <1>2, <1>3, SetInt0Quiet, QuietChip DEF Quiet
<1>5. Quiet(r3, r4) /\ Chip(r4)
  <2> HIDE DEF r1, r2, r3
  <2> QED
    BY <1>2, <1>4, SetInt0Quiet, QuietChip DEF Quiet
<1>6. Quiet(r4, r5)
  <2> HIDE DEF r4
  <2> QED
    BY <1>5 DEF Chip, Facts, Quiet, Kept
<1>7. Quiet(r1, r5)
  <2> HIDE DEF r1, r2, r3, r4, r5
  <2> QED
    BY <1>3, <1>4, <1>5, <1>6, QuietQuiet
<1>8. StepSH(r) = r5
  BY DEF StepSH
<1> QED
  <2> HIDE DEF r1, r2, r3, r4, r5
  <2> QED
    BY <1>1, <1>7, <1>8 DEF Quiet, Kept

LEMMA StepAHSteps == ASSUME NEW r, NEW bus, Chip(r) PROVE Steps(r, StepAH(r, bus))
<1> DEFINE n == AhTarget(r)
           moved == n # r.ah
           r1 == [r EXCEPT !.ah = n, !.changed = @ \/ moved,
                      !.timers = CASE moved /\ n \in {"ACRS", "ACDS1"} -> @ \cup {"ah"}
                                   [] AhReset(r) \/ (r.ah = "ACRS" /\ n = "ANRS") -> @ \ {"ah"}
                                   [] OTHER -> @]
<1>1. /\ Chip(r1) /\ Kept(r, r1) /\ r1.ext_state_change = r.ext_state_change
      /\ r.changed => r1.changed
      /\ moved => r1.changed
  BY DEF Chip, Facts, Kept
<1>2. \/ moved /\ StepAH(r, bus) = IfCmdReceived(r1, bus \cap 0..6)
      \/ moved /\ StepAH(r, bus) = DabReceived(r1, bus, Has(r, "EOI"))
      \/ StepAH(r, bus) = r1
  <2> HIDE DEF n
  <2>1. StepAH(r, bus) = CASE moved /\ n = "ACDS2" /\ Has(r, "ATN") -> IfCmdReceived(r1, bus \cap 0..6)
          [] moved /\ n = "ACDS2" /\ ~Has(r, "ATN") -> DabReceived(r1, bus, Has(r, "EOI"))
          [] OTHER -> r1
    BY DEF StepAH, n
  <2> HIDE DEF r1, moved
  <2> QED
    BY <2>1
<1> HIDE DEF r1, moved
<1>3. Turns(r1, IfCmdReceived(r1, bus \cap 0..6)) /\ Turns(r1, DabReceived(r1, bus, Has(r, "EOI")))
  BY <1>1, IfCmdTurns, DabQuiet, QuietTurns
<1> QED
  BY <1>1, <1>2, <1>3 DEF Steps, Turns, Kept

LEMMA StepTSteps == ASSUME NEW r, Chip(r) PROVE Steps(r, StepT(r))
BY DEF Chip, Facts, Steps, Kept, StepT

LEMMA StepLSteps == ASSUME NEW r, Chip(r) PROVE Steps(r, StepL(r))
BY DEF Chip, Facts, Steps, Kept, StepL

LEMMA StepPPSteps == ASSUME NEW r, Chip(r) PROVE Steps(r, StepPP(r))
BY DEF Chip, Facts, Steps, Kept, StepPP

LEMMA StepSRSteps == ASSUME NEW r, Chip(r) PROVE Steps(r, StepSR(r))
BY DEF Chip, Facts, Steps, Kept, StepSR

LEMMA StepRLSteps == ASSUME NEW r, Chip(r) PROVE Steps(r, StepRL(r))
BY DEF Chip, Facts, Steps, Kept, StepRL

LEMMA StepCSteps == ASSUME NEW r, Chip(r) PROVE Steps(r, StepC(r))
BY DEF Chip, Facts, Steps, Kept, StepC

\* The talker, the listener, the parallel poll and the service request in turn.
LEMMA RequestSteps ==
  ASSUME NEW r, Chip(r)
  PROVE  Steps(r, StepSR(StepPP(StepL(StepT(r)))))
<1> DEFINE a == StepT(r)
           b == StepL(a)
           c == StepPP(b)
<1>1. Steps(r, a) /\ Chip(a)
  BY StepTSteps, QuietChip DEF Steps
<1> HIDE DEF a
<1>2. Steps(a, b) /\ Chip(b)
  BY <1>1, StepLSteps, QuietChip DEF Steps
<1> HIDE DEF b
<1>3. Steps(b, c) /\ Chip(c)
  BY <1>2, StepPPSteps, QuietChip DEF Steps
<1> HIDE DEF c
<1>4. Steps(c, StepSR(c))
  BY <1>3, StepSRSteps
<1>5. Steps(r, StepSR(c))
  BY <1>1, <1>2, <1>3, <1>4, StepsSteps
<1> QED
  BY <1>5 DEF a, b, c

\* Remote and local, then the controller.
LEMMA ControllerSteps ==
  ASSUME NEW r, Chip(r)
  PROVE  Steps(r, StepC(StepRL(r)))
<1>1. Steps(r, StepRL(r)) /\ Chip(StepRL(r))
  BY StepRLSteps, QuietChip DEF Steps
<1>2. Steps(StepRL(r), StepC(StepRL(r)))
  BY <1>1, StepCSteps
<1> QED
  BY <1>1, <1>2, StepsSteps

----------------------------------------------------------------------------
(* The registers (tms9914.cpp:287-458): an access leaves the lines alone,  *)
(* and calls update_fsm() last when it asks for a pass.                    *)
Calls == {"nothing", "fsm", "ren", "sic"}
Served(a, result) ==
  /\ Kept(a, result.r)
  /\ result.calls \in Calls
  /\ result.r.ext_state_change => a.ext_state_change \/ result.calls \in {"fsm", "sic"}

LEMMA ThenServed ==
  ASSUME NEW a, NEW r, NEW calls \in Calls, Turns(a, r),
         r.ext_state_change => a.ext_state_change \/ calls \in {"fsm", "sic"}
  PROVE  Served(a, Then(r, calls))
BY DEF Served, Then, Turns

LEMMA UpdatingServed ==
  ASSUME NEW a, NEW r, NEW update, Quiet(a, r)
  PROVE  Served(a, Updating(r, update))
BY DEF Served, Updating, Then, Quiet, Calls

LEMMA SecondaryTurns ==
  ASSUME NEW r, NEW valid, Chip(r)
  PROVE  Turns(r, SecondaryAddress(r, valid))
<1> DEFINE r1 == IF valid /\ ~ListenerReset(r) /\ "lpas" \in r.latch THEN DoLAF(r) ELSE r
           r2 == IF ~valid /\ r1.t = "TADS" /\ "tpas" \in r1.latch
                 THEN [r1 EXCEPT !.t = "TIDS", !.ext_state_change = TRUE] ELSE r1
<1>1. Turns(r, r) /\ Turns(r, DoLAF(r)) /\ Chip(DoLAF(r))
  BY DoLAFTurns, QuietChip DEF Turns, Kept
<1>2. Turns(r, r1) /\ Chip(r1)
  BY <1>1
<1> HIDE DEF r1
<1>3. Turns(r1, r2) /\ Chip(r2)
  BY <1>2 DEF Chip, Facts, Turns, Kept
<1> HIDE DEF r2
<1>4. Turns(r, r2) /\ Turns(r2, DoTAF(r2))
  BY <1>2, <1>3, TurnsTurns, DoTAFTurns
<1>5. Turns(r, DoTAF(r2))
  BY <1>4, TurnsTurns
<1>6. SecondaryAddress(r, valid) \in {r, r2, DoTAF(r2)}
  BY DEF SecondaryAddress, r1, r2
<1> QED
  BY <1>1, <1>4, <1>5, <1>6

LEMMA DacrTurns == ASSUME NEW r, NEW on, Chip(r) PROVE Turns(r, Dacr(r, on))
<1> DEFINE x == Unlatch(r, {"adhs"})
<1>1. Chip(x) /\ Turns(r, x)
  BY DEF Chip, Facts, Turns, Kept, Unlatch
<1> HIDE DEF x
<1>2. Turns(x, SecondaryAddress(x, on))
  BY <1>1, SecondaryTurns
<1> QED
  BY <1>1, <1>2, TurnsTurns DEF Dacr, x

LEMMA LatchQuiet ==
  ASSUME NEW r, Chip(r)
  PROVE  /\ \A x, on : Quiet(r, Latch(r, x, on)) /\ Chip(Latch(r, x, on))
         /\ \A xs : Quiet(r, Unlatch(r, xs)) /\ Chip(Unlatch(r, xs))
         /\ \A c : Turns(r, MoveC(r, c)) /\ Chip(MoveC(r, c))
BY DEF Chip, Facts, Turns, Quiet, Kept, Latch, Unlatch, MoveC

LEMMA SwrstQuiet == ASSUME NEW r, Chip(r) PROVE Quiet(r, Swrst(r)) /\ Chip(Swrst(r))
<1> DEFINE x == [r EXCEPT !.int0 = {}, !.int1 = {}, !.ah = "AIDS", !.sh = "SIDS", !.t = "TIDS",
                      !.eoi = "ENIS", !.l = "LIDS", !.sr = "NPRS", !.rl = "LOCS", !.c = "CIDS",
                      !.latch = (@ \cap {"ulpa"}) \cup {"shfs"}, !.cmd = @ \ {"gts"},
                      !.accrq = FALSE]
<1>1. Chip(x) /\ Quiet(r, x)
  BY DEF Chip, Facts, Quiet, Kept
<1>2. Swrst(r) = UpdateInt(x)
  BY DEF Swrst
<1> HIDE DEF x
<1>3. Quiet(x, UpdateInt(x))
  BY <1>1, UpdateIntQuiet
<1>4. Quiet(r, UpdateInt(x))
  BY <1>1, <1>3, QuietQuiet
<1> QED
  BY <1>2, <1>4, QuietChip DEF Quiet

\* The commands of a controller (tms9914.cpp:1490-1595).
LEMMA ControllerCmdServed ==
  ASSUME NEW r, NEW cmd, NEW on, Chip(r)
  PROVE  Served(r, ControllerCmd(r, cmd, on))
<1>1. \A x, calls : Turns(r, x) /\ calls \in {"fsm", "sic"} => Served(r, Then(x, calls))
  BY ThenServed DEF Calls
<1>2. \A x, calls : Quiet(r, x) /\ calls \in Calls => Served(r, Then(x, calls))
  BY ThenServed, QuietTurns DEF Quiet
<1>3. \A x, update : Quiet(r, x) => Served(r, Updating(x, update))
  BY UpdatingServed
<1>4. Quiet(r, r)
  BY DEF Quiet, Kept
<1>5. \A x, y : Turns(r, MoveC(r, x)) /\ Turns(r, [MoveC(r, x) EXCEPT !.timers = y])
  BY DEF MoveC, Turns, Kept, Chip, Facts
<1>6. Quiet(r, UpdateInt(Latch(r, "dai", on)))
  BY LatchQuiet, UpdateIntQuiet, QuietQuiet
<1>7. Quiet(r, Unlatch(Latch(r, "shdw", on), {"anhs"}))
  BY LatchQuiet, QuietQuiet
<1>8. \A x, y : Quiet(r, Latch(r, x, y))
  BY LatchQuiet
<1>9. Calls = {"nothing", "fsm", "ren", "sic"}
  BY DEF Calls
<1>a. /\ Served(r, Then(Latch(r, "gts", TRUE), "fsm"))
      /\ Served(r, Then([MoveC(r, "CSHS") EXCEPT !.timers = @ \cup {"c"}], "fsm"))
      /\ Served(r, Then(MoveC(r, "CWAS"), "fsm"))
      /\ Served(r, Updating(Latch(r, "rpp", on), on # ("rpp" \in r.cmd)))
      /\ Served(r, Then(Latch(r, "sic", on), "sic"))
      /\ Served(r, Then(Latch(r, "sre", on), "ren"))
      /\ Served(r, Then(MoveC(r, "CADS"), "fsm"))
      /\ Served(r, Then(MoveC(r, "CIDS"), "fsm"))
      /\ Served(r, Then(UpdateInt(Latch(r, "dai", on)), "nothing"))
      /\ Served(r, Then(Latch(r, "pts", TRUE), "nothing"))
      /\ Served(r, Updating(IF on THEN Unlatch(Latch(r, "shdw", on), {"anhs"}) ELSE Latch(r, "shdw", on),
                            on /\ "anhs" \in r.latch))
      /\ Served(r, Updating(Latch(r, "rsvd2", on), on # ("rsvd2" \in r.cmd)))
      /\ Served(r, Then(r, "nothing"))
  BY <1>1, <1>2, <1>3, <1>4, <1>5, <1>6, <1>7, <1>8, <1>9
<1> QED
  BY <1>a, Zenon DEF ControllerCmd

\* The auxiliary commands (tms9914.cpp:1388-1488).
LEMMA AuxCmdServed ==
  ASSUME NEW r, NEW cmd, NEW on, Chip(r)
  PROVE  Served(r, AuxCmd(r, cmd, on))
<1>1. \A x, calls : Turns(r, x) /\ calls \in {"fsm", "sic"} => Served(r, Then(x, calls))
  BY ThenServed DEF Calls
<1>2. \A x, calls : Quiet(r, x) /\ calls \in Calls => Served(r, Then(x, calls))
  BY ThenServed, QuietTurns DEF Quiet
<1>3. \A x, update : Quiet(r, x) => Served(r, Updating(x, update))
  BY UpdatingServed
<1>4. Quiet(r, r) /\ Turns(r, r)
  BY DEF Quiet, Turns, Kept
<1>5. Quiet(r, Latch(IF on THEN Swrst(r) ELSE r, "swrst", on))
  BY SwrstQuiet, LatchQuiet, QuietQuiet
<1>6. Quiet(r, SetInt0([Latch(r, "rtl", on) EXCEPT !.rl = "LOCS"], "RLC"))
  <2>1. Quiet(r, [Latch(r, "rtl", on) EXCEPT !.rl = "LOCS"]) /\ Chip([Latch(r, "rtl", on) EXCEPT !.rl = "LOCS"])
    BY DEF Latch, Chip, Facts, Quiet, Kept
  <2> QED
    BY <2>1, SetInt0Quiet, QuietQuiet
<1>7. /\ Quiet(r, [r EXCEPT !.eoi = "ENIS", !.latch = @ \cup {"shfs"}])
      /\ Turns(r, [r EXCEPT !.l = "LIDS", !.ext_state_change = TRUE])
      /\ Turns(r, [r EXCEPT !.t = "TIDS", !.ext_state_change = TRUE])
  BY DEF Chip, Facts, Quiet, Turns, Kept
<1>8. /\ Turns(r, IF ListenerReset(r) THEN r ELSE DoLAF(r))
      /\ Turns(r, IF TalkerReset(r) THEN r ELSE DoTAF(r))
      /\ Turns(r, Dacr(r, on))
  BY <1>4, DoLAFTurns, DoTAFTurns, DacrTurns
<1>9. /\ \A x, y : Quiet(r, Latch(r, x, y))
      /\ \A x : Quiet(r, Unlatch(r, x))
      /\ Calls = {"nothing", "fsm", "ren", "sic"}
  BY LatchQuiet DEF Calls
<1>a. /\ Served(r, Then(Latch(IF on THEN Swrst(r) ELSE r, "swrst", on), "fsm"))
      /\ Served(r, Then(Dacr(r, on), "fsm"))
      /\ Served(r, Updating(Unlatch(r, {"anhs", "aehs"}), r.latch \cap {"anhs", "aehs"} # {}))
      /\ Served(r, Then(Latch(r, "hdfa", on), "nothing"))
      /\ Served(r, Then(Latch(r, "hdfe", on), "nothing"))
      /\ Served(r, Updating([r EXCEPT !.eoi = "ENIS", !.latch = @ \cup {"shfs"}],
                            "shfs" \notin r.latch))
      /\ Served(r, Then(SetInt0([Latch(r, "rtl", on) EXCEPT !.rl = "LOCS"], "RLC"), "nothing"))
      /\ Served(r, Then(Latch(r, "rtl", on), "nothing"))
      /\ Served(r, Then(Latch(r, "next_eoi", TRUE), "nothing"))
      /\ Served(r, Then(IF ListenerReset(r) THEN r ELSE DoLAF(r), "fsm"))
      /\ Served(r, Then([r EXCEPT !.l = "LIDS", !.ext_state_change = TRUE], "fsm"))
      /\ Served(r, Then(IF TalkerReset(r) THEN r ELSE DoTAF(r), "fsm"))
      /\ Served(r, Then([r EXCEPT !.t = "TIDS", !.ext_state_change = TRUE], "fsm"))
  BY <1>1, <1>2, <1>3, <1>5, <1>6, <1>7, <1>8, <1>9
<1> QED
  BY <1>a, ControllerCmdServed, Zenon DEF AuxCmd

\* A data byte to send (tms9914.cpp:330-363).
LEMMA WriteDOServed == ASSUME NEW r, NEW v, Chip(r) PROVE Served(r, WriteDO(r, v))
<1> DEFINE r1 == [r EXCEPT !.do = v, !.cmd = @ \ {"next_eoi"}, !.accrq = FALSE]
           r2 == [r1 EXCEPT !.int0 = @ \ {"BO"}]
           r3 == UpdateInt(r2)
           r4 == [r3 EXCEPT !.eoi = EoiAfterOut(@, "next_eoi" \in r.cmd), !.latch = @ \ {"shfs"}]
<1>1. Chip(r2) /\ Quiet(r, r2) /\ Quiet(r, r1)
  BY DEF Chip, Facts, Quiet, Kept
<1>2. Chip(r3) /\ Quiet(r, r3)
  <2> HIDE DEF r1, r2
  <2> QED
    BY <1>1, UpdateIntQuiet, QuietQuiet, QuietChip DEF Quiet
<1>3. Quiet(r, r4)
  <2> HIDE DEF r3
  <2> QED
    BY <1>2 DEF Chip, Facts, Quiet, Kept
<1>4. Served(r, Then(r1, "nothing")) /\ Served(r, Updating(r4, ShActive(r) \/ "shfs" \in r.latch))
  <2> HIDE DEF r1, r2, r3, r4
  <2> QED
    BY <1>1, <1>3, UpdatingServed, ThenServed, QuietTurns DEF Calls, Quiet
<1> QED
  BY <1>4, Zenon DEF WriteDO

\* Any write to a register (tms9914.cpp:287-369).
LEMMA WriteServed ==
  ASSUME NEW r, NEW reg \in Registers, NEW v, Chip(r)
  PROVE  Served(r, Write(r, reg, v))
<1>1. \A x : Quiet(r, x) => Served(r, Then(x, "nothing"))
  BY ThenServed, QuietTurns DEF Calls, Quiet
<1>2. \A x, update : Quiet(r, x) => Served(r, Updating(x, update))
  BY UpdatingServed
<1>3. \A x : /\ Quiet(r, [r EXCEPT !.mask0 = x]) /\ Chip([r EXCEPT !.mask0 = x])
             /\ Quiet(r, [r EXCEPT !.mask1 = x]) /\ Chip([r EXCEPT !.mask1 = x])
             /\ Quiet(r, [r EXCEPT !.address = x]) /\ Quiet(r, [r EXCEPT !.serial_p2 = x])
             /\ Quiet(r, [r EXCEPT !.parallel_p2 = x])
  BY DEF Chip, Facts, Quiet, Kept
<1>4. \A x : /\ Quiet(r, UpdateInt([r EXCEPT !.mask0 = x]))
             /\ Quiet(r, UpdateInt([r EXCEPT !.mask1 = x]))
  BY <1>3, UpdateIntQuiet, QuietQuiet
<1>5. /\ Served(r, WriteMask0(r, v)) /\ Served(r, WriteMask1(r, v))
      /\ Served(r, WriteAddress(r, v)) /\ Served(r, WriteSerialP(r, v))
      /\ Served(r, WriteParallelP(r, v))
  BY <1>1, <1>2, <1>3, <1>4, Zenon DEF WriteMask0, WriteMask1, WriteAddress, WriteSerialP, WriteParallelP
<1> QED
  BY <1>5, AuxCmdServed, WriteDOServed, Zenon DEF Write, Registers

\* The registers that are read (tms9914.cpp:376-386, 448-458).
LEMMA ReadServed ==
  ASSUME NEW r, Chip(r)
  PROVE  /\ Served(r, Then(ReadInt0(r), "nothing")) /\ Served(r, Then(ReadInt1(r), "nothing"))
         /\ Served(r, ReadDI(r))
<1> DEFINE a == [r EXCEPT !.int0 = {}]
           b == [r EXCEPT !.int1 = {}]
           c == [r EXCEPT !.int0 = @ \ {"BI"}]
           release == "hdfa" \notin r.cmd /\ "anhs" \in r.latch
<1>1. /\ Chip(a) /\ Quiet(r, a) /\ Chip(b) /\ Quiet(r, b) /\ Chip(c) /\ Quiet(r, c)
  BY DEF Chip, Facts, Quiet, Kept
<1> HIDE DEF a, b, c, release
<1>2. /\ Quiet(r, UpdateInt(a)) /\ Quiet(r, UpdateInt(b))
      /\ Quiet(r, UpdateInt(c)) /\ Chip(UpdateInt(c))
  BY <1>1, UpdateIntQuiet, QuietQuiet, QuietChip DEF Quiet
<1> DEFINE d == UpdateInt(c)
           e == [d EXCEPT !.accrq = FALSE, !.latch = IF release THEN @ \ {"anhs"} ELSE @]
<1>3. Quiet(r, e)
  <2> HIDE DEF d
  <2>1. Quiet(d, e)
    BY <1>2 DEF d, Chip, Facts, Quiet, Kept
  <2> QED
    BY <1>2, <2>1, QuietQuiet DEF d
<1>4. Served(r, Updating(e, release))
  <2> HIDE DEF e
  <2> QED
    BY <1>3, UpdatingServed
<1>5. Served(r, Then(ReadInt0(r), "nothing")) /\ Served(r, Then(ReadInt1(r), "nothing"))
  BY <1>2, ThenServed, QuietTurns DEF ReadInt0, ReadInt1, a, b, Calls, Quiet
<1> QED
  BY <1>4, <1>5, Zenon DEF ReadDI, c, release

----------------------------------------------------------------------------
(* The calls in progress.                                                  *)
Phases == {"AH", "SR", "C", "end"}
Frame ==
  [op : Phases \cup {"update", "srq", "sic"}, d : Devices]
    \cup [op : {"drive"}, d : Devices, s : Signals, v : BOOLEAN]
    \cup [op : {"tell"}, s : Signals]

InPhase(d) == \E i \in DOMAIN stack : stack[i].op \in Phases /\ stack[i].d = d
Telling(s) == \E i \in DOMAIN stack : stack[i].op = "tell" /\ stack[i].s = s
LastUpdates(d) ==
  stack # <<>> /\ stack[Len(stack)].op = "update" /\ stack[Len(stack)].d = d

\* The top of a stack that is not empty.
LEMMA Topmost ==
  ASSUME NEW S, NEW q \in Seq(S), q # <<>>
  PROVE  /\ Head(q) = q[1] /\ Len(q) \in Nat \ {0} /\ DOMAIN q = 1..Len(q)
         /\ (Len(q) = 1 \/ Len(q) > 1)
<1>1. Head(q) = q[1] /\ Len(q) \in Nat \ {0} /\ DOMAIN q = 1..Len(q)
  OBVIOUS
<1> QED
  BY <1>1

\* The frames of the stack once "rest" has replaced the top one, or "first" was called.
FramesReplaced(q, rest, new) ==
  /\ \A i \in DOMAIN q : i # 1 => \E j \in DOMAIN new : new[j] = q[i]
  /\ \A i \in DOMAIN rest : \E j \in DOMAIN new : new[j] = rest[i]
  /\ \A j \in DOMAIN new :
       \/ \E i \in DOMAIN rest : new[j] = rest[i]
       \/ \E i \in DOMAIN q : i # 1 /\ new[j] = q[i]
  /\ Len(q) > 1 => new # <<>> /\ new[Len(new)] = q[Len(q)]
FramesCalled(q, first, new) ==
  /\ \A i \in DOMAIN q : \E j \in DOMAIN new : new[j] = q[i]
  /\ \A j \in DOMAIN new :
       \/ \E i \in DOMAIN first : new[j] = first[i]
       \/ \E i \in DOMAIN q : new[j] = q[i]
  /\ new # <<>> /\ new[Len(new)] = q[Len(q)]

\* What Tail and \o do to them.
LEMMA Replaced ==
  ASSUME NEW S, NEW q \in Seq(S), q # <<>>, NEW rest \in Seq(S), NEW new, new = rest \o Tail(q)
  PROVE  new \in Seq(S) /\ FramesReplaced(q, rest, new)
<1> DEFINE t == Tail(q)
<1>1. /\ t \in Seq(S) /\ Len(q) \in Nat \ {0} /\ Len(t) = Len(q) - 1
      /\ \A i \in 1..(Len(q) - 1) : t[i] = q[i + 1]
      /\ DOMAIN q = 1..Len(q) /\ DOMAIN t = 1..(Len(q) - 1)
  OBVIOUS
<1> HIDE DEF t
<1>2. /\ new = rest \o t
      /\ Len(rest) \in Nat /\ DOMAIN rest = 1..Len(rest)
  BY DEF t
<1>3. /\ new \in Seq(S) /\ Len(new) = Len(rest) + Len(t) /\ DOMAIN new = 1..(Len(rest) + Len(t))
      /\ \A i \in 1..Len(rest) : new[i] = rest[i]
      /\ \A i \in 1..Len(t) : new[Len(rest) + i] = t[i]
  BY <1>1, <1>2
<1>4. \A i \in DOMAIN q : i # 1 => \E j \in DOMAIN new : new[j] = q[i]
  <2> SUFFICES ASSUME NEW i \in DOMAIN q, i # 1
               PROVE  \E j \in DOMAIN new : new[j] = q[i]
    OBVIOUS
  <2>1. /\ i - 1 \in 1..Len(t) /\ t[i - 1] = q[i]
        /\ Len(rest) + (i - 1) \in DOMAIN new
    BY <1>1, <1>2, <1>3
  <2>2. new[Len(rest) + (i - 1)] = t[i - 1]
    BY <1>3, <2>1
  <2> QED
    BY <2>1, <2>2
<1>5. \A i \in DOMAIN rest : \E j \in DOMAIN new : new[j] = rest[i]
  BY <1>1, <1>2, <1>3
<1>6. \A j \in DOMAIN new :
        \/ \E i \in DOMAIN rest : new[j] = rest[i]
        \/ \E i \in DOMAIN q : i # 1 /\ new[j] = q[i]
  <2> SUFFICES ASSUME NEW j \in DOMAIN new, ~(j \in DOMAIN rest)
               PROVE  \E i \in DOMAIN q : i # 1 /\ new[j] = q[i]
    BY <1>2, <1>3
  <2> DEFINE k == j - Len(rest)
  <2>1. k \in 1..Len(t) /\ j = Len(rest) + k /\ k + 1 \in DOMAIN q /\ k + 1 # 1
    BY <1>1, <1>2, <1>3
  <2> HIDE DEF k
  <2>2. new[j] = t[k] /\ t[k] = q[k + 1]
    BY <1>1, <1>3, <2>1
  <2> QED
    BY <2>1, <2>2
<1>7. Len(q) > 1 => new # <<>> /\ new[Len(new)] = q[Len(q)]
  <2> SUFFICES ASSUME Len(q) > 1 PROVE new # <<>> /\ new[Len(new)] = q[Len(q)]
    OBVIOUS
  <2>1. Len(t) \in 1..Len(t) /\ Len(t) \in 1..(Len(q) - 1) /\ Len(t) + 1 = Len(q)
    BY <1>1
  <2>2. new[Len(new)] = t[Len(t)] /\ t[Len(t)] = q[Len(q)]
    BY <1>1, <1>3, <2>1
  <2>3. Len(new) # 0
    BY <1>1, <1>2, <1>3
  <2> QED
    BY <2>2, <2>3, EmptySeq
<1> QED
  BY <1>3, <1>4, <1>5, <1>6, <1>7, Zenon DEF FramesReplaced

LEMMA Called ==
  ASSUME NEW S, NEW q \in Seq(S), q # <<>>, NEW first \in Seq(S), NEW new, new = first \o q
  PROVE  new \in Seq(S) /\ FramesCalled(q, first, new)
<1>1. /\ Len(q) \in Nat \ {0} /\ DOMAIN q = 1..Len(q)
      /\ Len(first) \in Nat /\ DOMAIN first = 1..Len(first)
  BY EmptySeq
<1>2. /\ new \in Seq(S) /\ Len(new) = Len(first) + Len(q) /\ DOMAIN new = 1..(Len(first) + Len(q))
      /\ \A i \in 1..Len(first) : new[i] = first[i]
      /\ \A i \in 1..Len(q) : new[Len(first) + i] = q[i]
  BY <1>1
<1>3. \A i \in DOMAIN q : \E j \in DOMAIN new : new[j] = q[i]
  <2> TAKE i \in DOMAIN q
  <2> WITNESS Len(first) + i \in DOMAIN new
  <2> QED
    BY <1>1, <1>2
<1>4. \A j \in DOMAIN new :
        \/ \E i \in DOMAIN first : new[j] = first[i]
        \/ \E i \in DOMAIN q : new[j] = q[i]
  <2> SUFFICES ASSUME NEW j \in DOMAIN new, ~(j \in DOMAIN first)
               PROVE  \E i \in DOMAIN q : new[j] = q[i]
    BY <1>1, <1>2
  <2> DEFINE k == j - Len(first)
  <2>1. k \in 1..Len(q) /\ j = Len(first) + k
    BY <1>1, <1>2
  <2> HIDE DEF k
  <2> QED
    BY <1>1, <1>2, <2>1
<1>5. new # <<>> /\ new[Len(new)] = q[Len(q)]
  <2>1. Len(q) \in 1..Len(q) /\ Len(new) # 0
    BY <1>1, <1>2
  <2> QED
    BY <1>1, <1>2, <2>1, EmptySeq
<1> QED
  BY <1>2, <1>3, <1>4, <1>5, Zenon DEF FramesCalled

----------------------------------------------------------------------------
(* The inductive invariant.                                                *)

\* Shapes: the frames, the lines, and where a processor is in its program.
Shapes ==
  /\ stack \in Seq(Frame)
  /\ DOMAIN dev = Devices
  /\ \A d \in Devices : Chip(dev[d]) /\ dev[d].own \subseteq Signals /\ dev[d].ext \subseteq Signals
  /\ scenario \in Scenarios
  /\ DOMAIN pc = Devices
  /\ \A d \in Devices : pc[d] \in 0..Len(scenario[d])

\* A chip inside update_fsm() still has a phase to run.
Inside == \A d \in Devices : dev[d].no_reflection => InPhase(d)

\* A chip whose copy of a line is stale is told before set_signal() returns.
Told == \A d \in Devices : \A s \in Signals : ~(Has(dev[d], s) <=> Level(s)) => Telling(s)

\* The tail of an SIC command is followed by update_fsm() of the same chip, the outermost call.
SicLast ==
  \A d \in Devices : \A i \in DOMAIN stack :
    stack[i].op = "sic" /\ stack[i].d = d => LastUpdates(d)

\* A change a chip has not looked at is looked at by the pass that ends after it, or by the
\* outermost call.
Owed ==
  \A d \in Devices :
    dev[d].ext_state_change => LastUpdates(d) \/ (dev[d].changed /\ InPhase(d))

BusInv == Shapes /\ Inside /\ Told /\ SicLast /\ Owed

\* The invariant holds when nothing has happened (tms9914.cpp:476-596).
LEMMA InitBus == Init => BusInv
<1> SUFFICES ASSUME Init PROVE BusInv
  OBVIOUS
<1> DEFINE p == PowerOn
<1>1. /\ Chip(p) /\ p.own = {} /\ p.ext = {}
      /\ p.no_reflection = FALSE /\ p.ext_state_change = FALSE
  <2> DEFINE q == [own |-> {}, ext |-> {}, no_reflection |-> FALSE, ext_state_change |-> FALSE,
         changed |-> FALSE, eoi_signal |-> FALSE, dio_byte |-> {},
         int0 |-> {}, mask0 |-> {}, int1 |-> {}, mask1 |-> {}, int_line |-> FALSE,
         accrq |-> TRUE, address |-> {}, serial_p |-> {}, serial_p2 |-> {},
         parallel_p |-> {}, parallel_p2 |-> {}, di |-> {}, do |-> {}, dio |-> {},
         cmd |-> {}, latch |-> {}, ah |-> "AIDS", sh |-> "SIDS", t |-> "TIDS",
         eoi |-> "ENIS", l |-> "LIDS", sr |-> "NPRS", rl |-> "LOCS", c |-> "CIDS",
         timers |-> {}]
  <2>1. /\ Chip(q) /\ q.own = {} /\ q.ext = {}
        /\ q.no_reflection = FALSE /\ q.ext_state_change = FALSE
    BY DEF Chip, Facts
  <2>2. p = Swrst(q)
    BY DEF PowerOn
  <2> HIDE DEF p, q
  <2>3. Quiet(q, p) /\ Chip(p)
    BY <2>1, <2>2, SwrstQuiet
  <2> QED
    BY <2>1, <2>3 DEF Quiet, Kept
<1> HIDE DEF p
<1>2. \A d \in Devices : /\ Chip(dev[d]) /\ dev[d].own = {} /\ dev[d].ext = {}
                         /\ dev[d].no_reflection = FALSE /\ dev[d].ext_state_change = FALSE
  <2> SUFFICES ASSUME NEW d \in Devices
               PROVE  /\ Chip(dev[d]) /\ dev[d].own = {} /\ dev[d].ext = {}
                      /\ dev[d].no_reflection = FALSE /\ dev[d].ext_state_change = FALSE
    OBVIOUS
  <2>1. dev[d] = [p EXCEPT !.address = Address[d]]
    BY DEF Init, p
  <2> QED
    BY <1>1, <2>1 DEF Chip, Facts
<1>3. Shapes
  <2>1. stack = <<>> /\ stack \in Seq(Frame)
    BY DEF Init
  <2>2. /\ DOMAIN dev = Devices /\ DOMAIN pc = Devices /\ scenario \in Scenarios
        /\ \A d \in Devices : pc[d] \in 0..Len(scenario[d])
    BY ScenarioAssumption DEF Init
  <2> QED
    BY <1>2, <2>1, <2>2 DEF Shapes
<1>4. Inside /\ Owed
  BY <1>2 DEF Inside, Owed
<1>5. Told
  BY <1>2 DEF Told, Has, Level
<1>6. SicLast
  BY DEF Init, SicLast
<1> QED
  BY <1>3, <1>4, <1>5, <1>6 DEF BusInv

\* A call that changes neither a line nor a copy of one.
LEMMA ChipStep ==
  ASSUME BusInv, stack # <<>>, NEW d \in Devices, NEW r, NEW rest \in Seq(Frame),
         Replace(d, r, rest),
         Head(stack).op # "tell", Head(stack).d = d,
         DOMAIN r = DOMAIN dev[d], r.own = dev[d].own, r.ext = dev[d].ext,
         \A i \in DOMAIN rest : rest[i].op # "sic",
         r.no_reflection =>
           \/ \E i \in DOMAIN rest : rest[i].op \in Phases /\ rest[i].d = d
           \/ dev[d].no_reflection /\ Head(stack).op \notin Phases,
         r.ext_state_change =>
           \/ r.changed /\ \E i \in DOMAIN rest : rest[i].op \in Phases /\ rest[i].d = d
           \/ r.changed /\ InPhase(d) /\ Head(stack).op \notin Phases
           \/ LastUpdates(d) /\ Len(stack) > 1
  PROVE  BusInv'
<1>1. /\ stack \in Seq(Frame) /\ DOMAIN dev = Devices /\ stack' = rest \o Tail(stack)
      /\ dev' = [dev EXCEPT ![d] = r] /\ UNCHANGED guests
  BY DEF BusInv, Shapes, Replace
<1>2. /\ stack' \in Seq(Frame)
      /\ \A i \in DOMAIN stack : i # 1 => \E j \in DOMAIN stack' : stack'[j] = stack[i]
      /\ \A i \in DOMAIN rest : \E j \in DOMAIN stack' : stack'[j] = rest[i]
      /\ \A j \in DOMAIN stack' :
           \/ \E i \in DOMAIN rest : stack'[j] = rest[i]
           \/ \E i \in DOMAIN stack : i # 1 /\ stack'[j] = stack[i]
      /\ Len(stack) > 1 => stack' # <<>> /\ stack'[Len(stack')] = stack[Len(stack)]
  <2>1. stack' \in Seq(Frame) /\ FramesReplaced(stack, rest, stack')
    BY <1>1, Replaced, Zenon
  <2> QED
    BY <2>1, Zenon DEF FramesReplaced
<1>3. /\ Head(stack) = stack[1] /\ Len(stack) \in Nat \ {0} /\ DOMAIN stack = 1..Len(stack)
      /\ (Len(stack) = 1 \/ Len(stack) > 1)
  BY <1>1, Topmost, Zenon
<1>4. /\ dev'[d] = r /\ DOMAIN dev' = Devices
      /\ \A e \in Devices : e # d => dev'[e] = dev[e]
  BY <1>1
<1>5. \A e \in Devices : dev'[e].own = dev[e].own /\ dev'[e].ext = dev[e].ext /\ DOMAIN dev'[e] = DOMAIN dev[e]
  BY <1>4
<1>6. Shapes'
  BY <1>1, <1>2, <1>4, <1>5 DEF BusInv, Shapes, Chip, guests
<1>7. \A e \in Devices : (e # d \/ Head(stack).op \notin Phases) /\ InPhase(e) => InPhase(e)'
  BY <1>2, <1>3 DEF InPhase
<1>8. Inside'
  <2> SUFFICES ASSUME NEW e \in Devices, dev'[e].no_reflection PROVE InPhase(e)'
    BY DEF Inside
  <2>1. CASE e = d
    BY <1>2, <1>4, <1>7, <2>1 DEF BusInv, Inside, InPhase
  <2>2. CASE e # d
    BY <1>4, <1>7, <2>2 DEF BusInv, Inside
  <2> QED
    BY <2>1, <2>2
<1>9. Told'
  <2> SUFFICES ASSUME NEW e \in Devices, NEW s \in Signals, ~(Has(dev'[e], s) <=> Level(s)')
               PROVE  Telling(s)'
    BY DEF Told
  <2>1. (Has(dev'[e], s) <=> Has(dev[e], s)) /\ (Level(s)' <=> Level(s))
    BY <1>5 DEF Has, Level
  <2>2. Telling(s)
    BY <2>1 DEF BusInv, Told
  <2> QED
    BY <1>2, <1>3, <2>2 DEF Telling
<1>a. \A e \in Devices : Len(stack) > 1 /\ LastUpdates(e) => LastUpdates(e)'
  BY <1>2 DEF LastUpdates
<1>b. SicLast'
  <2> SUFFICES ASSUME NEW e \in Devices, NEW j \in DOMAIN stack',
                      stack'[j].op = "sic", stack'[j].d = e
               PROVE  LastUpdates(e)'
    BY DEF SicLast
  <2>1. PICK i \in DOMAIN stack : i # 1 /\ stack'[j] = stack[i]
    BY <1>2
  <2>2. Len(stack) > 1 /\ LastUpdates(e)
    BY <1>3, <2>1 DEF BusInv, SicLast
  <2> QED
    BY <1>a, <2>2
<1>c. Owed'
  <2> SUFFICES ASSUME NEW e \in Devices, dev'[e].ext_state_change
               PROVE  LastUpdates(e)' \/ (dev'[e].changed /\ InPhase(e)')
    BY DEF Owed
  <2>1. CASE e = d
    <3>1. r.ext_state_change
      BY <1>4, <2>1
    <3>2. CASE r.changed /\ \E i \in DOMAIN rest : rest[i].op \in Phases /\ rest[i].d = d
      BY <1>2, <1>4, <2>1, <3>2 DEF InPhase
    <3>3. CASE r.changed /\ InPhase(d) /\ Head(stack).op \notin Phases
      BY <1>4, <1>7, <2>1, <3>3
    <3>4. CASE LastUpdates(d) /\ Len(stack) > 1
      BY <1>a, <2>1, <3>4
    <3> QED
      BY <3>1, <3>2, <3>3, <3>4
  <2>2. CASE e # d
    <3>1. CASE LastUpdates(e)
      <4>1. Len(stack) > 1
        BY <1>3, <2>2, <3>1 DEF LastUpdates
      <4> QED
        BY <1>a, <3>1, <4>1
    <3>2. CASE dev[e].changed /\ InPhase(e)
      BY <1>4, <1>7, <2>2, <3>2
    <3>3. dev[e].ext_state_change
      BY <1>4, <2>2
    <3> QED
      BY <3>1, <3>2, <3>3 DEF BusInv, Owed
  <2> QED
    BY <2>1, <2>2
<1> QED
  BY <1>6, <1>8, <1>9, <1>b, <1>c DEF BusInv

----------------------------------------------------------------------------
(* The calls update_fsm() makes (tms9914.cpp:645-660, 710-1168).           *)
DriveFrame == [op : {"drive"}, d : Devices, s : Signals, v : BOOLEAN]

LEMMA SetSignalFrames ==
  ASSUME NEW d \in Devices, NEW r, NEW s \in Signals, NEW v \in BOOLEAN
  PROVE  SetSignal(d, r, s, v) \in Seq(DriveFrame)
<1>1. [op |-> "drive", d |-> d, s |-> s, v |-> v] \in DriveFrame
  BY DEF DriveFrame
<1> DEFINE f == [op |-> "drive", d |-> d, s |-> s, v |-> v]
<1>2. <<f>> \in Seq(DriveFrame) /\ <<>> \in Seq(DriveFrame)
  <2> HIDE DEF f
  <2>1. f \in DriveFrame
    BY <1>1 DEF f
  <2> QED
    BY <2>1
<1> QED
  BY <1>2 DEF SetSignal

LEMMA DrivesFrames ==
  ASSUME NEW d \in Devices, NEW r, NEW m \in {"SH", "AH", "SR", "C"},
         m = "C" => r.eoi_signal \in BOOLEAN
  PROVE  Drives(d, r, m) \in Seq(DriveFrame)
<1>1. \A s \in Signals : \A v \in BOOLEAN : SetSignal(d, r, s, v) \in Seq(DriveFrame)
  BY SetSignalFrames
<1>2. {"DAV", "NRFD", "NDAC", "SRQ", "ATN", "EOI"} \subseteq Signals
  BY DEF Signals
<1>3. /\ SetSignal(d, r, "DAV", r.sh = "STRS") \in Seq(DriveFrame)
      /\ SetSignal(d, r, "NRFD", r.ah \in {"ANRS", "ACDS1", "ACDS2", "AWNS"}) \in Seq(DriveFrame)
      /\ SetSignal(d, r, "NDAC", r.ah \in {"ANRS", "ACRS", "ACDS1", "ACDS2"}) \in Seq(DriveFrame)
      /\ SetSignal(d, r, "SRQ", r.sr = "SRQS") \in Seq(DriveFrame)
      /\ SetSignal(d, r, "ATN", r.c \in {"CACS", "CSWS", "CAWS", "CPWS"}) \in Seq(DriveFrame)
      /\ m = "C" => SetSignal(d, r, "EOI", r.eoi_signal) \in Seq(DriveFrame)
  <2>1. /\ (r.sh = "STRS") \in BOOLEAN /\ (r.sr = "SRQS") \in BOOLEAN
        /\ (r.ah \in {"ANRS", "ACDS1", "ACDS2", "AWNS"}) \in BOOLEAN
        /\ (r.ah \in {"ANRS", "ACRS", "ACDS1", "ACDS2"}) \in BOOLEAN
        /\ (r.c \in {"CACS", "CSWS", "CAWS", "CPWS"}) \in BOOLEAN
    OBVIOUS
  <2>2. /\ "DAV" \in Signals /\ "NRFD" \in Signals /\ "NDAC" \in Signals
        /\ "SRQ" \in Signals /\ "ATN" \in Signals /\ "EOI" \in Signals
    BY <1>2
  <2> QED
    BY <1>1, <2>1, <2>2, Zenon
<1>4. \A a, b \in Seq(DriveFrame) : a \o b \in Seq(DriveFrame)
  OBVIOUS
<1>5. /\ SetSignal(d, r, "NRFD", r.ah \in {"ANRS", "ACDS1", "ACDS2", "AWNS"})
           \o SetSignal(d, r, "NDAC", r.ah \in {"ANRS", "ACRS", "ACDS1", "ACDS2"}) \in Seq(DriveFrame)
      /\ m = "C" =>
           SetSignal(d, r, "ATN", r.c \in {"CACS", "CSWS", "CAWS", "CPWS"})
             \o SetSignal(d, r, "EOI", r.eoi_signal) \in Seq(DriveFrame)
  BY <1>3, <1>4
<1> QED
  BY <1>3, <1>5, Zenon DEF Drives

\* A sequence of calls of set_signal() and one call of another kind after it.
LEMMA CallFrames ==
  ASSUME NEW a \in Seq(DriveFrame), NEW d \in Devices,
         NEW op \in Phases \cup {"update", "srq", "sic"}
  PROVE  /\ a \o Call(op, d) \in Seq(Frame) /\ a \in Seq(Frame) /\ Call(op, d) \in Seq(Frame)
         /\ \A i \in DOMAIN (a \o Call(op, d)) : i # Len(a) + 1 => (a \o Call(op, d))[i].op = "drive"
         /\ Len(a) + 1 \in DOMAIN (a \o Call(op, d)) /\ Len(a \o Call(op, d)) = Len(a) + 1
         /\ (a \o Call(op, d))[Len(a) + 1] = [op |-> op, d |-> d]
<1> DEFINE f == [op |-> op, d |-> d]
           b == <<f>>
<1>1. f \in Frame
  BY DEF Frame
<1>2. \A x \in DriveFrame : x \in Frame /\ x.op = "drive"
  BY DEF Frame, DriveFrame
<1>3. a \in Seq(Frame)
  BY <1>2
<1> HIDE DEF f
<1>4. b \in Seq(Frame) /\ Len(b) = 1 /\ b[1] = f
  BY <1>1
<1>5. Call(op, d) = b
  BY DEF Call, f
<1> HIDE DEF b
<1>6. /\ a \o b \in Seq(Frame) /\ Len(a \o b) = Len(a) + 1 /\ DOMAIN (a \o b) = 1..(Len(a) + 1)
      /\ Len(a) \in Nat
      /\ \A i \in 1..Len(a) : (a \o b)[i] = a[i] /\ a[i] \in DriveFrame
      /\ (a \o b)[Len(a) + 1] = b[1]
  <2>1. a \o b \in Seq(Frame) /\ Len(a \o b) = Len(a) + Len(b) /\ Len(a) \in Nat
        /\ \A i \in 1..(Len(a) + Len(b)) :
             (a \o b)[i] = IF i <= Len(a) THEN a[i] ELSE b[i - Len(a)]
    BY <1>3, <1>4, ConcatProperties
  <2>2. DOMAIN (a \o b) = 1..Len(a \o b)
    BY <2>1
  <2>3. \A i \in 1..Len(a) : a[i] \in DriveFrame
    OBVIOUS
  <2> DEFINE q == a \o b
  <2> HIDE DEF q
  <2>4. /\ Len(q) = Len(a) + 1 /\ DOMAIN q = 1..(Len(a) + 1)
        /\ \A i \in 1..Len(a) : q[i] = a[i]
        /\ q[Len(a) + 1] = b[1]
    BY <1>4, <2>1, <2>2 DEF q
  <2> QED
    BY <2>1, <2>3, <2>4 DEF q
<1>7. \A i \in 1..(Len(a) + 1) : i # Len(a) + 1 => i \in 1..Len(a)
  BY <1>6
<1>8. \A i \in DOMAIN (a \o b) : i # Len(a) + 1 => (a \o b)[i].op = "drive"
  BY <1>2, <1>6, <1>7
<1> QED
  BY <1>3, <1>4, <1>5, <1>6, <1>8 DEF f

\* What a phase of update_fsm() leaves to do.
LEMMA PhaseFrames ==
  ASSUME NEW a \in Seq(DriveFrame), NEW d \in Devices, NEW op \in Phases
  PROVE  /\ a \o Call(op, d) \in Seq(Frame)
         /\ \A i \in DOMAIN (a \o Call(op, d)) : (a \o Call(op, d))[i].op # "sic"
         /\ \E i \in DOMAIN (a \o Call(op, d)) :
              (a \o Call(op, d))[i].op \in Phases /\ (a \o Call(op, d))[i].d = d
<1> DEFINE q == a \o Call(op, d)
<1>1. /\ q \in Seq(Frame) /\ Len(a) + 1 \in DOMAIN q
      /\ \A i \in DOMAIN q : i # Len(a) + 1 => q[i].op = "drive"
      /\ q[Len(a) + 1] = [op |-> op, d |-> d]
  BY CallFrames
<1> HIDE DEF q
<1>2. q[Len(a) + 1].op = op /\ q[Len(a) + 1].d = d /\ op # "sic"
  BY <1>1 DEF Phases
<1>3. \A i \in DOMAIN q : q[i].op # "sic"
  BY <1>1, <1>2
<1>4. \E i \in DOMAIN q : q[i].op \in Phases /\ q[i].d = d
  BY <1>1, <1>2
<1> QED
  BY <1>1, <1>3, <1>4 DEF q

\* The innermost call is a frame.
LEMMA HeadIsFrame ==
  ASSUME BusInv, stack # <<>>
  PROVE  /\ Head(stack) \in Frame
         /\ Head(stack).op \in Phases \cup {"update", "srq", "sic", "drive"} => Head(stack).d \in Devices
         /\ Head(stack).op = "drive" => Head(stack).s \in Signals
         /\ Head(stack).op = "tell" => Head(stack).s \in Signals
<1>1. Head(stack) \in Frame
  <2>1. stack \in Seq(Frame)
    BY DEF BusInv, Shapes
  <2> QED
    BY <2>1
<1> DEFINE f == Head(stack)
<1> HIDE DEF f
<1>2. f \in Frame => /\ f.op \in Phases \cup {"update", "srq", "sic", "drive"} => f.d \in Devices
                     /\ f.op = "drive" => f.s \in Signals
                     /\ f.op = "tell" => f.s \in Signals
  BY DEF Frame, Phases
<1> QED
  BY <1>1, <1>2 DEF f

----------------------------------------------------------------------------
(* One step of a cascade.                                                  *)

\* A pass begins; whatever the chip was owed, it looks at now.
LEMMA PassStep ==
  ASSUME BusInv, stack # <<>>, NEW d \in Devices, NEW r, Pass(d, r),
         Head(stack).op # "tell", Head(stack).d = d,
         DOMAIN r = DOMAIN dev[d], r.own = dev[d].own, r.ext = dev[d].ext
  PROVE  BusInv'
<1> DEFINE r0 == [r EXCEPT !.no_reflection = TRUE, !.changed = r.ext_state_change,
                           !.ext_state_change = FALSE]
           r1 == StepSH(r0)
           rest == Drives(d, r1, "SH") \o Call("AH", d)
<1>1. Chip(dev[d])
  BY DEF BusInv, Shapes
<1>2. /\ Chip(r0) /\ DOMAIN r0 = DOMAIN dev[d] /\ r0.own = dev[d].own /\ r0.ext = dev[d].ext
      /\ r0.ext_state_change = FALSE
  BY <1>1 DEF Chip, Facts
<1> HIDE DEF r0
<1>3. /\ DOMAIN r1 = DOMAIN dev[d] /\ r1.own = dev[d].own /\ r1.ext = dev[d].ext
      /\ r1.ext_state_change = FALSE
  BY <1>2, StepSHQuiet DEF Kept
<1>5. Replace(d, r1, rest)
  BY DEF Pass, r0
<1> HIDE DEF r1
<1>6. Drives(d, r1, "SH") \in Seq(DriveFrame)
  BY DrivesFrames
<1>7. /\ rest \in Seq(Frame)
      /\ \A i \in DOMAIN rest : rest[i].op # "sic"
      /\ \E i \in DOMAIN rest : rest[i].op \in Phases /\ rest[i].d = d
  BY <1>6, PhaseFrames DEF Phases
<1> HIDE DEF rest
<1> QED
  BY <1>3, <1>5, <1>7, ChipStep

\* A phase of a pass, and the lines it drives.
LEMMA PhaseStep ==
  ASSUME BusInv, stack # <<>>, NEW d \in Devices, NEW r, NEW m \in {"SH", "AH", "SR", "C"},
         NEW op \in Phases, Steps(dev[d], r), m = "C" => r.eoi_signal \in BOOLEAN,
         Replace(d, r, Drives(d, r, m) \o Call(op, d)),
         Head(stack).op \in Phases, Head(stack).d = d
  PROVE  BusInv'
<1> DEFINE rest == Drives(d, r, m) \o Call(op, d)
<1>1. Drives(d, r, m) \in Seq(DriveFrame)
  BY DrivesFrames
<1>2. /\ rest \in Seq(Frame)
      /\ \A i \in DOMAIN rest : rest[i].op # "sic"
      /\ \E i \in DOMAIN rest : rest[i].op \in Phases /\ rest[i].d = d
  BY <1>1, PhaseFrames
<1> HIDE DEF rest
<1>3. Replace(d, r, rest) /\ Head(stack).op # "tell"
  BY DEF rest, Phases
<1>4. LastUpdates(d) => Len(stack) > 1
  <2>1. stack \in Seq(Frame)
    BY DEF BusInv, Shapes
  <2>2. /\ Head(stack) = stack[1] /\ Len(stack) \in Nat \ {0}
        /\ (Len(stack) = 1 \/ Len(stack) > 1)
    BY <2>1, Topmost, Zenon
  <2> QED
    BY <2>2 DEF LastUpdates, Phases
<1>5. r.ext_state_change =>
        \/ r.changed /\ \E i \in DOMAIN rest : rest[i].op \in Phases /\ rest[i].d = d
        \/ LastUpdates(d) /\ Len(stack) > 1
  <2>1. dev[d].ext_state_change => LastUpdates(d) \/ dev[d].changed
    BY DEF BusInv, Owed
  <2> QED
    BY <1>2, <1>4, <2>1 DEF Steps
<1>6. DOMAIN r = DOMAIN dev[d] /\ r.own = dev[d].own /\ r.ext = dev[d].ext
  BY DEF Steps, Kept
<1> QED
  BY <1>2, <1>3, <1>5, <1>6, ChipStep

LEMMA UpdateStep == BusInv /\ Update => BusInv'
<1> SUFFICES ASSUME BusInv, Update PROVE BusInv'
  OBVIOUS
<1> DEFINE d == Head(stack).d
           r == dev[d]
<1>1. stack # <<>> /\ Head(stack).op = "update" /\ d \in Devices
  BY HeadIsFrame DEF Update, Top
<1> HIDE DEF d
<1>2. CASE r.no_reflection
  <2>1. Replace(d, r, <<>>)
    BY <1>2 DEF Update, d
  <2>2. \/ ~r.ext_state_change
        \/ r.changed /\ InPhase(d)
        \/ LastUpdates(d) /\ Len(stack) > 1
    <3>1. InPhase(d)
      BY <1>1, <1>2 DEF BusInv, Inside
    <3>2. Len(stack) > 1
      <4>1. stack \in Seq(Frame)
        BY DEF BusInv, Shapes
      <4>2. /\ Head(stack) = stack[1] /\ DOMAIN stack = 1..Len(stack)
            /\ (Len(stack) = 1 \/ Len(stack) > 1)
        BY <1>1, <4>1, Topmost, Zenon
      <4> QED
        BY <1>1, <3>1, <4>2 DEF InPhase, Phases
    <3>3. r.ext_state_change => LastUpdates(d) \/ (r.changed /\ InPhase(d))
      BY <1>1 DEF BusInv, Owed
    <3> QED
      BY <3>1, <3>2, <3>3
  <2>3. <<>> \in Seq(Frame) /\ \A i \in DOMAIN <<>> : <<>>[i].op # "sic"
    OBVIOUS
  <2>4. Head(stack).op \notin Phases /\ Head(stack).op # "tell" /\ Head(stack).d = d
    BY <1>1 DEF Phases, d
  <2> HIDE DEF r
  <2>5. DOMAIN r = DOMAIN dev[d] /\ r.own = dev[d].own /\ r.ext = dev[d].ext
    BY DEF r
  <2>6. r.no_reflection => dev[d].no_reflection /\ Head(stack).op \notin Phases
    BY <2>4 DEF r
  <2> QED
    BY <1>1, <2>1, <2>2, <2>3, <2>4, <2>5, <2>6, ChipStep
<1>3. CASE ~r.no_reflection
  <2>1. Pass(d, r)
    BY <1>3 DEF Update, d
  <2>2. Head(stack).op # "tell" /\ Head(stack).d = d
    BY <1>1 DEF d
  <2> QED
    BY <1>1, <2>1, <2>2, PassStep
<1> QED
  BY <1>2, <1>3

LEMMA AcceptorStep == BusInv /\ AcceptorPhase => BusInv'
<1> SUFFICES ASSUME BusInv, AcceptorPhase PROVE BusInv'
  OBVIOUS
<1> DEFINE d == Head(stack).d
           r == StepAH(dev[d], Dio)
<1>1. stack # <<>> /\ Head(stack).op = "AH" /\ d \in Devices
  BY HeadIsFrame DEF AcceptorPhase, Top, Phases
<1>2. Replace(d, r, Drives(d, r, "AH") \o Call("SR", d))
  BY DEF AcceptorPhase
<1>3. Steps(dev[d], r)
  BY <1>1, StepAHSteps DEF BusInv, Shapes
<1> HIDE DEF r
<1>4. Head(stack).d = d
  BY DEF d
<1> HIDE DEF d
<1> QED
  BY <1>1, <1>2, <1>3, <1>4, PhaseStep DEF Phases

LEMMA RequestStep == BusInv /\ RequestPhase => BusInv'
<1> SUFFICES ASSUME BusInv, RequestPhase PROVE BusInv'
  OBVIOUS
<1> DEFINE d == Head(stack).d
           r == StepSR(StepPP(StepL(StepT(dev[d]))))
<1>1. stack # <<>> /\ Head(stack).op = "SR" /\ d \in Devices
  BY HeadIsFrame DEF RequestPhase, Top, Phases
<1>2. Replace(d, r, Drives(d, r, "SR") \o Call("C", d))
  BY DEF RequestPhase
<1>3. Steps(dev[d], r)
  BY <1>1, RequestSteps DEF BusInv, Shapes
<1> HIDE DEF r
<1>4. Head(stack).d = d
  BY DEF d
<1> HIDE DEF d
<1> QED
  BY <1>1, <1>2, <1>3, <1>4, PhaseStep DEF Phases

LEMMA ControllerStep == BusInv /\ ControllerPhase => BusInv'
<1> SUFFICES ASSUME BusInv, ControllerPhase PROVE BusInv'
  OBVIOUS
<1> DEFINE d == Head(stack).d
           r == StepC(StepRL(dev[d]))
<1>1. stack # <<>> /\ Head(stack).op = "C" /\ d \in Devices
  BY HeadIsFrame DEF ControllerPhase, Top, Phases
<1>2. Replace(d, r, Drives(d, r, "C") \o Call("end", d))
  BY DEF ControllerPhase
<1>3. Chip(dev[d]) /\ Steps(dev[d], r)
  BY <1>1, ControllerSteps DEF BusInv, Shapes
<1>4. r.eoi_signal \in BOOLEAN
  <2> DEFINE x == StepRL(dev[d])
  <2>1. Chip(x)
    BY <1>3, StepRLSteps, QuietChip DEF Steps
  <2> HIDE DEF x
  <2>2. StepC(x).eoi_signal \in BOOLEAN
    BY <2>1 DEF Chip, Facts, StepC
  <2> QED
    BY <2>2 DEF x
<1> HIDE DEF r
<1>5. Head(stack).d = d
  BY DEF d
<1> HIDE DEF d
<1> QED
  BY <1>1, <1>2, <1>3, <1>4, <1>5, PhaseStep DEF Phases

LEMMA EndStep == BusInv /\ EndOfPass => BusInv'
<1> SUFFICES ASSUME BusInv, EndOfPass PROVE BusInv'
  OBVIOUS
<1> DEFINE d == Head(stack).d
           r == [dev[d] EXCEPT !.dio = dev[d].dio_byte]
           x == [r EXCEPT !.no_reflection = FALSE, !.eoi_signal = FALSE, !.dio_byte = {}]
<1>1. stack # <<>> /\ Head(stack).op = "end" /\ d \in Devices
  BY HeadIsFrame DEF EndOfPass, Top, Phases
<1>2. Head(stack).d = d /\ Head(stack).op # "tell"
  BY <1>1
<1> HIDE DEF d
<1>3. Chip(dev[d])
  BY <1>1 DEF BusInv, Shapes
<1>4. /\ Quiet(dev[d], r) /\ Chip(r)
      /\ DOMAIN r = DOMAIN dev[d] /\ r.own = dev[d].own /\ r.ext = dev[d].ext
      /\ r.changed = dev[d].changed
  BY <1>3 DEF Chip, Facts, Quiet, Kept
<1>5. CASE r.changed
  <2>1. Pass(d, r)
    BY <1>5, Zenon DEF EndOfPass, d
  <2> HIDE DEF r
  <2> QED
    BY <1>1, <1>2, <1>4, <2>1, PassStep
<1>6. CASE ~r.changed
  <2>1. Replace(d, x, <<>>)
    BY <1>6, Zenon DEF EndOfPass, d
  <2>2. /\ DOMAIN x = DOMAIN dev[d] /\ x.own = dev[d].own /\ x.ext = dev[d].ext
        /\ x.no_reflection = FALSE /\ x.ext_state_change = dev[d].ext_state_change
    <3> HIDE DEF r
    <3>1. /\ DOMAIN x = DOMAIN r /\ x.own = r.own /\ x.ext = r.ext
          /\ x.no_reflection = FALSE /\ x.ext_state_change = r.ext_state_change
      BY <1>4 DEF Chip, Facts
    <3> QED
      BY <1>4, <3>1 DEF Quiet, Kept
  <2>3. ~dev[d].changed
    BY <1>4, <1>6
  <2>4. dev[d].ext_state_change => LastUpdates(d) /\ Len(stack) > 1
    <3>1. stack \in Seq(Frame)
      BY DEF BusInv, Shapes
    <3>2. /\ Head(stack) = stack[1] /\ (Len(stack) = 1 \/ Len(stack) > 1)
      BY <1>1, <3>1, Topmost, Zenon
    <3>3. dev[d].ext_state_change => LastUpdates(d)
      BY <1>1, <2>3 DEF BusInv, Owed
    <3> QED
      BY <1>1, <3>2, <3>3 DEF LastUpdates
  <2>5. <<>> \in Seq(Frame) /\ \A i \in DOMAIN <<>> : <<>>[i].op # "sic"
    OBVIOUS
  <2> HIDE DEF x
  <2> QED
    BY <1>1, <1>2, <2>1, <2>2, <2>4, <2>5, ChipStep
<1> QED
  BY <1>5, <1>6

LEMMA SrqStep == BusInv /\ SrqInterrupt => BusInv'
<1> SUFFICES ASSUME BusInv, SrqInterrupt PROVE BusInv'
  OBVIOUS
<1> DEFINE d == Head(stack).d
           r == IF ContR(dev[d]) /\ Has(dev[d], "SRQ") THEN SetInt1(dev[d], "SRQ") ELSE dev[d]
<1>1. stack # <<>> /\ Head(stack).op = "srq" /\ d \in Devices
  BY HeadIsFrame DEF SrqInterrupt, Top, Phases
<1>2. Replace(d, r, <<>>)
  BY DEF SrqInterrupt
<1>3. Head(stack).d = d /\ Head(stack).op # "tell" /\ Head(stack).op \notin Phases
  BY <1>1 DEF Phases
<1> HIDE DEF d
<1>4. Chip(dev[d])
  BY <1>1 DEF BusInv, Shapes
<1>5. Quiet(dev[d], r)
  <2>1. Quiet(dev[d], dev[d])
    BY DEF Quiet, Kept
  <2> QED
    BY <1>4, <2>1, SetInt1Quiet
<1> HIDE DEF r
<1>6. \/ ~dev[d].ext_state_change
      \/ dev[d].changed /\ InPhase(d)
      \/ LastUpdates(d) /\ Len(stack) > 1
  <2>1. stack \in Seq(Frame)
    BY DEF BusInv, Shapes
  <2>2. /\ Head(stack) = stack[1] /\ (Len(stack) = 1 \/ Len(stack) > 1)
    BY <1>1, <2>1, Topmost, Zenon
  <2>3. dev[d].ext_state_change => LastUpdates(d) \/ (dev[d].changed /\ InPhase(d))
    BY <1>1 DEF BusInv, Owed
  <2> QED
    BY <1>1, <2>2, <2>3 DEF LastUpdates
<1>7. <<>> \in Seq(Frame) /\ \A i \in DOMAIN <<>> : <<>>[i].op # "sic"
  OBVIOUS
<1>8. /\ DOMAIN r = DOMAIN dev[d] /\ r.own = dev[d].own /\ r.ext = dev[d].ext
      /\ r.no_reflection = dev[d].no_reflection
      /\ r.ext_state_change = dev[d].ext_state_change /\ r.changed = dev[d].changed
  BY <1>5 DEF Quiet, Kept
<1>9. /\ r.no_reflection => dev[d].no_reflection /\ Head(stack).op \notin Phases
      /\ r.ext_state_change =>
           \/ r.changed /\ InPhase(d) /\ Head(stack).op \notin Phases
           \/ LastUpdates(d) /\ Len(stack) > 1
  BY <1>3, <1>6, <1>8
<1> QED
  BY <1>1, <1>2, <1>3, <1>7, <1>8, <1>9, ChipStep

LEMMA SicStep == BusInv /\ SicCommand => BusInv'
<1> SUFFICES ASSUME BusInv, SicCommand PROVE BusInv'
  OBVIOUS
<1> DEFINE d == Head(stack).d
           r == SicTail(dev[d])
<1>1. stack # <<>> /\ Head(stack).op = "sic" /\ d \in Devices
  BY HeadIsFrame DEF SicCommand, Top, Phases
<1>2. Replace(d, r, <<>>)
  BY DEF SicCommand
<1>3. Head(stack).d = d /\ Head(stack).op # "tell" /\ Head(stack).op \notin Phases
  BY <1>1 DEF Phases
<1> HIDE DEF d
<1>4. Chip(dev[d])
  BY <1>1 DEF BusInv, Shapes
<1>5. Turns(dev[d], r)
  <2>1. Turns(dev[d], dev[d])
    BY DEF Turns, Kept
  <2> QED
    BY <1>4, <2>1, LatchQuiet DEF SicTail
<1> HIDE DEF r
<1>6. LastUpdates(d) /\ Len(stack) > 1
  <2>1. stack \in Seq(Frame)
    BY DEF BusInv, Shapes
  <2>2. /\ Head(stack) = stack[1] /\ DOMAIN stack = 1..Len(stack) /\ Len(stack) \in Nat \ {0}
        /\ (Len(stack) = 1 \/ Len(stack) > 1)
    BY <1>1, <2>1, Topmost, Zenon
  <2>3. 1 \in DOMAIN stack
    BY <2>2
  <2>4. LastUpdates(d)
    BY <1>1, <1>3, <2>2, <2>3 DEF BusInv, SicLast
  <2> QED
    BY <1>1, <2>2, <2>4 DEF LastUpdates
<1>7. <<>> \in Seq(Frame) /\ \A i \in DOMAIN <<>> : <<>>[i].op # "sic"
  OBVIOUS
<1>8. /\ DOMAIN r = DOMAIN dev[d] /\ r.own = dev[d].own /\ r.ext = dev[d].ext
      /\ r.no_reflection = dev[d].no_reflection
  BY <1>5 DEF Turns, Kept
<1>9. r.no_reflection => dev[d].no_reflection /\ Head(stack).op \notin Phases
  BY <1>3, <1>8
<1> QED
  BY <1>1, <1>2, <1>3, <1>6, <1>7, <1>8, <1>9, ChipStep

\* set_signal() changes the line: everyone will be told.
LEMMA DriveStep == BusInv /\ Drive => BusInv'
<1> SUFFICES ASSUME BusInv, Drive PROVE BusInv'
  OBVIOUS
<1> DEFINE d == Head(stack).d
           s == Head(stack).s
           r == [dev[d] EXCEPT !.own = Put(@, s, Head(stack).v)]
           rest == << [op |-> "tell", s |-> s] >>
<1>1. stack # <<>> /\ Head(stack).op = "drive" /\ d \in Devices /\ s \in Signals
  BY HeadIsFrame DEF Drive, Top
<1>2. Replace(d, r, rest)
  BY DEF Drive
<1> HIDE DEF d, s
<1>3. Chip(dev[d]) /\ dev[d].own \subseteq Signals
  BY <1>1 DEF BusInv, Shapes
<1>4. /\ DOMAIN r = DOMAIN dev[d] /\ r.ext = dev[d].ext /\ r.no_reflection = dev[d].no_reflection
      /\ r.ext_state_change = dev[d].ext_state_change /\ r.changed = dev[d].changed
      /\ r.own \subseteq Signals
      /\ \A x \in Signals : x # s => (x \in r.own <=> x \in dev[d].own)
  BY <1>1, <1>3 DEF Chip, Facts, Put
<1> HIDE DEF r
<1>5. /\ stack \in Seq(Frame) /\ DOMAIN dev = Devices /\ stack' = rest \o Tail(stack)
      /\ dev' = [dev EXCEPT ![d] = r] /\ UNCHANGED guests
  BY <1>2 DEF BusInv, Shapes, Replace
<1>6. rest \in Seq(Frame) /\ DOMAIN rest = {1} /\ rest[1].op = "tell" /\ rest[1].s = s
  <2> DEFINE f == [op |-> "tell", s |-> s]
  <2>1. f \in Frame /\ f.op = "tell" /\ f.s = s
    BY <1>1 DEF Frame
  <2> HIDE DEF f
  <2>2. << f >> \in Seq(Frame) /\ DOMAIN << f >> = {1} /\ << f >>[1] = f
    BY <2>1
  <2> QED
    BY <2>1, <2>2 DEF f
<1> HIDE DEF rest
<1>7. stack' \in Seq(Frame) /\ FramesReplaced(stack, rest, stack')
  BY <1>1, <1>5, <1>6, Replaced, Zenon
<1>8. /\ Head(stack) = stack[1] /\ DOMAIN stack = 1..Len(stack) /\ Len(stack) \in Nat \ {0}
      /\ (Len(stack) = 1 \/ Len(stack) > 1)
  BY <1>1, <1>5, Topmost, Zenon
<1>9. /\ dev'[d] = r /\ DOMAIN dev' = Devices
      /\ \A e \in Devices : e # d => dev'[e] = dev[e]
  BY <1>1, <1>5
<1>a. \A e \in Devices :
        /\ dev'[e].no_reflection = dev[e].no_reflection
        /\ dev'[e].ext_state_change = dev[e].ext_state_change /\ dev'[e].changed = dev[e].changed
        /\ dev'[e].ext = dev[e].ext /\ DOMAIN dev'[e] = DOMAIN dev[e]
        /\ \A x \in Signals : x # s => (x \in dev'[e].own <=> x \in dev[e].own)
  BY <1>4, <1>9
<1>b. Shapes'
  <2>1. \A e \in Devices : dev'[e].own \subseteq Signals
    BY <1>4, <1>9 DEF BusInv, Shapes
  <2> QED
    BY <1>5, <1>7, <1>9, <1>a, <2>1 DEF BusInv, Shapes, Chip, guests
<1>c. \A e \in Devices : InPhase(e) => InPhase(e)'
  BY <1>1, <1>7, <1>8 DEF InPhase, Phases, FramesReplaced
<1>d. \A e \in Devices : LastUpdates(e) => LastUpdates(e)'
  BY <1>1, <1>7, <1>8 DEF LastUpdates, FramesReplaced
<1>e. Inside'
  BY <1>a, <1>c DEF BusInv, Inside
<1>f. Owed'
  BY <1>a, <1>c, <1>d DEF BusInv, Owed
<1>g. Told'
  <2> SUFFICES ASSUME NEW e \in Devices, NEW x \in Signals, ~(Has(dev'[e], x) <=> Level(x)')
               PROVE  Telling(x)'
    BY DEF Told
  <2>1. CASE x = s
    BY <1>6, <1>7, <2>1 DEF Telling, FramesReplaced
  <2>2. CASE x # s
    <3>1. (Has(dev'[e], x) <=> Has(dev[e], x)) /\ (Level(x)' <=> Level(x))
      BY <1>a, <2>2 DEF Has, Level
    <3>2. Telling(x)
      BY <3>1 DEF BusInv, Told
    <3> QED
      BY <1>1, <1>7, <1>8, <3>2 DEF Telling, FramesReplaced
  <2> QED
    BY <2>1, <2>2
<1>h. SicLast'
  <2> SUFFICES ASSUME NEW e \in Devices, NEW j \in DOMAIN stack',
                      stack'[j].op = "sic", stack'[j].d = e
               PROVE  LastUpdates(e)'
    BY DEF SicLast
  <2>1. PICK i \in DOMAIN stack : stack'[j] = stack[i]
    BY <1>6, <1>7 DEF FramesReplaced
  <2> QED
    BY <1>d, <2>1 DEF BusInv, SicLast
<1> QED
  BY <1>b, <1>e, <1>f, <1>g, <1>h DEF BusInv

\* What set_ext_signal() calls, and srq_w() after it.
LEMMA UpdateThenSrq ==
  ASSUME NEW d \in Devices, NEW requested \in BOOLEAN
  PROVE  LET first == Call("update", d) \o (IF requested THEN Call("srq", d) ELSE <<>>) IN
         /\ first \in Seq(Frame)
         /\ \A i \in DOMAIN first : first[i].op \in {"update", "srq"}
<1> DEFINE f == [op |-> "update", d |-> d]
           g == [op |-> "srq", d |-> d]
<1>1. f \in Frame /\ g \in Frame /\ f.op = "update" /\ g.op = "srq"
  BY DEF Frame
<1>2. Call("update", d) = <<f>> /\ Call("srq", d) = <<g>>
  BY DEF Call
<1> HIDE DEF f, g
<1>3. /\ <<f>> \o <<g>> \in Seq(Frame)
      /\ \A i \in DOMAIN (<<f>> \o <<g>>) : (<<f>> \o <<g>>)[i] \in {f, g}
      /\ <<f>> \o <<>> \in Seq(Frame)
      /\ \A i \in DOMAIN (<<f>> \o <<>>) : (<<f>> \o <<>>)[i] = f
  BY <1>1
<1> QED
  BY <1>1, <1>2, <1>3

\* The chips are told one by one; a line is left when no copy of it is stale.
LEMMA TellStep == BusInv /\ Tell => BusInv'
<1> SUFFICES ASSUME BusInv, Tell PROVE BusInv'
  OBVIOUS
<1> DEFINE s == Head(stack).s
<1>1. stack # <<>> /\ Head(stack).op = "tell" /\ s \in Signals
  BY HeadIsFrame DEF Tell, Top
<1>2. \/ dev' = dev /\ stack' = Tail(stack) /\ \A d \in Devices : Has(dev[d], s) <=> Level(s)
      \/ \E d \in Devices :
           /\ dev' = [dev EXCEPT ![d].ext = Put(@, s, Level(s))]
           /\ stack' = Call("update", d)
                        \o (IF s = "SRQ" /\ Level(s) THEN Call("srq", d) ELSE <<>>) \o stack
  BY Zenon DEF Tell
<1>3. stack \in Seq(Frame) /\ DOMAIN dev = Devices /\ UNCHANGED guests
  BY DEF BusInv, Shapes, Tell
<1>4. /\ Head(stack) = stack[1] /\ DOMAIN stack = 1..Len(stack) /\ Len(stack) \in Nat \ {0}
      /\ (Len(stack) = 1 \/ Len(stack) > 1)
  BY <1>1, <1>3, Topmost, Zenon
<1> HIDE DEF s
<1>5. CASE dev' = dev /\ stack' = Tail(stack) /\ \A d \in Devices : Has(dev[d], s) <=> Level(s)
  <2>1. <<>> \in Seq(Frame) /\ stack' = <<>> \o Tail(stack)
    <3>1. Tail(stack) \in Seq(Frame)
      BY <1>1, <1>3
    <3>2. <<>> \o Tail(stack) = Tail(stack)
      BY <3>1, ConcatEmptySeq
    <3> QED
      BY <1>5, <3>2
  <2>2. stack' \in Seq(Frame) /\ FramesReplaced(stack, <<>>, stack')
    BY <1>1, <1>3, <2>1, Replaced, Zenon
  <2>3. \A e \in Devices : InPhase(e) => InPhase(e)'
    <3> SUFFICES ASSUME NEW e \in Devices, NEW i \in DOMAIN stack,
                        stack[i].op \in Phases, stack[i].d = e
                 PROVE  InPhase(e)'
      BY DEF InPhase
    <3>1. i # 1
      BY <1>1, <1>4 DEF Phases
    <3>2. PICK j \in DOMAIN stack' : stack'[j] = stack[i]
      BY <2>2, <3>1 DEF FramesReplaced
    <3> QED
      BY <3>2 DEF InPhase
  <2>4. \A e \in Devices : LastUpdates(e) => LastUpdates(e)'
    BY <1>1, <1>4, <2>2 DEF LastUpdates, FramesReplaced
  <2>5. Shapes' /\ Inside' /\ Owed'
    BY <1>3, <1>5, <2>2, <2>3, <2>4 DEF BusInv, Shapes, Inside, Owed, guests
  <2>6. Told'
    <3> SUFFICES ASSUME NEW e \in Devices, NEW x \in Signals, ~(Has(dev'[e], x) <=> Level(x)')
                 PROVE  Telling(x)'
      BY DEF Told
    <3>1. (Has(dev'[e], x) <=> Has(dev[e], x)) /\ (Level(x)' <=> Level(x))
      BY <1>5 DEF Has, Level
    <3>2. Telling(x) /\ x # s
      BY <1>5, <3>1 DEF BusInv, Told
    <3> QED
      BY <1>4, <2>2, <3>2 DEF Telling, FramesReplaced, s
  <2>7. SicLast'
    <3> SUFFICES ASSUME NEW e \in Devices, NEW j \in DOMAIN stack',
                        stack'[j].op = "sic", stack'[j].d = e
                 PROVE  LastUpdates(e)'
      BY DEF SicLast
    <3>1. PICK i \in DOMAIN stack : stack'[j] = stack[i]
      BY <2>2 DEF FramesReplaced
    <3> QED
      BY <2>4, <3>1 DEF BusInv, SicLast
  <2> QED
    BY <2>5, <2>6, <2>7 DEF BusInv
<1>6. ASSUME NEW d \in Devices,
             dev' = [dev EXCEPT ![d].ext = Put(@, s, Level(s))],
             stack' = Call("update", d)
                       \o (IF s = "SRQ" /\ Level(s) THEN Call("srq", d) ELSE <<>>) \o stack
      PROVE  BusInv'
  <2> DEFINE r == [dev[d] EXCEPT !.ext = Put(@, s, Level(s))]
             first == Call("update", d) \o (IF s = "SRQ" /\ Level(s) THEN Call("srq", d) ELSE <<>>)
  <2>1. /\ first \in Seq(Frame)
        /\ \A i \in DOMAIN first : first[i].op \in {"update", "srq"}
    BY UpdateThenSrq, (s = "SRQ" /\ Level(s)) \in BOOLEAN
  <2>2. stack' = first \o stack
    <3>1. first \in Seq(Frame)
      BY <2>1
    <3> HIDE DEF first
    <3> QED
      BY <1>6, <1>3, <3>1 DEF first
  <2> HIDE DEF first
  <2>3. stack' \in Seq(Frame) /\ FramesCalled(stack, first, stack')
    BY <1>1, <1>3, <2>1, <2>2, Called, Zenon
  <2>4. Chip(dev[d]) /\ dev[d].ext \subseteq Signals
    BY DEF BusInv, Shapes
  <2>5. /\ DOMAIN r = DOMAIN dev[d] /\ r.own = dev[d].own /\ r.no_reflection = dev[d].no_reflection
        /\ r.ext_state_change = dev[d].ext_state_change /\ r.changed = dev[d].changed
        /\ r.ext \subseteq Signals
        /\ \A x \in Signals : x # s => (x \in r.ext <=> x \in dev[d].ext)
    BY <1>1, <2>4 DEF Chip, Facts, Put, s
  <2>6. dev' = [dev EXCEPT ![d] = r]
    BY <1>6
  <2> HIDE DEF r
  <2>7. /\ dev'[d] = r /\ DOMAIN dev' = Devices
        /\ \A e \in Devices : e # d => dev'[e] = dev[e]
    BY <1>3, <2>6
  <2>8. \A e \in Devices :
          /\ dev'[e].no_reflection = dev[e].no_reflection
          /\ dev'[e].ext_state_change = dev[e].ext_state_change /\ dev'[e].changed = dev[e].changed
          /\ dev'[e].own = dev[e].own /\ DOMAIN dev'[e] = DOMAIN dev[e]
          /\ dev'[e].ext \subseteq Signals
          /\ \A x \in Signals : x # s => (x \in dev'[e].ext <=> x \in dev[e].ext)
    <3>1. \A e \in Devices : dev[e].ext \subseteq Signals
      BY DEF BusInv, Shapes
    <3> QED
      BY <2>5, <2>7, <3>1
  <2>9. Shapes'
    BY <1>3, <2>3, <2>7, <2>8 DEF BusInv, Shapes, Chip, guests
  <2>a. \A e \in Devices : (InPhase(e) => InPhase(e)') /\ (LastUpdates(e) => LastUpdates(e)')
    BY <2>3 DEF InPhase, LastUpdates, FramesCalled
  <2>b. Inside' /\ Owed'
    BY <2>8, <2>a DEF BusInv, Inside, Owed
  <2>c. Told'
    <3> SUFFICES ASSUME NEW e \in Devices, NEW x \in Signals, ~(Has(dev'[e], x) <=> Level(x)')
                 PROVE  Telling(x)'
      BY DEF Told
    <3>1. Telling(x)
      <4>1. CASE x = s
        BY <1>1, <1>4, <4>1 DEF Telling, s
      <4>2. CASE x # s
        <5>1. (Has(dev'[e], x) <=> Has(dev[e], x)) /\ (Level(x)' <=> Level(x))
          BY <2>8, <4>2 DEF Has, Level
        <5> QED
          BY <5>1 DEF BusInv, Told
      <4> QED
        BY <4>1, <4>2
    <3> QED
      BY <2>3, <3>1 DEF Telling, FramesCalled
  <2>d. SicLast'
    <3> SUFFICES ASSUME NEW e \in Devices, NEW j \in DOMAIN stack',
                        stack'[j].op = "sic", stack'[j].d = e
                 PROVE  LastUpdates(e)'
      BY DEF SicLast
    <3>1. PICK i \in DOMAIN stack : stack'[j] = stack[i]
      BY <2>1, <2>3 DEF FramesCalled
    <3> QED
      BY <2>a, <3>1 DEF BusInv, SicLast
  <2> QED
    BY <2>9, <2>b, <2>c, <2>d DEF BusInv
<1> QED
  BY <1>2, <1>5, <1>6

----------------------------------------------------------------------------
(* An access or a timer, with no call in progress.                         *)

\* What the handler calls: update_fsm() is the outermost call where it matters.
LEMMA FramesOfCalls ==
  ASSUME NEW d \in Devices, NEW r, NEW calls \in Calls
  PROVE  LET q == Frames(d, r, calls) IN
         /\ q \in Seq(Frame)
         /\ calls \in {"fsm", "sic"} => q # <<>> /\ q[Len(q)].op = "update" /\ q[Len(q)].d = d
         /\ \A i \in DOMAIN q : q[i].op = "sic" => calls = "sic" /\ q[i].d = d
<1> DEFINE Good(q) ==
      /\ q \in Seq(Frame)
      /\ calls \in {"fsm", "sic"} => q # <<>> /\ q[Len(q)].op = "update" /\ q[Len(q)].d = d
      /\ \A i \in DOMAIN q : q[i].op = "sic" => calls = "sic" /\ q[i].d = d
<1>1. CASE calls = "nothing"
  <2>1. Good(<<>>)
    BY <1>1
  <2> QED
    BY <1>1, <2>1 DEF Frames
<1>2. CASE calls = "fsm"
  <2> DEFINE f == [op |-> "update", d |-> d]
             q == << f >>
  <2>1. f \in Frame /\ f.op = "update" /\ f.d = d
    BY DEF Frame
  <2> HIDE DEF f
  <2>2. q \in Seq(Frame) /\ Len(q) = 1 /\ q # <<>> /\ q[1] = f /\ DOMAIN q = {1}
    BY <2>1
  <2> HIDE DEF q
  <2>3. Good(q)
    BY <1>2, <2>1, <2>2
  <2>4. Frames(d, r, calls) = q
    BY <1>2 DEF Frames, Call, q, f
  <2> HIDE DEF Good
  <2>5. Good(Frames(d, r, calls))
    BY <2>3, <2>4
  <2> QED
    BY <2>5 DEF Good
<1>3. CASE calls = "ren"
  <2> DEFINE q == SetSignal(d, r, "REN", "sre" \in r.cmd)
  <2>1. q \in Seq(DriveFrame)
    <3>1. "REN" \in Signals /\ ("sre" \in r.cmd) \in BOOLEAN
      BY DEF Signals
    <3> QED
      BY <3>1, SetSignalFrames, Zenon
  <2> HIDE DEF q
  <2>2. \A x \in DriveFrame : x \in Frame /\ x.op = "drive"
    BY DEF Frame, DriveFrame
  <2>3. q \in Seq(Frame) /\ \A i \in DOMAIN q : q[i].op = "drive"
    BY <2>1, <2>2
  <2>4. Good(q)
    BY <1>3, <2>3
  <2>5. Frames(d, r, calls) = q
    BY <1>3 DEF Frames, q
  <2> HIDE DEF Good
  <2>6. Good(Frames(d, r, calls))
    BY <2>4, <2>5
  <2> QED
    BY <2>6 DEF Good
<1>4. CASE calls = "sic"
  <2> DEFINE a == SetSignal(d, r, "IFC", "sic" \in r.cmd)
             p == a \o Call("sic", d)
             f == [op |-> "update", d |-> d]
             g == [op |-> "sic", d |-> d]
             u == << f >>
             q == p \o u
  <2>1. a \in Seq(DriveFrame)
    <3>1. "IFC" \in Signals /\ ("sic" \in r.cmd) \in BOOLEAN
      BY DEF Signals
    <3> QED
      BY <3>1, SetSignalFrames, Zenon
  <2> HIDE DEF a
  <2>2. /\ p \in Seq(Frame) /\ Len(p) = Len(a) + 1 /\ p[Len(a) + 1] = g
        /\ \A i \in DOMAIN p : i # Len(a) + 1 => p[i].op = "drive"
    BY <2>1, CallFrames
  <2> HIDE DEF p
  <2>3. /\ f \in Frame /\ f.op = "update" /\ f.d = d
        /\ g.op = "sic" /\ g.d = d
    BY DEF Frame
  <2> HIDE DEF f, g
  <2>4. \A i \in DOMAIN p : p[i].op = "sic" => p[i].d = d
    BY <2>2, <2>3
  <2>5. u \in Seq(Frame) /\ Len(u) = 1 /\ u[1] = f
    BY <2>3
  <2> HIDE DEF u
  <2>6. /\ q \in Seq(Frame) /\ Len(q) = Len(p) + Len(u) /\ Len(p) \in Nat
        /\ \A i \in 1..(Len(p) + Len(u)) : q[i] = IF i <= Len(p) THEN p[i] ELSE u[i - Len(p)]
    BY <2>2, <2>5, ConcatProperties
  <2>7. DOMAIN q = 1..Len(q) /\ DOMAIN p = 1..Len(p)
    BY <2>2, <2>6
  <2> HIDE DEF q
  <2>8. Len(q) = Len(p) + 1 /\ q[Len(q)] = f /\ q # <<>>
    BY <2>5, <2>6
  <2>9. \A i \in DOMAIN q : (i \in DOMAIN p /\ q[i] = p[i]) \/ q[i] = f
    BY <2>5, <2>6, <2>7, <2>8
  <2>10. Good(q)
    BY <1>4, <2>3, <2>4, <2>6, <2>8, <2>9
  <2>11. Frames(d, r, calls) = q
    <3>1. Frames(d, r, calls) = SetSignal(d, r, "IFC", "sic" \in r.cmd) \o Call("sic", d) \o Call("update", d)
      BY <1>4 DEF Frames
    <3> QED
      BY <3>1 DEF q, p, a, u, f, Call
  <2> HIDE DEF Good
  <2>12. Good(Frames(d, r, calls))
    BY <2>10, <2>11
  <2> QED
    BY <2>12 DEF Good
<1> QED
  BY <1>1, <1>2, <1>3, <1>4 DEF Calls

\* Between calls nobody is inside update_fsm(), owed anything, or wrong about a line.
LEMMA AtSettled ==
  ASSUME BusInv, Settled
  PROVE  \A d \in Devices :
           /\ ~dev[d].no_reflection /\ ~dev[d].ext_state_change
           /\ \A s \in Signals : Has(dev[d], s) <=> Level(s)
<1>1. stack = <<>> /\ DOMAIN stack = {}
  BY DEF Settled
<1>2. \A d : ~InPhase(d) /\ ~LastUpdates(d) /\ ~Telling(d)
  BY <1>1 DEF InPhase, LastUpdates, Telling
<1> QED
  BY <1>2 DEF BusInv, Inside, Owed, Told

LEMMA PerformStep ==
  ASSUME BusInv, Settled, NEW d \in Devices, NEW result, Served(dev[d], result),
         Perform(d, result), scenario' = scenario, DOMAIN pc' = Devices,
         \A e \in Devices : pc'[e] \in 0..Len(scenario[e])
  PROVE  BusInv'
<1> DEFINE r == result.r
<1>1. /\ Kept(dev[d], r) /\ result.calls \in Calls
      /\ r.ext_state_change => dev[d].ext_state_change \/ result.calls \in {"fsm", "sic"}
  BY DEF Served
<1>2. dev' = [dev EXCEPT ![d] = r] /\ stack' = Frames(d, r, result.calls)
  BY DEF Perform
<1> HIDE DEF r
<1>3. /\ stack' \in Seq(Frame)
      /\ result.calls \in {"fsm", "sic"} => LastUpdates(d)'
      /\ \A i \in DOMAIN stack' : stack'[i].op = "sic" => result.calls = "sic" /\ stack'[i].d = d
  BY <1>1, <1>2, FramesOfCalls DEF LastUpdates
<1>4. \A e \in Devices :
        /\ ~dev[e].no_reflection /\ ~dev[e].ext_state_change
        /\ \A s \in Signals : Has(dev[e], s) <=> Level(s)
  BY AtSettled
<1>5. DOMAIN dev = Devices /\ Chip(dev[d])
  BY DEF BusInv, Shapes
<1>6. /\ dev'[d] = r /\ DOMAIN dev' = Devices
      /\ \A e \in Devices : e # d => dev'[e] = dev[e]
  BY <1>2, <1>5
<1>7. \A e \in Devices :
        /\ DOMAIN dev'[e] = DOMAIN dev[e] /\ dev'[e].own = dev[e].own /\ dev'[e].ext = dev[e].ext
        /\ dev'[e].no_reflection = dev[e].no_reflection
  BY <1>1, <1>6 DEF Kept
<1>8. Shapes'
  BY <1>3, <1>6, <1>7 DEF BusInv, Shapes, Chip
<1>9. Inside'
  BY <1>4, <1>7 DEF Inside
<1>10. Told'
  <2> SUFFICES ASSUME NEW e \in Devices, NEW s \in Signals
               PROVE  Has(dev'[e], s) <=> Level(s)'
    BY DEF Told
  <2>1. (Has(dev'[e], s) <=> Has(dev[e], s)) /\ (Level(s)' <=> Level(s))
    BY <1>7 DEF Has, Level
  <2> QED
    BY <1>4, <2>1
<1>11. SicLast'
  BY <1>3 DEF SicLast
<1>12. Owed'
  BY <1>1, <1>3, <1>4, <1>6 DEF Owed
<1> QED
  BY <1>8, <1>9, <1>10, <1>11, <1>12 DEF BusInv

\* The program goes on by one access.
LEMMA AdvanceStep ==
  ASSUME BusInv, NEW d \in Devices, ~Done(d), NEW used, Advance(d, used)
  PROVE  /\ scenario' = scenario /\ DOMAIN pc' = Devices
         /\ \A e \in Devices : pc'[e] \in 0..Len(scenario[e])
         /\ pc[d] + 1 \in DOMAIN scenario[d]
<1>1. /\ scenario \in Scenarios /\ DOMAIN pc = Devices
      /\ \A e \in Devices : pc[e] \in 0..Len(scenario[e])
  BY DEF BusInv, Shapes
<1>2. \A e \in Devices : Len(scenario[e]) \in Nat /\ DOMAIN scenario[e] = 1..Len(scenario[e])
  BY <1>1, ScenarioAssumption
<1>3. pc' = [pc EXCEPT ![d] = @ + 1] /\ scenario' = scenario
  BY DEF Advance
<1>4. pc[d] # Len(scenario[d])
  BY DEF Done
<1>5. pc[d] + 1 \in 1..Len(scenario[d]) /\ pc[d] + 1 \in 0..Len(scenario[d])
  BY <1>1, <1>2, <1>4
<1> QED
  BY <1>1, <1>2, <1>3, <1>5

LEMMA TimerStep ==
  ASSUME BusInv, NEW d \in Devices, NEW x, Timer(d, x)
  PROVE  BusInv'
<1> DEFINE r == [dev[d] EXCEPT !.timers = @ \ {x}]
<1>1. Settled /\ Perform(d, Then(r, "fsm")) /\ UNCHANGED guests
  BY DEF Timer
<1>2. Chip(dev[d]) /\ DOMAIN pc = Devices /\ \A e \in Devices : pc[e] \in 0..Len(scenario[e])
  BY DEF BusInv, Shapes
<1>3. Turns(dev[d], r)
  BY <1>2 DEF Turns, Kept, Chip, Facts
<1> HIDE DEF r
<1>4. Served(dev[d], Then(r, "fsm"))
  BY <1>3, ThenServed DEF Calls
<1> QED
  BY <1>1, <1>2, <1>4, PerformStep DEF guests

LEMMA GuestStep ==
  ASSUME BusInv, NEW d \in Devices, Guest(d)
  PROVE  BusInv'
<1>1. /\ Chip(dev[d]) /\ DOMAIN pc = Devices /\ scenario \in Scenarios
      /\ \A e \in Devices : pc[e] \in 0..Len(scenario[e])
  BY DEF BusInv, Shapes
<1>2. CASE ReadStatus0(d)
  <2>1. /\ Settled /\ Perform(d, Then(ReadInt0(dev[d]), "nothing"))
        /\ scenario' = scenario /\ pc' = pc
    BY <1>2 DEF ReadStatus0
  <2>2. Served(dev[d], Then(ReadInt0(dev[d]), "nothing"))
    BY <1>1, ReadServed
  <2> QED
    BY <1>1, <2>1, <2>2, PerformStep
<1>3. CASE ReadStatus1(d)
  <2>1. /\ Settled /\ Perform(d, Then(ReadInt1(dev[d]), "nothing"))
        /\ scenario' = scenario /\ pc' = pc
    BY <1>3 DEF ReadStatus1
  <2>2. Served(dev[d], Then(ReadInt1(dev[d]), "nothing"))
    BY <1>1, ReadServed
  <2> QED
    BY <1>1, <2>1, <2>2, PerformStep
<1>4. CASE WriteRegister(d)
  <2> DEFINE used == IF Now(d).reg = "AUX_CMD" /\ Now(d).v[1] \in {"GTS", "TCS", "TCA"} THEN {"BO"} ELSE {}
             result == Write(dev[d], Now(d).reg, Now(d).v)
  <2>1. /\ Settled /\ ~Done(d) /\ Now(d).op = "write" /\ Perform(d, result) /\ Advance(d, used)
    BY <1>4 DEF WriteRegister, Ready
  <2> HIDE DEF used
  <2>2. /\ scenario' = scenario /\ DOMAIN pc' = Devices
        /\ \A e \in Devices : pc'[e] \in 0..Len(scenario[e])
        /\ pc[d] + 1 \in DOMAIN scenario[d]
    BY <2>1, AdvanceStep
  <2>3. Now(d).reg \in Registers
    BY <1>1, <2>1, <2>2, ScenarioAssumption DEF Now
  <2>4. Served(dev[d], result)
    BY <1>1, <2>3, WriteServed
  <2> HIDE DEF result
  <2> QED
    BY <2>1, <2>2, <2>4, PerformStep
<1>5. CASE WriteOut(d)
  <2> DEFINE result == WriteDO(dev[d], Now(d).byte)
  <2>1. Settled /\ ~Done(d) /\ Perform(d, result) /\ Advance(d, {"BO"})
    BY <1>5 DEF WriteOut, Ready
  <2>2. Served(dev[d], result)
    BY <1>1, WriteDOServed
  <2> HIDE DEF result
  <2> QED
    BY <2>1, <2>2, AdvanceStep, PerformStep
<1>6. CASE ReadIn(d)
  <2> DEFINE result == ReadDI(dev[d])
  <2>1. Settled /\ ~Done(d) /\ Perform(d, result) /\ Advance(d, {"BI"})
    BY <1>6 DEF ReadIn, Ready
  <2>2. Served(dev[d], result)
    BY <1>1, ReadServed
  <2> HIDE DEF result
  <2> QED
    BY <2>1, <2>2, AdvanceStep, PerformStep
<1>7. ASSUME NEW used, ~Done(d), Advance(d, used), UNCHANGED <<dev, stack>>
      PROVE  BusInv'
  <2>1. /\ scenario' = scenario /\ DOMAIN pc' = Devices
        /\ \A e \in Devices : pc'[e] \in 0..Len(scenario[e])
    BY <1>7, AdvanceStep
  <2>2. Shapes'
    BY <1>7, <2>1 DEF BusInv, Shapes
  <2>3. Inside' /\ Told' /\ SicLast' /\ Owed'
    BY <1>7 DEF BusInv, Inside, Told, SicLast, Owed, InPhase, Telling, LastUpdates, Level
  <2> QED
    BY <2>2, <2>3 DEF BusInv
<1>8. CASE Acknowledge(d)
  BY <1>7, <1>8 DEF Acknowledge, Ready
<1>9. CASE Poll(d)
  BY <1>7, <1>9 DEF Poll, Ready
<1> QED
  BY <1>2, <1>3, <1>4, <1>5, <1>6, <1>8, <1>9 DEF Guest

----------------------------------------------------------------------------
(* The theorem.                                                            *)

LEMMA BusKept == BusInv /\ [Next]_vars => BusInv'
<1> SUFFICES ASSUME BusInv, [Next]_vars PROVE BusInv'
  OBVIOUS
<1>1. CASE Bus
  BY <1>1, UpdateStep, AcceptorStep, RequestStep, ControllerStep, EndStep, DriveStep, TellStep,
     SrqStep, SicStep DEF Bus
<1>2. CASE Timers
  BY <1>2, TimerStep DEF Timers
<1>3. CASE Guests
  BY <1>3, GuestStep DEF Guests
<1>4. CASE UNCHANGED vars
  BY <1>4 DEF vars, BusInv, Shapes, Inside, Told, SicLast, Owed, InPhase, Telling, LastUpdates, Level
<1> QED
  BY <1>1, <1>2, <1>3, <1>4 DEF Next

\* When no call is in progress, no chip is inside update_fsm(), none has a change still to look
\* at, and each knows the level of every line -- whatever the processors do and however deeply
\* the calls of set_signal() were nested (tms9914.cpp:627-660, 710-726).
THEOREM EveryLineIsKnown == Spec => []LinesKnown
<1>1. BusInv => LinesKnown
  <2> SUFFICES ASSUME BusInv, Settled, NEW d \in Devices
               PROVE  /\ ~dev[d].no_reflection /\ ~dev[d].ext_state_change
                      /\ dev[d].ext = {s \in Signals : Level(s)}
    BY DEF LinesKnown
  <2>1. dev[d].ext \subseteq Signals
    BY DEF BusInv, Shapes
  <2> QED
    BY <2>1, AtSettled DEF Has
<1> QED
  BY <1>1, InitBus, BusKept, PTL DEF Spec
=============================================================================

------------------------------- MODULE Keyboard -------------------------------
(***************************************************************************)
(* From a key on the host to the byte the guest reads: sdlconsole_loop     *)
(* (src/src/sdlconsole.c) turns one SDL event into a key and its           *)
(* modifiers, main.c hands them to the keyboard controller, and the        *)
(* tick of the 8741 (src/src/i8741a.c), a timer callback, puts a byte on   *)
(* the data port and raises irqKeyboard.  Everything runs on the main      *)
(* thread; what interleaves is events, ticks and guest instructions.       *)
(*                                                                         *)
(* A byte is named by what it means: a key in a column (a set of modifier  *)
(* bits) of keyTranslateMatrix, "up" (0xFF), "null" (0x00), "wdt" (0xFD).  *)
(***************************************************************************)
EXTENDS Integers, FiniteSets

CONSTANTS
  PlainKeys,        \* keys of keyTranslateMatrix
  ModifierKeys,     \* host keys that set a modifier bit
  DebugKeys,        \* F1, F2: never reach the guest when they go down
  WdtValues,        \* what the guest writes to configuration register 3
  ByteRange         \* values of wdt1, a uint8_t (256)

ModifierOf == [LCTRL |-> 6, RCTRL |-> 6, LALT |-> 5, RALT |-> 5,
               LSHIFT |-> 4, RSHIFT |-> 4]

ASSUME KeyboardAssumption ==
  /\ ModifierKeys \subseteq DOMAIN ModifierOf
  /\ PlainKeys \cap (ModifierKeys \cup {"up", "null", "wdt"}) = {}
  /\ DebugKeys \cap (PlainKeys \cup ModifierKeys) = {}
  /\ ByteRange \in Nat \ {0}
  /\ WdtValues \subseteq 0 .. ByteRange - 1

VARIABLES
  held,             \* keys down on the host
  modKeys,          \* sdlconsole_modKeys: the bits that are set
  scanCode, gotSDLcode,
  busData,          \* the byte on the data port
  irqKeyboard,      \* requested and not yet acknowledged
  configRegister3, selected, wdt1,
  scanOn, wdtOn,    \* bits 0 and 1 of globalState
  timerOverflowCount,
  latest,           \* history: what the last key event means to the guest
  rightUsed,        \* history: has a right CTRL or ALT been pressed?
  shared            \* history: have two keys of one modifier been down at once?

host  == <<held, modKeys, rightUsed, shared>>
slot  == <<scanCode, gotSDLcode, latest>>
bus   == <<busData, irqKeyboard>>
guest == <<configRegister3, selected, scanOn, wdtOn>>
vars  == <<host, slot, bus, guest, wdt1, timerOverflowCount>>

HostKeys == PlainKeys \cup ModifierKeys \cup DebugKeys
Code(name, mods) == [key |-> name, column |-> mods]
Up       == Code("up", {})
Null     == Code("null", {})
Codes    == [key : PlainKeys, column : SUBSET {4, 5, 6}] \cup {Up, Null}

-----------------------------------------------------------------------------
(* sdlconsole_loop and gridKeyboard8741_getScanCode *)

\* translateScancode: the matrix lists no modifier keys.
Translate(k, mods) == IF k \in PlainKeys THEN Code(k, mods \ {7}) ELSE Null

\* Mutant: a code that waits is kept.
getScanCodeOnce(k, mods) ==
  /\ scanCode' = IF gotSDLcode THEN scanCode
                 ELSE IF 7 \in mods THEN Translate(k, mods) ELSE Up
  /\ gotSDLcode' = TRUE
getScanCode(k, mods) == /\ scanCode' = IF 7 \in mods THEN Translate(k, mods) ELSE Up
                        /\ gotSDLcode' = TRUE

Bits(K) == {ModifierOf[k] : k \in K \cap ModifierKeys}

\* SDL_KEYDOWN, repeats left out as the code does.
KeyDown(k) ==
  /\ k \notin held
  /\ held' = held \cup {k}
  /\ rightUsed' = (rightUsed \/ k \in {"RCTRL", "RALT"})
  /\ shared' = (shared \/ \E h \in held : Bits({h}) # {} /\ Bits({h}) = Bits({k}))
  /\ IF k \in DebugKeys
     THEN UNCHANGED <<modKeys, slot>>
     ELSE /\ modKeys' = modKeys \cup Bits({k}) \cup {7}
          /\ getScanCode(k, modKeys')
          /\ latest' = IF k \in PlainKeys THEN Code(k, Bits(held)) ELSE Null
  /\ UNCHANGED <<bus, guest, wdt1, timerOverflowCount>>

\* Mutant: no modifier key clears its bit.
KeyUpSticky(k) ==
  /\ k \in held
  /\ held' = held \ {k}
  /\ modKeys' = modKeys \ {7}
  /\ getScanCode(k, modKeys')
  /\ latest' = Up
  /\ UNCHANGED <<rightUsed, shared, bus, guest, wdt1, timerOverflowCount>>

\* SDL_KEYUP: the right CTRL and ALT keys clear no bit; F1 and F2 count here.
KeyUp(k) ==
  /\ k \in held
  /\ held' = held \ {k}
  /\ modKeys' = modKeys \ ({7} \cup Bits({k} \ {"RCTRL", "RALT"}))
  /\ getScanCode(k, modKeys')
  /\ latest' = Up
  /\ UNCHANGED <<rightUsed, shared, bus, guest, wdt1, timerOverflowCount>>

-----------------------------------------------------------------------------
(* gridKeyboard8741_tickCallback: every second tick does the work *)

sendData(b) == busData' = b /\ irqKeyboard' = TRUE

IdleTick ==
  /\ timerOverflowCount > 1
  /\ timerOverflowCount' = timerOverflowCount - 1
  /\ UNCHANGED <<host, slot, bus, guest, wdt1>>

CountDown == (wdt1 + ByteRange - 1) % ByteRange

\* Mutants of WorkTick: a waiting code hides the end of the watchdog; a code
\* that has been sent goes on waiting.
WorkTickHides ==
  /\ timerOverflowCount <= 1
  /\ timerOverflowCount' = 2
  /\ wdt1' = IF wdtOn THEN CountDown ELSE wdt1
  /\ IF gotSDLcode
     THEN IF scanOn THEN sendData(scanCode) /\ scanCode' = Up /\ gotSDLcode' = FALSE
          ELSE UNCHANGED <<bus, scanCode, gotSDLcode>>
     ELSE /\ IF wdtOn /\ CountDown = 0 THEN sendData(Code("wdt", {}))
             ELSE UNCHANGED bus
          /\ UNCHANGED <<scanCode, gotSDLcode>>
  /\ UNCHANGED <<host, latest, guest>>
WorkTickRepeats ==
  /\ timerOverflowCount <= 1
  /\ timerOverflowCount' = 2
  /\ wdt1' = IF wdtOn THEN CountDown ELSE wdt1
  /\ \/ gotSDLcode /\ scanOn /\ sendData(scanCode)
     \/ ~(gotSDLcode /\ scanOn) /\ UNCHANGED bus
  /\ UNCHANGED <<scanCode, gotSDLcode, host, latest, guest>>

WorkTick ==
  LET expires == wdtOn /\ CountDown = 0
      sends   == gotSDLcode /\ scanOn
  IN
  /\ timerOverflowCount <= 1
  /\ timerOverflowCount' = 2
  /\ wdt1' = IF wdtOn THEN CountDown ELSE wdt1
  /\ \/ sends /\ sendData(scanCode) /\ scanCode' = Up /\ gotSDLcode' = FALSE
     \/ ~sends /\ expires /\ sendData(Code("wdt", {})) /\ UNCHANGED <<scanCode, gotSDLcode>>
     \/ ~sends /\ ~expires /\ UNCHANGED <<bus, scanCode, gotSDLcode>>
  /\ UNCHANGED <<host, latest, guest>>

-----------------------------------------------------------------------------
(* The guest: gridKeyboard8741_read and _write *)

\* The handler acknowledges the request and reads the data port.
ReadData == /\ irqKeyboard
            /\ irqKeyboard' = FALSE
            /\ UNCHANGED <<host, slot, busData, guest, wdt1, timerOverflowCount>>

\* Data write: only register 3, the watchdog's reload value, is ever used.
WriteConfig ==
  /\ IF selected THEN configRegister3' \in WdtValues ELSE UNCHANGED configRegister3
  /\ UNCHANGED <<host, slot, bus, selected, scanOn, wdtOn, wdt1, timerOverflowCount>>

\* Command write, bit 7 off: the whole of globalState.
WriteState ==
  /\ scanOn' \in BOOLEAN /\ wdtOn' \in BOOLEAN
  /\ UNCHANGED <<host, slot, bus, configRegister3, selected, wdt1,
                 timerOverflowCount>>

\* Command write, bits 7 and 6 "10": choose a configuration register.
SelectConfig ==
  /\ selected' \in BOOLEAN
  /\ UNCHANGED <<host, slot, bus, configRegister3, scanOn, wdtOn, wdt1,
                 timerOverflowCount>>

\* Command write, bits 7 and 6 "11": reload the watchdog.
KickWdt ==
  /\ wdt1' = configRegister3
  /\ UNCHANGED <<host, slot, bus, guest, timerOverflowCount>>

-----------------------------------------------------------------------------
Init ==
  /\ held = {} /\ modKeys = {} /\ rightUsed = FALSE /\ shared = FALSE
  /\ scanCode = Null /\ gotSDLcode = FALSE /\ latest = Null
  /\ busData = Null /\ irqKeyboard = FALSE
  /\ configRegister3 \in WdtValues /\ selected = FALSE
  /\ scanOn = FALSE /\ wdtOn = FALSE
  /\ wdt1 = 0
  /\ timerOverflowCount = 0

Tick == IdleTick \/ WorkTick

Next == \/ \E k \in HostKeys : KeyDown(k) \/ KeyUp(k)
        \/ Tick
        \/ ReadData \/ WriteConfig \/ WriteState \/ SelectConfig \/ KickWdt

\* The tick is a timer callback: it keeps coming.
Spec == Init /\ [][Next]_vars /\ WF_vars(Tick)

-----------------------------------------------------------------------------
(* Properties *)

TypeOK ==
  /\ held \subseteq HostKeys /\ modKeys \subseteq {4, 5, 6, 7}
  /\ scanCode \in Codes /\ latest \in Codes
  /\ busData \in Codes \cup {Code("wdt", {})}
  /\ gotSDLcode \in BOOLEAN /\ irqKeyboard \in BOOLEAN
  /\ configRegister3 \in WdtValues /\ selected \in BOOLEAN
  /\ scanOn \in BOOLEAN /\ wdtOn \in BOOLEAN
  /\ wdt1 \in 0 .. ByteRange - 1
  /\ timerOverflowCount \in 0 .. 2
  /\ rightUsed \in BOOLEAN /\ shared \in BOOLEAN

\* The modifier bits are those of the modifier keys that are down
\* (sdlconsole.c:153-177), as long as no right CTRL or ALT has been used and
\* no two keys of one modifier have been down together.
ModifiersMatchKeys == ~rightUsed /\ ~shared => modKeys \ {7} = Bits(held)

\* What waits in the one-byte slot is what the last key event means, in the
\* column of the modifiers then held: an older code never hides a newer one
\* (i8741a.c:99-105, 190-193).
SlotHoldsLatest == gotSDLcode /\ ~rightUsed /\ ~shared => scanCode = latest

\* When the watchdog runs out the guest is told so, or is given the key that
\* was waiting: never neither (i8741a.c:184-192).
ExpiryIsReported ==
  [][wdt1 = 1 /\ wdt1' = 0 /\ timerOverflowCount' > timerOverflowCount
       => /\ irqKeyboard'
          /\ busData' = IF gotSDLcode /\ ~gotSDLcode' THEN scanCode ELSE Code("wdt", {})]_vars

\* A waiting code reaches the data port, or the guest keeps scanning off
\* now and then (i8741a.c:190).
KeyReachesBus == gotSDLcode ~> (~gotSDLcode \/ ~scanOn)
==============================================================================

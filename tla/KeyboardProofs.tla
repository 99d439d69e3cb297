---------------------------- MODULE KeyboardProofs ----------------------------
(***************************************************************************)
(* Theorems about Keyboard, for any keys, modifier keys and watchdog       *)
(* values.                                                                 *)
(***************************************************************************)
EXTENDS Keyboard, TLAPS

\* The codes that keys and their releases give.
LEMMA CodeTypes ==
  /\ Up \in Codes /\ Null \in Codes
  /\ \A k, mods : mods \subseteq {4, 5, 6, 7} => Translate(k, mods) \in Codes
BY DEF Up, Null, Codes, Code, Translate

\* Modifier bits are 4, 5 and 6.
LEMMA BitTypes == \A K : Bits(K) \subseteq {4, 5, 6}
<1>1. \A k \in ModifierKeys : ModifierOf[k] \in {4, 5, 6}
  BY KeyboardAssumption DEF ModifierOf
<1> QED
  BY <1>1 DEF Bits

\* Every variable keeps its type (sdlconsole.c:140-180, i8741a.c:99-212).
THEOREM TypeCorrect == Spec => []TypeOK
<1>1. Init => TypeOK
  <2> SUFFICES ASSUME Init
               PROVE  TypeOK
    OBVIOUS
  <2>1. wdt1 \in 0 .. ByteRange - 1 /\ timerOverflowCount \in 0 .. 2
    BY KeyboardAssumption DEF Init
  <2>2. Null \in Codes /\ Null \in Codes \cup {Code("wdt", {})}
    BY CodeTypes
  <2> QED
    BY <2>1, <2>2, Zenon DEF Init, TypeOK
<1>2. TypeOK /\ [Next]_vars => TypeOK'
  <2> SUFFICES ASSUME TypeOK, [Next]_vars
               PROVE  TypeOK'
    OBVIOUS
  <2> USE KeyboardAssumption DEF TypeOK, host, slot, bus, guest
  <2>1. ASSUME NEW k \in HostKeys, KeyDown(k)
        PROVE  TypeOK'
    <3>1. modKeys' \subseteq {4, 5, 6, 7}
      BY <2>1, BitTypes DEF KeyDown
    <3>2. Code(k, Bits(held)) \in Codes \/ k \notin PlainKeys
      BY BitTypes DEF Code, Codes
    <3>3. scanCode' \in Codes /\ latest' \in Codes
      <4>1. Translate(k, modKeys') \in Codes
        BY <3>1, CodeTypes
      <4> QED
        BY <2>1, <3>2, <4>1, CodeTypes DEF KeyDown, getScanCode
    <3>4. gotSDLcode' \in BOOLEAN /\ rightUsed' \in BOOLEAN /\ shared' \in BOOLEAN
      BY <2>1 DEF KeyDown, getScanCode
    <3>5. held' \subseteq HostKeys
      BY <2>1 DEF KeyDown
    <3>6. UNCHANGED <<bus, guest, wdt1, timerOverflowCount>>
      BY <2>1 DEF KeyDown
    <3> QED
      BY <3>1, <3>3, <3>4, <3>5, <3>6
  <2>2. ASSUME NEW k \in HostKeys, KeyUp(k)
        PROVE  TypeOK'
    BY <2>2, CodeTypes DEF KeyUp, getScanCode
  <2>3. CASE IdleTick
    BY <2>3 DEF IdleTick
  <2>4. CASE WorkTick
    <3>1. CountDown \in 0 .. ByteRange - 1
      BY DEF CountDown
    <3>2. busData' \in Codes \cup {Code("wdt", {})} /\ irqKeyboard' \in BOOLEAN
      BY <2>4, CodeTypes DEF WorkTick, sendData
    <3>3. scanCode' \in Codes /\ gotSDLcode' \in BOOLEAN
      BY <2>4, CodeTypes DEF WorkTick
    <3>4. wdt1' \in 0 .. ByteRange - 1 /\ timerOverflowCount' \in 0 .. 2
      BY <2>4, <3>1 DEF WorkTick
    <3>5. UNCHANGED <<host, latest, guest>>
      BY <2>4 DEF WorkTick
    <3> QED
      BY <3>2, <3>3, <3>4, <3>5
  <2>5. CASE ReadData
    BY <2>5 DEF ReadData
  <2>6. CASE WriteConfig
    BY <2>6 DEF WriteConfig
  <2>7. CASE WriteState
    BY <2>7 DEF WriteState
  <2>8. CASE SelectConfig
    BY <2>8 DEF SelectConfig
  <2>9. CASE KickWdt
    BY <2>9 DEF KickWdt
  <2>10. CASE UNCHANGED vars
    BY <2>10 DEF vars
  <2> QED
    BY <2>1, <2>2, <2>3, <2>4, <2>5, <2>6, <2>7, <2>8, <2>9, <2>10 DEF Next, Tick
<1> QED
  BY <1>1, <1>2, PTL DEF Spec

-----------------------------------------------------------------------------
(* The modifier bits.  That releasing a key clears no other key's bit needs *)
(* that no two keys of one modifier are down, and that the key is not one   *)
(* of the right ones.                                                       *)

NoRight == ~rightUsed => "RCTRL" \notin held /\ "RALT" \notin held
NoTwins == ~shared =>
  \A h, k \in held \cap ModifierKeys : ModifierOf[h] = ModifierOf[k] => h = k
ModifierInv == NoRight /\ NoTwins /\ ModifiersMatchKeys

\* The modifier bits of one key.
LEMMA BitsOfOne ==
  ASSUME NEW k
  PROVE  /\ k \in ModifierKeys => Bits({k}) = {ModifierOf[k]}
         /\ k \notin ModifierKeys => Bits({k}) = {}
BY DEF Bits

\* A key going down keeps the modifier bits those of the keys held.
LEMMA DownKeepsModifiers ==
  ASSUME TypeOK, ModifierInv, NEW k \in HostKeys, KeyDown(k)
  PROVE  ModifierInv'
<1>1. NoRight'
  BY DEF ModifierInv, NoRight, KeyDown
<1>2. NoTwins'
  <2> SUFFICES ASSUME ~shared'
               PROVE  \A h \in held \cap ModifierKeys :
                        k \in ModifierKeys => ModifierOf[h] # ModifierOf[k]
    BY DEF ModifierInv, NoTwins, KeyDown
  <2> SUFFICES ASSUME NEW h \in held \cap ModifierKeys, k \in ModifierKeys,
                      ModifierOf[h] = ModifierOf[k]
               PROVE  FALSE
    OBVIOUS
  <2>1. Bits({h}) # {} /\ Bits({h}) = Bits({k})
    BY BitsOfOne
  <2> QED
    BY <2>1 DEF KeyDown
<1>3. ModifiersMatchKeys'
  <2>1. Bits(held') = Bits(held) \cup Bits({k})
    BY DEF Bits, KeyDown
  <2>2. 7 \notin Bits(held) /\ 7 \notin Bits({k})
    BY BitTypes
  <2>3. CASE k \in DebugKeys
    <3>1. Bits({k}) = {}
      BY <2>3, KeyboardAssumption, BitsOfOne
    <3> QED
      BY <2>1, <2>3, <3>1 DEF ModifierInv, ModifiersMatchKeys, KeyDown
  <2>4. CASE k \notin DebugKeys
    BY <2>1, <2>2, <2>4 DEF ModifierInv, ModifiersMatchKeys, KeyDown
  <2> QED
    BY <2>3, <2>4
<1> QED
  BY <1>1, <1>2, <1>3 DEF ModifierInv

\* So does a key coming up.
LEMMA UpKeepsModifiers ==
  ASSUME TypeOK, ModifierInv, NEW k \in HostKeys, KeyUp(k)
  PROVE  ModifierInv'
<1>1. NoRight' /\ NoTwins'
  BY DEF ModifierInv, NoRight, NoTwins, KeyUp
<1>2. ModifiersMatchKeys'
  <2> SUFFICES ASSUME ~rightUsed', ~shared'
               PROVE  modKeys' \ {7} = Bits(held')
    BY DEF ModifiersMatchKeys
  <2>1. ~rightUsed /\ ~shared /\ k \in held /\ held' = held \ {k}
    BY DEF KeyUp
  <2>2. {k} \ {"RCTRL", "RALT"} = {k}
    BY <2>1 DEF ModifierInv, NoRight
  <2>3. modKeys' \ {7} = Bits(held) \ Bits({k})
    BY <2>1, <2>2 DEF ModifierInv, ModifiersMatchKeys, KeyUp
  <2>4. Bits(held') = Bits(held) \ Bits({k})
    <3>1. CASE k \notin ModifierKeys
      BY <3>1, <2>1, BitsOfOne DEF Bits
    <3>2. CASE k \in ModifierKeys
      <4>1. \A h \in held \cap ModifierKeys : ModifierOf[h] = ModifierOf[k] <=> h = k
        BY <2>1, <3>2 DEF ModifierInv, NoTwins
      <4> QED
        BY <3>2, <4>1, <2>1, BitsOfOne DEF Bits
    <3> QED
      BY <3>1, <3>2
  <2> QED
    BY <2>3, <2>4
<1> QED
  BY <1>1, <1>2 DEF ModifierInv

\* So does every step.
LEMMA ModifierInduction == TypeOK /\ ModifierInv /\ [Next]_vars => ModifierInv'
<1> SUFFICES ASSUME TypeOK, ModifierInv, [Next]_vars
             PROVE  ModifierInv'
  OBVIOUS
<1>1. ASSUME NEW k \in HostKeys, KeyDown(k)
      PROVE  ModifierInv'
  BY <1>1, DownKeepsModifiers
<1>2. ASSUME NEW k \in HostKeys, KeyUp(k)
      PROVE  ModifierInv'
  BY <1>2, UpKeepsModifiers
<1>3. CASE UNCHANGED host
  BY <1>3 DEF host, ModifierInv, NoRight, NoTwins, ModifiersMatchKeys
<1> QED
  BY <1>1, <1>2, <1>3 DEF Next, Tick, IdleTick, WorkTick, ReadData, WriteConfig, WriteState,
     SelectConfig, KickWdt, vars

\* No key is held at first, and no modifier bit set.
LEMMA ModifierInit == Init => ModifierInv
BY DEF Init, ModifierInv, NoRight, NoTwins, ModifiersMatchKeys, Bits

\* Whatever keys are pressed and released, the modifier bits are those of the
\* keys that are down, unless a right CTRL or ALT or two keys of one modifier
\* are used (sdlconsole.c:153-177).
THEOREM ModifiersCorrect == Spec => []ModifiersMatchKeys
<1>1. ModifierInv => ModifiersMatchKeys
  BY DEF ModifierInv
<1> QED
  BY <1>1, ModifierInit, ModifierInduction, TypeCorrect, PTL DEF Spec

-----------------------------------------------------------------------------
\* Only a key event fills the slot, and a tick that sends empties it: what
\* waits is what the last event means, in the column of the modifiers held
\* (i8741a.c:99-105, 190-193).
THEOREM SlotCorrect == Spec => []SlotHoldsLatest
<1>1. Init => SlotHoldsLatest
  BY DEF Init, SlotHoldsLatest
<1>2. TypeOK /\ ModifierInv /\ SlotHoldsLatest /\ [Next]_vars => SlotHoldsLatest'
  <2> SUFFICES ASSUME TypeOK, ModifierInv, SlotHoldsLatest, [Next]_vars
               PROVE  SlotHoldsLatest'
    OBVIOUS
  <2>1. ASSUME NEW k \in HostKeys, KeyDown(k), ~rightUsed', ~shared'
        PROVE  gotSDLcode' => scanCode' = latest'
    <3>1. ~rightUsed /\ ~shared
      BY <2>1 DEF KeyDown
    <3>2. CASE k \in DebugKeys
      BY <2>1, <3>1, <3>2 DEF KeyDown, slot, SlotHoldsLatest
    <3>3. CASE k \in PlainKeys
      <4>1. Bits({k}) = {} /\ k \notin DebugKeys
        BY <3>3, KeyboardAssumption, BitsOfOne
      <4>2. modKeys' \ {7} = Bits(held) /\ 7 \in modKeys'
        BY <2>1, <3>1, <4>1 DEF ModifierInv, ModifiersMatchKeys, KeyDown
      <4> QED
        BY <2>1, <3>3, <4>1, <4>2 DEF KeyDown, getScanCode, Translate
    <3>4. CASE k \notin DebugKeys /\ k \notin PlainKeys
      BY <2>1, <3>4 DEF KeyDown, getScanCode, Translate
    <3> QED
      BY <3>2, <3>3, <3>4
  <2>2. ASSUME NEW k \in HostKeys, KeyUp(k)
        PROVE  scanCode' = latest'
    BY <2>2 DEF KeyUp, getScanCode
  <2>3. CASE WorkTick
    BY <2>3 DEF WorkTick, host, SlotHoldsLatest
  <2>4. CASE UNCHANGED <<host, slot>>
    BY <2>4 DEF host, slot, SlotHoldsLatest
  <2> QED
    BY <2>1, <2>2, <2>3, <2>4 DEF SlotHoldsLatest, Next, Tick, IdleTick, ReadData, WriteConfig,
       WriteState, SelectConfig, KickWdt, vars
<1> QED
  BY <1>1, <1>2, ModifierInit, ModifierInduction, TypeCorrect, PTL DEF Spec

-----------------------------------------------------------------------------
\* For any range of wdt1: the tick that counts it down to 0 leaves either the
\* watchdog's byte on the port or the code that was waiting, with the interrupt
\* requested (i8741a.c:183-193).
THEOREM ExpiryReported == Spec => ExpiryIsReported
<1> DEFINE Step == wdt1 = 1 /\ wdt1' = 0 /\ timerOverflowCount' > timerOverflowCount
       => /\ irqKeyboard'
          /\ busData' = IF gotSDLcode /\ ~gotSDLcode' THEN scanCode ELSE Code("wdt", {})
<1>1. TypeOK /\ [Next]_vars => Step
  <2> SUFFICES ASSUME TypeOK, [Next]_vars, wdt1 = 1, wdt1' = 0,
                      timerOverflowCount' > timerOverflowCount
               PROVE  /\ irqKeyboard'
                      /\ busData' = IF gotSDLcode /\ ~gotSDLcode' THEN scanCode
                                    ELSE Code("wdt", {})
    OBVIOUS
  <2>1. timerOverflowCount' # timerOverflowCount
    BY DEF TypeOK
  <2>2. ~IdleTick
    BY DEF IdleTick, TypeOK
  <2>3. WorkTick
    BY <2>1, <2>2 DEF Next, Tick, KeyDown, KeyUp, ReadData, WriteConfig, WriteState,
       SelectConfig, KickWdt, vars
  <2>4. wdtOn /\ CountDown = 0
    BY <2>3 DEF WorkTick
  <2> QED
    BY <2>3, <2>4 DEF WorkTick, sendData
<1>2. TypeOK /\ [Next]_vars => [Step]_vars
  BY <1>1
<1> QED
  BY <1>2, TypeCorrect, PTL DEF Spec, ExpiryIsReported
=============================================================================

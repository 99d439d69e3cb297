------------------------------ MODULE FlatMemory ------------------------------
(***************************************************************************)
(* What the guest relies on once the machine is on, with no tables,        *)
(* pointers or callbacks: writable memory answers with the byte last       *)
(* written to that address, the other addresses always with the same one.  *)
(* Devices answer as they like and leave memory alone.                     *)
(***************************************************************************)
CONSTANTS Addresses,   \* addresses that are memory, or nothing at all
          Writable,    \* those that keep what is written
          Fixed,       \* Fixed[a]: what any other address answers
          Bytes,       \* values of a byte
          Off          \* "the machine has not been started"

VARIABLES memory,      \* contents of every address, or Off
          bus          \* the last access: [op, addr, byte]

flatVars == <<memory, bus>>

Init == memory = Off

\* What writable memory holds at first is anybody's guess.
PowerOn == /\ memory = Off
           /\ memory' \in [Addresses -> Bytes]
           /\ \A a \in Addresses \ Writable : memory'[a] = Fixed[a]
           /\ UNCHANGED bus

IsMemory(access) == access.op \in {"read", "write"} /\ access.addr \in Addresses

Read == /\ memory # Off
        /\ IsMemory(bus') /\ bus'.op = "read"
        /\ bus'.byte = memory[bus'.addr]
        /\ UNCHANGED memory

Write == /\ memory # Off
         /\ IsMemory(bus') /\ bus'.op = "write"
         /\ bus'.byte \in Bytes
         /\ memory' = IF bus'.addr \in Writable
                      THEN [memory EXCEPT ![bus'.addr] = bus'.byte]
                      ELSE memory

Device == /\ memory # Off
          /\ ~IsMemory(bus')
          /\ UNCHANGED memory

Next == PowerOn \/ Read \/ Write \/ Device

Spec == Init /\ [][Next]_flatVars
=============================================================================

---------------------------- MODULE GpibChannel ----------------------------
(***************************************************************************)
(* What the three-wire handshake of the GPIB promises for data bytes,      *)
(* without lines, chips or timers: a talker says a byte to an audience,    *)
(* every member hears it exactly once before the talker may say the next,  *)
(* and no member hears a byte while the one before is still in its         *)
(* mailbox.  Only a controller or a reset may break a byte off.            *)
(***************************************************************************)
CONSTANTS
  Devices, Bytes,
  Nobody         \* not a device

VARIABLES
  speaker,       \* the device whose byte is valid on the bus, or Nobody
  said,          \* that byte
  due,           \* the members of its audience that have not heard it yet
  mail,          \* mail[d]: the last byte d heard
  unread,        \* the devices with a byte their processor has not taken
  broken         \* the devices that are being interrupted, reset or unaddressed

Init ==
  /\ speaker = Nobody
  /\ said \in Bytes
  /\ due = {}
  /\ mail \in [Devices -> Bytes]
  /\ unread = {}
  /\ broken \in SUBSET Devices

\* A talker puts a byte on the bus for an audience.
Say(d) ==
  /\ speaker = Nobody
  /\ speaker' = d
  /\ said' \in Bytes
  /\ due' \in SUBSET (Devices \ {d})
  /\ UNCHANGED <<mail, unread>>

\* One member of the audience hears it: its mailbox must be free.
Hear(d) ==
  /\ d \in due \ unread
  /\ due' = due \ {d}
  /\ mail' = [mail EXCEPT ![d] = said]
  /\ unread' = unread \cup {d}
  /\ UNCHANGED <<speaker, said>>

\* The talker withdraws the byte: everyone has heard it.
Over ==
  /\ speaker # Nobody /\ due = {}
  /\ speaker' = Nobody
  /\ due' = {}
  /\ UNCHANGED <<mail, unread>>

\* Processors take the bytes in the mailboxes; nothing else on the bus moves.
Take ==
  /\ unread' \subseteq unread
  /\ speaker # Nobody => said' = said
  /\ UNCHANGED <<speaker, due, mail>>

\* A member of the audience, or the talker with its byte, is interrupted.
Break ==
  /\ \/ /\ speaker \in broken'
        /\ speaker' = Nobody /\ due' = {}
     \/ /\ due' \subseteq due /\ due \ due' \subseteq broken'
        /\ UNCHANGED <<speaker, said>>
  /\ unread' \subseteq unread
  /\ UNCHANGED mail

Next == (\E d \in Devices : Say(d) \/ Hear(d)) \/ Over \/ Take \/ Break

\* Who is being interrupted is not the channel's to say: broken changes freely.
Spec == Init /\ [][Next]_<<speaker, said, due, mail, unread>>
=============================================================================

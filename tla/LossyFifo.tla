------------------------------ MODULE LossyFifo ------------------------------
(***************************************************************************)
(* What the FIFO of the bubble memory controller promises the two threads  *)
(* that share it (src/src/i7220.c:329-387), with no ring, counter or lock: *)
(* the byte a producer offers joins the end of the queue, the byte a       *)
(* consumer takes is the oldest one, each byte is taken at most once, and  *)
(* a byte is thrown away only once the fill count has been damaged.  While *)
(* the controller is told to empty the FIFO it promises nothing.           *)
(***************************************************************************)
EXTENDS Naturals, Sequences

CONSTANTS Capacity,  \* bytes the queue can hold
          Bytes,     \* values a byte can take
          None       \* "no byte in this hand"

VARIABLES queue,     \* bytes accepted and not yet taken
          offer,     \* byte the producer wants to add, or None
          hand,      \* byte the consumer took and has not returned yet, or None
          damaged,   \* has an update of the fill count been lost?
          emptied    \* is the command under way one that empties the queue?

fifoVars == <<queue, offer, hand, damaged>>

Init == /\ queue = <<>>
        /\ offer = None
        /\ hand = None
        /\ damaged = FALSE

\* The producer calls fifo_push(b).
Offer(b) == /\ offer = None
            /\ offer' = b
            /\ UNCHANGED <<queue, hand, damaged>>

\* The byte becomes visible to the consumer.
Put == /\ offer # None
       /\ Len(queue) < Capacity
       /\ queue' = Append(queue, offer)
       /\ offer' = None
       /\ UNCHANGED <<hand, damaged>>

\* fifo_push gives up on the byte: excused by a damaged count only.
Lose == /\ damaged
        /\ offer # None
        /\ offer' = None
        /\ UNCHANGED <<queue, hand, damaged>>

\* The consumer takes the oldest byte.
Take == /\ hand = None
        /\ queue # <<>>
        /\ hand' = Head(queue)
        /\ queue' = Tail(queue)
        /\ UNCHANGED <<offer, damaged>>

\* fifo_pop returns it to its caller.
Deliver == /\ hand # None
           /\ hand' = None
           /\ UNCHANGED <<queue, offer, damaged>>

\* One thread's update of the fill count overwrites the other's.
Damage == /\ damaged' = TRUE
          /\ UNCHANGED <<queue, offer, hand>>

Next == \/ \E b \in Bytes : Offer(b)
        \/ Put \/ Lose \/ Take \/ Deliver \/ Damage
        \/ emptied

Spec == Init /\ [][Next]_fifoVars
==============================================================================

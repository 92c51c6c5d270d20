------------------------------ MODULE EventFifo ------------------------------
(***************************************************************************)
(* What core/SpscQueue.h promises to its users: a bounded first-in         *)
(* first-out channel with flow control by credits.  A producer may hand    *)
(* over an event only while it holds a credit; a credit returns to it some *)
(* time after the consumer took an event (the producer sees the consumer's *)
(* index late, never early).  An event offered without a credit is dropped *)
(* and counted, and nothing else ever disappears.                          *)
(***************************************************************************)
EXTENDS Naturals, Sequences

CONSTANTS Room,        \* events the channel can hold
          Events       \* what may be sent through it

VARIABLES accepted,    \* every event the channel took, in order
          delivered,   \* every event the consumer was given, in order
          credit,      \* free places the producer knows of
          dropped      \* number of refused events

fifoVars == <<accepted, delivered, credit, dropped>>

InTransit == Len(accepted) - Len(delivered)

Init == /\ accepted = << >>
        /\ delivered = << >>
        /\ credit = Room
        /\ dropped = 0

\* An event enters, using up a credit.
Put == /\ credit > 0
       /\ \E e \in Events : accepted' = Append(accepted, e)
       /\ credit' = credit - 1
       /\ UNCHANGED <<delivered, dropped>>

\* An event is refused: only a producer without credit drops one.
Refuse == /\ credit = 0
          /\ dropped' = dropped + 1
          /\ UNCHANGED <<accepted, delivered, credit>>

\* The consumer is given the oldest event it has not seen yet.
Take == /\ InTransit > 0
        /\ delivered' = Append(delivered, accepted[Len(delivered) + 1])
        /\ UNCHANGED <<accepted, credit, dropped>>

\* The producer learns of places that became free.
Learn == /\ credit' \in credit .. Room
         /\ credit' + InTransit =< Room
         /\ UNCHANGED <<accepted, delivered, dropped>>

Next == Put \/ Refuse \/ Take \/ Learn

Spec == Init /\ [][Next]_fifoVars
==============================================================================

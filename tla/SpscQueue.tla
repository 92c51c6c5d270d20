------------------------------ MODULE SpscQueue ------------------------------
(***************************************************************************)
(* core/SpscQueue.h, the lock-free ring every thread of the program hands  *)
(* events to the audio callback with, at the grain of its atomic accesses, *)
(* together with RtAudioEngine::pushEvent, which lets several control      *)
(* threads (UI, player) be "the" producer one at a time.                   *)
(*                                                                         *)
(* The ring's two indices are C++ atomics read with acquire and written    *)
(* with release.  Such a load need not return the newest value: it returns *)
(* some value of the index no older than one this side has already seen.   *)
(* headSeen and tailSeen record that, so a load may be stale by any amount *)
(* coherence allows.                                                       *)
(***************************************************************************)
EXTENDS Naturals, Sequences

CONSTANTS Capacity,    \* slots of the ring, a power of two
          Producers,   \* control threads that call pushEvent
          NoThread,    \* nobody: the mutex is free
          MaxPushes    \* bound on the pushes of a behaviour

NoEvent == 0           \* a default-constructed slot
Slots == 0 .. Capacity - 1

ASSUME CapacityAssumption == Capacity \in Nat /\ Capacity >= 2
ASSUME ThreadAssumption == NoThread \notin Producers
ASSUME BoundAssumption == MaxPushes \in Nat

VARIABLES
    m_buffer,          \* the ring
    m_head,            \* next slot to read, stored by the consumer
    m_tail,            \* next slot to write, stored by the producer
    m_producerMutex,   \* holder of RtAudioEngine::m_producerMutex
    m_dropped,         \* RtAudioEngine::m_dropped
    pc,                \* pc[p]: where producer p is inside push()
    tailOf,            \* tailOf[p]: push's local tail
    valueOf,           \* valueOf[p]: the event p is pushing
    cpc,               \* where the consumer is inside pop()
    out,               \* pop's out parameter
    headSeen,          \* the newest m_head the producer side has loaded
    tailSeen,          \* the newest m_tail the consumer has loaded
    attempts,          \* pushes begun; the n-th one carries event n
    accepted,          \* history: events whose push returned true
    delivered          \* history: events pop() returned

ring == <<m_buffer, m_head, m_tail>>
producer == <<m_producerMutex, m_dropped, pc, tailOf, valueOf, headSeen, attempts>>
consumer == <<cpc, out, tailSeen>>
history == <<accepted, delivered>>
vars == <<ring, producer, consumer, history>>

\* (defect: the index is not masked)
NextSlotNoMask(i) == i + 1

\* (i + 1) & (Capacity - 1): the following slot of the ring.
NextSlot(i) == IF i + 1 = Capacity THEN 0 ELSE i + 1

\* (t - h) & (Capacity - 1): slots from h up to t, as size() computes it.
Distance(h, t) == IF t >= h THEN t - h ELSE (t + Capacity) - h

\* The slot k places after i.
Forward(i, k) == IF i + k >= Capacity THEN (i + k) - Capacity ELSE i + k

\* What an acquire load of an index may return: anything from the newest value
\* this side has seen to the newest value there is.
MayLoad(seen, newest) == {Forward(seen, k) : k \in 0 .. Distance(seen, newest)}

Init == /\ m_buffer = [i \in Slots |-> NoEvent]
        /\ m_head = 0
        /\ m_tail = 0
        /\ m_producerMutex = NoThread
        /\ m_dropped = 0
        /\ pc = [p \in Producers |-> "idle"]
        /\ tailOf = [p \in Producers |-> 0]
        /\ valueOf = [p \in Producers |-> NoEvent]
        /\ cpc = "idle"
        /\ out = NoEvent
        /\ headSeen = 0
        /\ tailSeen = 0
        /\ attempts = 0
        /\ accepted = << >>
        /\ delivered = << >>

-----------------------------------------------------------------------------
(* The producer side: pushEvent and push. *)

\* (defect: pushEvent does not lock)
NeverLocked == TRUE

\* The mutex pushEvent takes around the ring.
MutexFree == m_producerMutex = NoThread

\* pushEvent: lock m_producerMutex and enter push with a new event.
PushBegin(p) ==
    /\ pc[p] = "idle"
    /\ MutexFree
    /\ attempts < MaxPushes
    /\ m_producerMutex' = p
    /\ attempts' = attempts + 1
    /\ valueOf' = [valueOf EXCEPT ![p] = attempts + 1]
    /\ tailOf' = [tailOf EXCEPT ![p] = m_tail]
    /\ pc' = [pc EXCEPT ![p] = "check"]
    /\ UNCHANGED <<ring, consumer, history, m_dropped, headSeen>>

\* (defect: the ring is used to its last slot)
FullOnlyBeyond(tail, head) == FALSE

\* The ring is full when the tail would catch up with the head.
Full(tail, head) == NextSlot(tail) = head

\* push finds no room: pushEvent counts the drop and unlocks.
PushRefused(p) ==
    /\ pc[p] = "check"
    /\ \E h \in MayLoad(headSeen, m_head) :
          /\ Full(tailOf[p], h)
          /\ headSeen' = h
    /\ m_dropped' = m_dropped + 1
    /\ m_producerMutex' = NoThread
    /\ pc' = [pc EXCEPT ![p] = "idle"]
    /\ UNCHANGED <<ring, consumer, history, tailOf, valueOf, attempts>>

\* push finds room.
PushChecked(p) ==
    /\ pc[p] = "check"
    /\ \E h \in MayLoad(headSeen, m_head) :
          /\ ~Full(tailOf[p], h)
          /\ headSeen' = h
    /\ pc' = [pc EXCEPT ![p] = "write"]
    /\ UNCHANGED <<ring, consumer, history, m_producerMutex, m_dropped, tailOf,
                   valueOf, attempts>>

\* m_buffer[tail] = value
PushWrite(p) ==
    /\ pc[p] = "write"
    /\ m_buffer' = [m_buffer EXCEPT ![tailOf[p]] = valueOf[p]]
    /\ pc' = [pc EXCEPT ![p] = "publish"]
    /\ UNCHANGED <<m_head, m_tail, consumer, history, m_producerMutex, m_dropped,
                   tailOf, valueOf, headSeen, attempts>>

\* The release store of m_tail; push returns true and pushEvent unlocks.
PushPublish(p) ==
    /\ pc[p] = "publish"
    /\ m_tail' = NextSlot(tailOf[p])
    /\ accepted' = Append(accepted, valueOf[p])
    /\ m_producerMutex' = NoThread
    /\ pc' = [pc EXCEPT ![p] = "idle"]
    /\ UNCHANGED <<m_buffer, m_head, consumer, delivered, m_dropped, tailOf, valueOf,
                   headSeen, attempts>>

-----------------------------------------------------------------------------
(* The consumer side: pop, as renderBlock calls it until it returns false. *)

\* pop sees an empty ring, and returns false; the next block calls it again.
PopEmpty ==
    /\ cpc = "idle"
    /\ m_head \in MayLoad(tailSeen, m_tail)
    /\ tailSeen' = m_head
    /\ UNCHANGED <<ring, producer, history, cpc, out>>

\* pop sees an event up to the tail it loads.
PopChecked ==
    /\ cpc = "idle"
    /\ \E t \in MayLoad(tailSeen, m_tail) :
          /\ t # m_head
          /\ tailSeen' = t
    /\ cpc' = "read"
    /\ UNCHANGED <<ring, producer, history, out>>

\* out = m_buffer[head]
PopRead ==
    /\ cpc = "read"
    /\ out' = m_buffer[m_head]
    /\ cpc' = "publish"
    /\ UNCHANGED <<ring, producer, history, tailSeen>>

\* The release store of m_head; pop returns true.
PopPublish ==
    /\ cpc = "publish"
    /\ m_head' = NextSlot(m_head)
    /\ delivered' = Append(delivered, out)
    /\ cpc' = "idle"
    /\ UNCHANGED <<m_buffer, m_tail, producer, accepted, out, tailSeen>>

-----------------------------------------------------------------------------
Push(p) == PushRefused(p) \/ PushChecked(p) \/ PushWrite(p) \/ PushPublish(p)
Pop == PopEmpty \/ PopChecked \/ PopRead \/ PopPublish

Next == Pop \/ \E p \in Producers : PushBegin(p) \/ Push(p)

Spec == Init /\ [][Next]_vars

\* The audio callback keeps coming, and a store becomes visible in finite time:
\* a pop attempted again and again eventually loads the newest tail.  A control
\* thread that is inside push finishes it.
Fairness == /\ WF_vars(PopRead) /\ WF_vars(PopPublish)
            /\ SF_vars(PopChecked /\ tailSeen' = m_tail)
            /\ \A p \in Producers : WF_vars(Push(p))

FairSpec == Spec /\ Fairness

-----------------------------------------------------------------------------
(* Properties *)

InTransit == Len(accepted) - Len(delivered)

TypeOK == /\ m_buffer \in [Slots -> Nat]
          /\ m_head \in Slots /\ m_tail \in Slots
          /\ headSeen \in Slots /\ tailSeen \in Slots
          /\ m_producerMutex \in Producers \cup {NoThread}
          /\ pc \in [Producers -> {"idle", "check", "write", "publish"}]
          /\ tailOf \in [Producers -> Slots]
          /\ valueOf \in [Producers -> Nat]
          /\ cpc \in {"idle", "read", "publish"}
          /\ out \in Nat /\ m_dropped \in Nat /\ attempts \in Nat
          /\ accepted \in Seq(Nat) /\ delivered \in Seq(Nat)

\* The slot a producer is about to write is never the slot the consumer is about
\* to read, nor one another producer is about to write: the plain (non-atomic)
\* accesses to m_buffer never race.
NoSlotRace ==
    \A p \in Producers : pc[p] = "write" =>
        /\ cpc = "read" => tailOf[p] # m_head
        /\ \A q \in Producers \ {p} : pc[q] = "write" => tailOf[p] # tailOf[q]

\* What the consumer has been given is, event by event, what the ring accepted:
\* none lost, none twice, none out of order, no torn or unwritten slot.
DeliveredInOrder ==
    /\ Len(delivered) =< Len(accepted)
    /\ \A i \in 1 .. Len(delivered) : delivered[i] = accepted[i]

\* Every push is accounted for: accepted, counted in m_dropped, or still inside
\* push.
EveryPushAccounted ==
    attempts = Len(accepted) + m_dropped + (IF MutexFree THEN 0 ELSE 1)

\* Events enter the ring in the order the producers got the mutex.
AcceptedInPushOrder ==
    \A i, j \in 1 .. Len(accepted) : i < j => accepted[i] < accepted[j]

\* The ring of indices, loads and slots behaves as the bounded channel of
\* EventFifo: a drop happens only when the producer knows of no free place.
Fifo == INSTANCE EventFifo WITH
            Room <- Capacity - 1,
            Events <- 1 .. MaxPushes,
            credit <- Capacity - 1 - Distance(headSeen, m_tail),
            dropped <- m_dropped

ImplementsFifo == Fifo!Spec

\* While audio callbacks keep coming, an accepted event reaches the consumer.
AcceptedIsDelivered ==
    \A n \in 1 .. MaxPushes : (Len(accepted) >= n) ~> (Len(delivered) >= n)

==============================================================================

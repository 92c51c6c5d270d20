--------------------------- MODULE SpscQueueProofs ---------------------------
(***************************************************************************)
(* What the parts of the run of MCSpscQueue promise, one after the other.  *)
(*                                                                         *)
(* SpscQueue, for every capacity, every set of producers and every number  *)
(* of pushes: IInv says where the four indices (real and seen) lie on the  *)
(* ring relative to each other, who may be inside push, and that the slots *)
(* from m_head up to m_tail hold exactly the accepted events that were not *)
(* delivered yet.                                                          *)
(*                                                                         *)
(* AudioStreams, for every set of devices, drivers, rates, block sizes and *)
(* plug-ins, and for every refusal of a driver: Good says what every       *)
(* function of the engine keeps, one lemma a function; StreamsInv adds that *)
(* nothing runs while streams are suspended.                               *)
(*                                                                         *)
(* And ChannelMix, whose gains those streams reset, for every mixer and    *)
(* every room in the queue.                                                *)
(***************************************************************************)
EXTENDS SpscQueue, AudioStreams, TLAPS

CONSTANTS Channels, Mixes, Unity, Notes, Room
VARIABLES fader, m_lastCh, queue, m_ch, m_busGain, mode, lost, prepared

\* The faders.
M == INSTANCE ChannelMix

\* Going round the ring from the head the producers have seen, one meets the real
\* head, then the tail the consumer has seen, then the real tail.
ViewsInv == /\ Distance(headSeen, m_head) =< Distance(headSeen, tailSeen)
            /\ Distance(headSeen, tailSeen) =< Distance(headSeen, m_tail)

\* Only the holder of the mutex is inside push, with the current tail and the
\* newest event; once past the check it knows of a free slot.
ProducerInv ==
    \A p \in Producers :
        /\ pc[p] # "idle" <=> m_producerMutex = p
        /\ pc[p] # "idle" => /\ tailOf[p] = m_tail
                             /\ valueOf[p] = attempts
                             /\ attempts >= 1
        /\ pc[p] \in {"write", "publish"} => ~Full(m_tail, headSeen)
        /\ pc[p] = "publish" => m_buffer[m_tail] = attempts

ConsumerInv == /\ cpc # "idle" => tailSeen # m_head
               /\ cpc = "publish" => out = m_buffer[m_head]

\* The ring holds the accepted events that were not delivered, oldest first.
RingInv ==
    /\ Len(accepted) = Len(delivered) + Distance(m_head, m_tail)
    /\ \A k \in 0 .. Capacity - 1 :
          k < Distance(m_head, m_tail) =>
             m_buffer[Forward(m_head, k)] = accepted[Len(delivered) + k + 1]

\* Events are numbered in push order; the one being pushed is the newest.
OrderInv ==
    /\ attempts =< MaxPushes
    /\ \A i \in 1 .. Len(accepted) :
          /\ 1 =< accepted[i] /\ accepted[i] =< attempts
          /\ m_producerMutex # NoThread => accepted[i] < attempts

IInv == /\ TypeOK
        /\ ViewsInv
        /\ ProducerInv
        /\ ConsumerInv
        /\ RingInv
        /\ OrderInv
        /\ DeliveredInOrder
        /\ EveryPushAccounted
        /\ AcceptedInPushOrder
-----------------------------------------------------------------------------
USE CapacityAssumption, ThreadAssumption, BoundAssumption

(* Arithmetic of the ring. *)

\* Going one slot on stays on the ring.
LEMMA NextSlotInRing == \A i \in Slots : NextSlot(i) \in Slots
BY DEF NextSlot, Slots

\* A distance on the ring is less than its capacity.
LEMMA DistanceBounds ==
    \A h, t \in Slots : /\ Distance(h, t) \in Nat
                        /\ Distance(h, t) < Capacity
                        /\ Distance(h, t) = 0 <=> h = t
BY DEF Distance, Slots

\* Moving the far end on by one slot lengthens the distance by one, unless it
\* would meet the near end.
LEMMA DistanceGrows ==
    \A h, t \in Slots : NextSlot(t) # h => Distance(h, NextSlot(t)) = Distance(h, t) + 1
BY DEF Distance, Slots, NextSlot

\* Moving the near end on by one slot shortens a distance that is not zero.
LEMMA DistanceShrinks ==
    \A h, t \in Slots : h # t => Distance(NextSlot(h), t) = Distance(h, t) - 1
BY DEF Distance, Slots, NextSlot

\* An acquire load returns a slot between the newest one seen and the newest one.
LEMMA MayLoadBetween ==
    \A seen, newest \in Slots : \A i \in MayLoad(seen, newest) :
        /\ i \in Slots
        /\ Distance(seen, i) =< Distance(seen, newest)
        /\ Distance(seen, newest) = Distance(seen, i) + Distance(i, newest)
BY DEF MayLoad, Distance, Slots, Forward

\* Three slots met in this order going round: the distances add up.
LEMMA DistancesAdd ==
    \A a, b, c \in Slots : Distance(a, b) =< Distance(a, c) =>
        Distance(a, c) = Distance(a, b) + Distance(b, c)
BY DEF Distance, Slots

\* The seen head may advance up to the real head without changing the order in
\* which the indices are met.
LEMMA HeadSeenAdvances ==
    \A seen, head, tseen, tail, i \in Slots :
        /\ Distance(seen, head) =< Distance(seen, tseen)
        /\ Distance(seen, tseen) =< Distance(seen, tail)
        /\ Distance(seen, i) =< Distance(seen, head)
        => /\ Distance(i, head) =< Distance(i, tseen)
           /\ Distance(i, tseen) =< Distance(i, tail)
BY DEF Distance, Slots

\* A head that stands before the tail the consumer has seen stands before the tail.
LEMMA PassedTail ==
    \A seen, head, tseen, tail \in Slots :
        /\ Distance(seen, head) =< Distance(seen, tseen)
        /\ Distance(seen, tseen) =< Distance(seen, tail)
        /\ head # tseen
        => head # tail
BY DEF Distance, Slots

\* Different places counted from the same slot are different slots.
LEMMA ForwardPlaces ==
    \A h, t \in Slots :
        /\ Forward(h, Distance(h, t)) = t
        /\ Forward(h, 0) = h
        /\ \A k \in 0 .. Capacity - 1 :
              /\ Forward(h, k) \in Slots
              /\ k # Distance(h, t) => Forward(h, k) # t
              /\ k + 1 < Capacity => Forward(NextSlot(h), k) = Forward(h, k + 1)
BY DEF Distance, Slots, Forward, NextSlot

\* The numbers a step calculates with.
LEMMA Numbers ==
    TypeOK => /\ m_head \in Slots /\ m_tail \in Slots
              /\ headSeen \in Slots /\ tailSeen \in Slots
              /\ Len(accepted) \in Nat /\ Len(delivered) \in Nat
              /\ attempts \in Nat /\ m_dropped \in Nat
BY DEF TypeOK

\* The distances between the four indices.
LEMMA Distances ==
    TypeOK => /\ Distance(headSeen, m_head) \in Nat
              /\ Distance(headSeen, tailSeen) \in Nat
              /\ Distance(headSeen, m_tail) \in Nat
              /\ Distance(m_head, m_tail) \in Nat
              /\ Distance(m_head, m_tail) < Capacity
              /\ Distance(headSeen, m_tail) < Capacity
BY Numbers, DistanceBounds

-----------------------------------------------------------------------------
(* The invariant holds initially and every step preserves it. *)

LEMMA InitIInv == Init => IInv
<1> SUFFICES ASSUME Init PROVE IInv
  OBVIOUS
<1>1. TypeOK
  BY DEF Init, TypeOK, Slots, NoEvent
<1>2. ViewsInv /\ ConsumerInv
  BY DEF Init, ViewsInv, ConsumerInv, Distance
<1>3. ProducerInv
  BY DEF Init, ProducerInv
<1>4. RingInv /\ OrderInv
  BY DEF Init, RingInv, OrderInv, Distance
<1>5. DeliveredInOrder /\ EveryPushAccounted /\ AcceptedInPushOrder
  BY DEF Init, DeliveredInOrder, EveryPushAccounted, AcceptedInPushOrder, MutexFree
<1> QED
  BY <1>1, <1>2, <1>3, <1>4, <1>5 DEF IInv

LEMMA PushBeginIInv ==
    ASSUME IInv, NEW p \in Producers, PushBegin(p)
    PROVE  IInv'
<1> USE DEF IInv, PushBegin, ring, consumer, history, MutexFree
<1>1. TypeOK'
  BY DEF TypeOK
<1>2. ViewsInv' /\ ConsumerInv' /\ RingInv' /\ DeliveredInOrder' /\ AcceptedInPushOrder'
  BY DEF ViewsInv, ConsumerInv, RingInv, DeliveredInOrder, AcceptedInPushOrder
<1>3. ProducerInv'
  BY DEF ProducerInv, TypeOK, Full
<1>4. OrderInv'
  BY DEF OrderInv, TypeOK
<1>5. EveryPushAccounted'
  BY Numbers DEF EveryPushAccounted
<1> QED
  BY <1>1, <1>2, <1>3, <1>4, <1>5

LEMMA PushRefusedIInv ==
    ASSUME IInv, NEW p \in Producers, PushRefused(p)
    PROVE  IInv'
<1> USE DEF IInv, PushRefused, ring, consumer, history, MutexFree
<1>1. TypeOK'
  BY MayLoadBetween DEF TypeOK
<1>2. ViewsInv'
  BY Numbers, MayLoadBetween, HeadSeenAdvances DEF ViewsInv
<1>3. ProducerInv'
  BY DEF ProducerInv, TypeOK, Full
<1>4. ConsumerInv' /\ RingInv' /\ DeliveredInOrder' /\ AcceptedInPushOrder'
  BY DEF ConsumerInv, RingInv, DeliveredInOrder, AcceptedInPushOrder
<1>5. OrderInv'
  BY DEF OrderInv, TypeOK
<1>6. EveryPushAccounted'
  BY Numbers DEF EveryPushAccounted, ProducerInv
<1> QED
  BY <1>1, <1>2, <1>3, <1>4, <1>5, <1>6

LEMMA PushCheckedIInv ==
    ASSUME IInv, NEW p \in Producers, PushChecked(p)
    PROVE  IInv'
<1> USE DEF IInv, PushChecked, ring, consumer, history
<1>1. TypeOK'
  BY MayLoadBetween DEF TypeOK
<1>2. ViewsInv'
  BY Numbers, MayLoadBetween, HeadSeenAdvances DEF ViewsInv
<1>3. ProducerInv'
  BY DEF ProducerInv, TypeOK, Full
<1>4. ConsumerInv' /\ RingInv' /\ DeliveredInOrder' /\ AcceptedInPushOrder'
  BY DEF ConsumerInv, RingInv, DeliveredInOrder, AcceptedInPushOrder
<1>5. OrderInv' /\ EveryPushAccounted'
  BY DEF OrderInv, EveryPushAccounted, MutexFree
<1> QED
  BY <1>1, <1>2, <1>3, <1>4, <1>5

LEMMA PushWriteIInv ==
    ASSUME IInv, NEW p \in Producers, PushWrite(p)
    PROVE  IInv'
<1> USE DEF IInv, PushWrite, consumer, history
<1>1. TypeOK'
  BY DEF TypeOK
<1>2. ViewsInv' /\ DeliveredInOrder' /\ AcceptedInPushOrder'
  BY DEF ViewsInv, DeliveredInOrder, AcceptedInPushOrder
<1>3. ProducerInv'
  BY DEF ProducerInv, TypeOK, Full
<1>4. tailOf[p] = m_tail /\ m_tail \in Slots /\ m_head \in Slots
  BY DEF ProducerInv, TypeOK
<1>5. ConsumerInv'
  <2>1. cpc # "idle" => m_head # m_tail
    BY Numbers, PassedTail DEF ConsumerInv, ViewsInv
  <2> QED
    BY <1>4, <2>1 DEF ConsumerInv, TypeOK
<1>6. RingInv'
  <2>1. \A k \in 0 .. Capacity - 1 : k < Distance(m_head, m_tail) =>
            Forward(m_head, k) # m_tail /\ Forward(m_head, k) \in Slots
    BY <1>4, ForwardPlaces, DistanceBounds
  <2> QED
    BY <1>4, <2>1 DEF RingInv, TypeOK
<1>7. OrderInv' /\ EveryPushAccounted'
  BY DEF OrderInv, EveryPushAccounted, MutexFree
<1> QED
  BY <1>1, <1>2, <1>3, <1>5, <1>6, <1>7

LEMMA PushPublishIInv ==
    ASSUME IInv, NEW p \in Producers, PushPublish(p)
    PROVE  IInv'
<1> USE DEF IInv, PushPublish, consumer
<1>1. /\ tailOf[p] = m_tail /\ valueOf[p] = attempts /\ attempts >= 1
      /\ m_buffer[m_tail] = attempts
      /\ m_producerMutex = p /\ p # NoThread
      /\ NextSlot(m_tail) # headSeen
  BY DEF ProducerInv, Full
<1>2. TypeOK'
  BY <1>1, NextSlotInRing DEF TypeOK
<1>3. m_tail' = NextSlot(m_tail) /\ m_tail' # m_head
  <2>1. Distance(headSeen, NextSlot(m_tail)) = Distance(headSeen, m_tail) + 1
    BY <1>1, DistanceGrows DEF TypeOK
  <2>2. Distance(headSeen, m_head) =< Distance(headSeen, m_tail)
    BY Distances DEF ViewsInv
  <2> QED
    BY <1>1, <2>1, <2>2, DistanceBounds DEF TypeOK
<1>4. Distance(m_head, m_tail') = Distance(m_head, m_tail) + 1
  BY <1>3, DistanceGrows DEF TypeOK
<1>5. ViewsInv'
  <2>1. Distance(headSeen, m_tail') = Distance(headSeen, m_tail) + 1
    BY <1>1, <1>3, DistanceGrows DEF TypeOK
  <2> QED
    BY <2>1, Distances DEF ViewsInv
<1>6. ProducerInv'
  BY <1>1 DEF ProducerInv, TypeOK
<1>7. ConsumerInv'
  BY DEF ConsumerInv
<1>8. /\ Len(accepted') = Len(accepted) + 1
      /\ accepted'[Len(accepted) + 1] = attempts
      /\ \A i \in 1 .. Len(accepted) : accepted'[i] = accepted[i]
  BY <1>1 DEF TypeOK
<1>9. RingInv'
  <2>1. Len(accepted') = Len(delivered') + Distance(m_head', m_tail')
    BY <1>4, <1>8, Numbers, Distances DEF RingInv
  <2>2. ASSUME NEW k \in 0 .. Capacity - 1, k < Distance(m_head, m_tail')
        PROVE  m_buffer[Forward(m_head, k)] = accepted'[Len(delivered) + k + 1]
    <3>1. CASE k < Distance(m_head, m_tail)
      <4>1. m_buffer[Forward(m_head, k)] = accepted[Len(delivered) + k + 1]
        BY <3>1 DEF RingInv
      <4>2. Len(delivered) + k + 1 \in 1 .. Len(accepted)
        BY <3>1, Numbers, Distances DEF RingInv
      <4> QED
        BY <1>8, <4>1, <4>2
    <3>2. CASE k = Distance(m_head, m_tail)
      <4>1. Forward(m_head, k) = m_tail
        BY <3>2, ForwardPlaces DEF TypeOK
      <4>2. Len(delivered) + k + 1 = Len(accepted) + 1
        BY <3>2, DistanceBounds DEF RingInv, TypeOK
      <4> QED
        BY <1>1, <1>8, <4>1, <4>2
    <3>3. k < Distance(m_head, m_tail) + 1
      BY <1>4, <2>2
    <3>4. k < Distance(m_head, m_tail) \/ k = Distance(m_head, m_tail)
      BY <3>3, Distances
    <3> QED
      BY <3>1, <3>2, <3>4
  <2> QED
    BY <2>1, <2>2 DEF RingInv
<1>10. OrderInv' /\ AcceptedInPushOrder'
  <2> DEFINE n == Len(accepted)
  <2>1. n \in Nat /\ attempts \in Nat /\ Len(accepted') = n + 1
    BY <1>8, Numbers
  <2>2. accepted'[n + 1] = attempts
    BY <1>1, <1>8
  <2>3. \A i \in 1 .. n : /\ accepted'[i] = accepted[i]
                          /\ 1 =< accepted[i] /\ accepted[i] < attempts
    BY <1>1, <1>8 DEF OrderInv
  <2>4. \A i, j \in 1 .. n : i < j => accepted[i] < accepted[j]
    BY DEF AcceptedInPushOrder
  <2>5. accepted \in Seq(Nat)
    BY DEF TypeOK
  <2>6. \A i \in 1 .. n : accepted[i] \in Nat
    BY <2>5
  <2>7. /\ m_producerMutex' = NoThread /\ attempts' = attempts
        /\ attempts =< MaxPushes /\ attempts >= 1
    BY <1>1 DEF OrderInv
  <2>8. \A i \in 1 .. n + 1 : i \in 1 .. n \/ i = n + 1
    BY <2>1
  <2> HIDE DEF n, IInv, PushPublish, consumer
  <2>9. \A i \in 1 .. n + 1 : 1 =< accepted'[i] /\ accepted'[i] =< attempts
    BY <2>1, <2>2, <2>3, <2>6, <2>7, <2>8
  <2>10. \A i, j \in 1 .. n + 1 : i < j => accepted'[i] < accepted'[j]
    <3> SUFFICES ASSUME NEW i \in 1 .. n + 1, NEW j \in 1 .. n + 1, i < j
                 PROVE  accepted'[i] < accepted'[j]
      OBVIOUS
    <3>1. i \in 1 .. n
      BY <2>1
    <3> QED BY <2>2, <2>3, <2>4, <2>8, <3>1
  <2>11. OrderInv'
    BY <2>1, <2>7, <2>9 DEF OrderInv
  <2>12. AcceptedInPushOrder'
    BY <2>1, <2>10 DEF AcceptedInPushOrder
  <2> QED BY <2>11, <2>12
<1>11. DeliveredInOrder'
  BY <1>8 DEF DeliveredInOrder, TypeOK
<1>12. EveryPushAccounted'
  BY <1>1, <1>8 DEF EveryPushAccounted, MutexFree, TypeOK
<1> QED
  BY <1>2, <1>5, <1>6, <1>7, <1>9, <1>10, <1>11, <1>12

LEMMA PopEmptyIInv ==
    ASSUME IInv, PopEmpty
    PROVE  IInv'
<1> USE DEF IInv, PopEmpty, ring, producer, history
<1>1. TypeOK'
  BY DEF TypeOK
<1>2. ViewsInv' /\ ConsumerInv'
  BY Numbers, Distances, PassedTail DEF ViewsInv, ConsumerInv
<1>3. ProducerInv'
  BY DEF ProducerInv, Full
<1>4. RingInv' /\ OrderInv' /\ DeliveredInOrder' /\ AcceptedInPushOrder' /\ EveryPushAccounted'
  BY DEF RingInv, OrderInv, DeliveredInOrder, AcceptedInPushOrder, EveryPushAccounted,
         MutexFree
<1> QED
  BY <1>1, <1>2, <1>3, <1>4

LEMMA PopCheckedIInv ==
    ASSUME IInv, PopChecked
    PROVE  IInv'
<1> USE DEF IInv, PopChecked, ring, producer, history
<1>1. TypeOK'
  BY MayLoadBetween DEF TypeOK
<1>2. ViewsInv' /\ ConsumerInv'
  <2>1. PICK t \in MayLoad(tailSeen, m_tail) : t # m_head /\ tailSeen' = t
    OBVIOUS
  <2>2. /\ t \in Slots
        /\ Distance(tailSeen, m_tail) = Distance(tailSeen, t) + Distance(t, m_tail)
    BY MayLoadBetween DEF TypeOK
  <2>3. /\ Distance(headSeen, t) =< Distance(headSeen, m_tail)
        /\ Distance(headSeen, tailSeen) =< Distance(headSeen, t)
    BY <2>2 DEF Distance, ViewsInv, TypeOK, Slots
  <2>4. ViewsInv'
    <3>1. Distance(headSeen, t) \in Nat
      BY <2>2, Numbers, DistanceBounds
    <3>2. Distance(headSeen, m_head) =< Distance(headSeen, t)
      BY <2>3, <3>1, Distances DEF ViewsInv
    <3> QED
      BY <2>1, <2>3, <3>2 DEF ViewsInv
  <2> QED
    BY <2>1, <2>4 DEF ConsumerInv
<1>3. ProducerInv'
  BY DEF ProducerInv, Full
<1>4. RingInv' /\ OrderInv' /\ DeliveredInOrder' /\ AcceptedInPushOrder' /\ EveryPushAccounted'
  BY DEF RingInv, OrderInv, DeliveredInOrder, AcceptedInPushOrder, EveryPushAccounted,
         MutexFree
<1> QED
  BY <1>1, <1>2, <1>3, <1>4

LEMMA PopReadIInv ==
    ASSUME IInv, PopRead
    PROVE  IInv'
<1> USE DEF IInv, PopRead, ring, producer, history
<1>1. TypeOK'
  BY DEF TypeOK
<1>2. ViewsInv' /\ ConsumerInv'
  BY DEF ViewsInv, ConsumerInv
<1>3. ProducerInv'
  BY DEF ProducerInv, Full
<1>4. RingInv' /\ OrderInv' /\ DeliveredInOrder' /\ AcceptedInPushOrder' /\ EveryPushAccounted'
  BY DEF RingInv, OrderInv, DeliveredInOrder, AcceptedInPushOrder, EveryPushAccounted,
         MutexFree
<1> QED
  BY <1>1, <1>2, <1>3, <1>4

LEMMA PopPublishIInv ==
    ASSUME IInv, PopPublish
    PROVE  IInv'
<1> USE DEF IInv, PopPublish, producer
<1>1. m_head # tailSeen /\ out = m_buffer[m_head]
  BY DEF ConsumerInv
<1>2. TypeOK'
  BY NextSlotInRing DEF TypeOK
<1>3. /\ m_head # m_tail
      /\ Distance(headSeen, m_head') = Distance(headSeen, m_head) + 1
      /\ Distance(headSeen, m_head') =< Distance(headSeen, tailSeen)
  BY <1>1 DEF ViewsInv, TypeOK, Distance, Slots, NextSlot
<1>4. ViewsInv'
  BY <1>3 DEF ViewsInv
<1>5. ProducerInv'
  BY DEF ProducerInv, Full
<1>6. ConsumerInv'
  BY DEF ConsumerInv
<1>7. Distance(m_head', m_tail) = Distance(m_head, m_tail) - 1
  BY <1>3, DistanceShrinks DEF TypeOK
<1>8. /\ Len(delivered') = Len(delivered) + 1
      /\ delivered'[Len(delivered) + 1] = out
      /\ \A i \in 1 .. Len(delivered) : delivered'[i] = delivered[i]
  BY DEF TypeOK
<1>9. out = accepted[Len(delivered) + 1]
  <2>1. Distance(m_head, m_tail) > 0 /\ 0 \in 0 .. Capacity - 1
    BY <1>3, DistanceBounds DEF TypeOK
  <2>2. m_buffer[Forward(m_head, 0)] = accepted[Len(delivered) + 0 + 1]
    BY <2>1 DEF RingInv
  <2> QED
    BY <1>1, <2>2, ForwardPlaces DEF TypeOK
<1>10. RingInv'
  <2>1. Len(accepted') = Len(delivered') + Distance(m_head', m_tail')
    BY <1>7, <1>8, Numbers, Distances DEF RingInv
  <2>2. ASSUME NEW k \in 0 .. Capacity - 1, k < Distance(m_head', m_tail)
        PROVE  m_buffer[Forward(m_head', k)] = accepted[Len(delivered') + k + 1]
    <3>1. /\ k + 1 \in 0 .. Capacity - 1 /\ k + 1 < Distance(m_head, m_tail)
          /\ k + 1 < Capacity
      <4>1. Distance(m_head, m_tail) \in 0 .. Capacity - 1
        BY DistanceBounds DEF TypeOK
      <4> HIDE DEF IInv, PopPublish, producer
      <4>2. k + 1 < Distance(m_head, m_tail)
        BY <1>7, <2>2, <4>1
      <4> QED BY <4>1, <4>2, CapacityAssumption
    <3>2. Forward(m_head', k) = Forward(m_head, k + 1)
      <4>1. m_head \in Slots /\ m_head' = NextSlot(m_head)
        BY Numbers
      <4> HIDE DEF IInv, PopPublish, producer
      <4> QED BY <3>1, <4>1, ForwardPlaces
    <3>3. m_buffer[Forward(m_head, k + 1)] = accepted[Len(delivered) + (k + 1) + 1]
      BY <3>1 DEF RingInv
    <3>4. Len(delivered') + k + 1 = Len(delivered) + (k + 1) + 1
      BY <1>8 DEF TypeOK
    <3> QED
      BY <3>2, <3>3, <3>4
  <2> QED
    BY <2>1, <2>2 DEF RingInv
<1>11. OrderInv' /\ AcceptedInPushOrder' /\ EveryPushAccounted'
  BY DEF OrderInv, AcceptedInPushOrder, EveryPushAccounted, MutexFree
<1>12. DeliveredInOrder'
  <2>1. Len(delivered) + 1 =< Len(accepted)
    BY <1>3, DistanceBounds DEF RingInv, TypeOK
  <2> QED
    BY <1>8, <1>9, <2>1 DEF DeliveredInOrder, TypeOK
<1> QED
  BY <1>2, <1>4, <1>5, <1>6, <1>10, <1>11, <1>12

LEMMA NextIInv == IInv /\ [Next]_vars => IInv'
<1> SUFFICES ASSUME IInv, [Next]_vars PROVE IInv'
  OBVIOUS
<1>1. ASSUME NEW p \in Producers, PushBegin(p) \/ Push(p)
      PROVE  IInv'
  BY <1>1, PushBeginIInv, PushRefusedIInv, PushCheckedIInv, PushWriteIInv,
     PushPublishIInv DEF Push
<1>2. CASE Pop
  BY <1>2, PopEmptyIInv, PopCheckedIInv, PopReadIInv, PopPublishIInv DEF Pop
<1>3. CASE UNCHANGED vars
  BY <1>3 DEF vars, ring, producer, consumer, history, IInv, TypeOK, ViewsInv,
     ProducerInv, ConsumerInv, RingInv, OrderInv, DeliveredInOrder,
     EveryPushAccounted, AcceptedInPushOrder, MutexFree, Full
<1> QED
  BY <1>1, <1>2, <1>3 DEF Next

LEMMA Invariance == Spec => []IInv
BY InitIInv, NextIInv, PTL DEF Spec

-----------------------------------------------------------------------------
(* What follows for every behaviour. *)

\* The variables keep their types.
THEOREM TypeCorrect == Spec => []TypeOK
<1>1. IInv => TypeOK
  BY DEF IInv
<1> QED
  BY <1>1, Invariance, PTL

\* The plain accesses of push and pop to the slots never touch the same slot at
\* the same time (SpscQueue.h lines 42 and 55).
THEOREM SlotsNeverRace == Spec => []NoSlotRace
<1>1. IInv => NoSlotRace
  <2> SUFFICES ASSUME IInv, NEW p \in Producers, pc[p] = "write"
               PROVE  /\ cpc = "read" => tailOf[p] # m_head
                      /\ \A q \in Producers \ {p} : pc[q] # "write"
    BY DEF NoSlotRace
  <2>1. tailOf[p] = m_tail /\ m_producerMutex = p
    BY DEF IInv, ProducerInv
  <2>2. cpc = "read" => m_tail # m_head
    BY Numbers, PassedTail DEF IInv, ViewsInv, ConsumerInv
  <2>3. \A q \in Producers \ {p} : pc[q] # "write"
    BY <2>1 DEF IInv, ProducerInv
  <2> QED
    BY <2>1, <2>2, <2>3
<1> QED
  BY <1>1, Invariance, PTL

\* What the consumer is given is what was accepted: nothing lost, duplicated or
\* reordered on the way through the ring.
THEOREM DeliveryInOrder == Spec => []DeliveredInOrder
<1>1. IInv => DeliveredInOrder
  BY DEF IInv
<1> QED
  BY <1>1, Invariance, PTL

\* Every push is accepted, counted as dropped, or in progress, and the accepted
\* ones keep the order in which the producers got the mutex.
THEOREM PushesAccounted == Spec => [](EveryPushAccounted /\ AcceptedInPushOrder)
<1>1. IInv => EveryPushAccounted /\ AcceptedInPushOrder
  BY DEF IInv
<1> QED
  BY <1>1, Invariance, PTL

-----------------------------------------------------------------------------
(* The ring implements the bounded channel EventFifo. *)

\* A ring full up to a head has capacity - 1 slots between the two.
LEMMA FullDistance ==
    \A h, t \in Slots : NextSlot(t) = h => Distance(h, t) = Capacity - 1
BY DEF Distance, Slots, NextSlot

\* The later a slot comes on the way to the tail, the nearer the tail is.
LEMMA DistanceFromBetween ==
    \A seen, head, tail, i \in Slots :
        /\ Distance(seen, head) =< Distance(seen, tail)
        /\ Distance(seen, i) =< Distance(seen, head)
        => /\ Distance(i, tail) =< Distance(seen, tail)
           /\ Distance(head, tail) =< Distance(i, tail)
BY DEF Distance, Slots

LEMMA RefusedRefuses ==
    ASSUME IInv, NEW p \in Producers, PushRefused(p)
    PROVE  Fifo!Refuse
<1> USE DEF IInv, PushRefused, ring, consumer, history
<1>1. PICK h \in MayLoad(headSeen, m_head) : NextSlot(m_tail) = h /\ headSeen' = h
  BY DEF Full, ProducerInv
<1>2. h \in Slots /\ Distance(headSeen, h) =< Distance(headSeen, m_head)
  BY Numbers, MayLoadBetween
<1>3. Distance(h, m_tail) = Capacity - 1
  BY <1>1, <1>2, Numbers, FullDistance
<1>2a. Distance(headSeen, h) \in Nat
  BY <1>2, Numbers, DistanceBounds
<1>4. Distance(headSeen, h) =< Distance(headSeen, m_tail)
  BY <1>2, <1>2a, Distances DEF ViewsInv
<1>5. Distance(headSeen, m_tail) = Distance(headSeen, h) + (Capacity - 1)
  BY <1>2, <1>3, <1>4, Numbers, DistancesAdd
<1>6. Distance(headSeen, h) = 0 /\ Distance(headSeen, m_tail) = Capacity - 1
  BY <1>5, <1>2a, Distances
<1>7. headSeen' = headSeen
  BY <1>1, <1>2, <1>6, Numbers, DistanceBounds
<1> QED
  BY <1>6, <1>7 DEF Fifo!Refuse

LEMMA CheckedLearns ==
    ASSUME IInv, NEW p \in Producers, PushChecked(p)
    PROVE  Fifo!Learn
<1> USE DEF IInv, PushChecked, ring, consumer, history
<1>1. PICK h \in MayLoad(headSeen, m_head) : headSeen' = h
  OBVIOUS
<1>2. /\ h \in Slots
      /\ Distance(headSeen, h) =< Distance(headSeen, m_head)
  BY Numbers, MayLoadBetween
<1>3. /\ Distance(h, m_tail) =< Distance(headSeen, m_tail)
      /\ Distance(m_head, m_tail) =< Distance(h, m_tail)
  <2>1. Distance(headSeen, m_head) =< Distance(headSeen, m_tail)
    BY Distances DEF ViewsInv
  <2> QED
    BY <1>2, <2>1, Numbers, DistanceFromBetween
<1>4. Distance(h, m_tail) \in Nat
  BY <1>2, Numbers, DistanceBounds
<1>5. Len(accepted) - Len(delivered) = Distance(m_head, m_tail)
  BY Numbers, Distances DEF RingInv
<1> QED
  BY <1>1, <1>3, <1>4, <1>5, Distances DEF Fifo!Learn, Fifo!InTransit

LEMMA PublishPuts ==
    ASSUME IInv, NEW p \in Producers, PushPublish(p)
    PROVE  Fifo!Put
<1> USE DEF IInv, PushPublish, consumer
<1>1. /\ tailOf[p] = m_tail /\ valueOf[p] = attempts /\ attempts \in 1 .. MaxPushes
      /\ NextSlot(m_tail) # headSeen
  BY Numbers DEF ProducerInv, Full, OrderInv
<1>2. Distance(headSeen, NextSlot(m_tail)) = Distance(headSeen, m_tail) + 1
  BY <1>1, Numbers, DistanceGrows
<1>3. Distance(headSeen, NextSlot(m_tail)) < Capacity
  BY Numbers, NextSlotInRing, DistanceBounds
<1>4. /\ Capacity - 1 - Distance(headSeen, m_tail) > 0
      /\ Capacity - 1 - Distance(headSeen, m_tail')
            = (Capacity - 1 - Distance(headSeen, m_tail)) - 1
  BY <1>1, <1>2, <1>3, Distances
<1> QED
  BY <1>1, <1>4 DEF Fifo!Put

LEMMA PublishTakes ==
    ASSUME IInv, PopPublish
    PROVE  Fifo!Take
<1> USE DEF IInv, PopPublish, producer
<1>1. m_head # m_tail
  BY Numbers, PassedTail DEF ViewsInv, ConsumerInv
<1>2. Distance(m_head, m_tail) > 0
  BY <1>1, Numbers, Distances, DistanceBounds
<1>3. Len(accepted) - Len(delivered) > 0
  BY <1>2, Numbers, Distances DEF RingInv
<1>4. out = accepted[Len(delivered) + 1]
  <2>1. m_buffer[Forward(m_head, 0)] = accepted[Len(delivered) + 0 + 1]
    BY <1>2 DEF RingInv
  <2> QED
    BY <2>1, Numbers, ForwardPlaces DEF ConsumerInv
<1> QED
  BY <1>3, <1>4 DEF Fifo!Take, Fifo!InTransit

\* Every behaviour of the ring with its stale loads is a behaviour of the bounded
\* channel with credits: publishing puts, a refused push is refused for want of
\* a credit, and publishing the head takes.
THEOREM RingImplementsFifo == Spec => ImplementsFifo
<1>1. Init => Fifo!Init
  BY DEF Init, Fifo!Init, Distance
<1>2. ASSUME IInv, [Next]_vars
      PROVE  [Fifo!Next]_(Fifo!fifoVars)
  <2>1. ASSUME NEW p \in Producers, PushBegin(p) \/ PushWrite(p)
        PROVE  UNCHANGED Fifo!fifoVars
    BY <2>1 DEF PushBegin, PushWrite, Fifo!fifoVars, ring, consumer, history
  <2>2. ASSUME NEW p \in Producers, Push(p)
        PROVE  [Fifo!Next]_(Fifo!fifoVars)
    BY <1>2, <2>1, <2>2, RefusedRefuses, CheckedLearns, PublishPuts DEF Push, Fifo!Next
  <2>3. CASE PopEmpty \/ PopChecked \/ PopRead \/ UNCHANGED vars
    BY <2>3 DEF PopEmpty, PopChecked, PopRead, vars, Fifo!fifoVars, ring, producer,
                consumer, history
  <2>4. CASE PopPublish
    BY <1>2, <2>4, PublishTakes DEF Fifo!Next
  <2> QED
    BY <1>2, <2>1, <2>2, <2>3, <2>4 DEF Next, Pop
<1> QED
  BY <1>1, <1>2, Invariance, PTL DEF Spec, ImplementsFifo, Fifo!Spec

-----------------------------------------------------------------------------
(* The streams.                                                             *)

\* A plug-in that obeys is set up for the stream that calls it.
Matched(e) ==
    \A s \in PluginSlots \ Stubborn :
        e.plugins[s] # NoConfig =>
            /\ e.wasapi \in {NoConfig, e.plugins[s]}
            /\ e.asio \in {NoConfig, e.plugins[s]}

Good(e) == /\ e \in Engines
           /\ e.asio # NoConfig => /\ e.wasapi = NoConfig /\ e.input = 0
                                   /\ e.asioDevice \in AsioDevices
           /\ e.monitor = (e.asio # NoConfig)
           /\ ~e.touchedLive
           /\ Matched(e)

Closed(e) == Good(e) /\ ~IsOpen(e)

StreamsInv ==
        /\ Good(engine)
        /\ upc \in {"idle", "edit", "render"}
        /\ saved \in [wasAsio : BOOLEAN, asioDevice : AsioDevices \cup {NoDevice},
                      wasWasapi : BOOLEAN]
        /\ saved.wasAsio => saved.asioDevice \in AsioDevices /\ ~saved.wasWasapi
        /\ upc # "idle" => ~IsOpen(engine)

-----------------------------------------------------------------------------
USE RatesAssumption, DevicesAssumption

\* reconfigurePlugins, called while no stream runs, changes nothing but the setups,
\* after which every obedient plug-in fits a stream at the engine's rate and size.
LEMMA ReconfigureGood ==
    ASSUME NEW e, Closed(e)
    PROVE  LET r == ReconfigurePlugins(e)
           IN  /\ Closed(r)
               /\ Current(r) = Current(e) /\ r.input = e.input
               /\ r.asioDevice = e.asioDevice /\ r.monitor = e.monitor
               /\ r.asio = NoConfig /\ r.wasapi = NoConfig
               /\ \A s \in PluginSlots \ Stubborn : r.plugins[s] \in {NoConfig, Current(r)}
<1> DEFINE r == ReconfigurePlugins(e)
           setup == [s \in PluginSlots |-> IF e.plugins[s] = NoConfig \/ s \in Stubborn
                                     THEN e.plugins[s] ELSE Current(e)]
<1>1. /\ e \in Engines /\ ~IsOpen(e) /\ ~e.touchedLive
      /\ e.asio = NoConfig /\ e.wasapi = NoConfig /\ e.monitor = FALSE
  BY DEF Closed, Good, IsOpen
<1>2. Current(e) \in Configs
  BY <1>1 DEF Engines, Current, Configs
<1>3. setup \in [PluginSlots -> Configs \cup {NoConfig}]
  BY <1>1, <1>2 DEF Engines
<1>4. r = [e EXCEPT !.plugins = setup, !.touchedLive = FALSE]
  BY <1>1 DEF ReconfigurePlugins, Engines
<1>5. /\ r \in Engines /\ r.plugins = setup /\ r.touchedLive = FALSE
      /\ r.rate = e.rate /\ r.frames = e.frames /\ r.input = e.input
      /\ r.asioDevice = e.asioDevice /\ r.monitor = e.monitor
      /\ r.asio = NoConfig /\ r.wasapi = NoConfig
  BY <1>1, <1>3, <1>4 DEF Engines
<1>6. Current(r) = Current(e)
  BY <1>5 DEF Current
<1>7. Closed(r)
  BY <1>1, <1>5 DEF Closed, Good, Matched, IsOpen
<1>8. \A s \in PluginSlots \ Stubborn : r.plugins[s] \in {NoConfig, Current(r)}
  BY <1>5, <1>6
<1> QED BY <1>5, <1>6, <1>7, <1>8

\* Fields that may change while no stream runs.
LEMMA FieldsGood ==
    ASSUME NEW e, Closed(e), NEW rate \in Rates, NEW frames \in Sizes
    PROVE  /\ Closed([e EXCEPT !.rate = rate])
           /\ Closed([e EXCEPT !.frames = frames])
           /\ Closed([e EXCEPT !.rate = rate, !.frames = frames])
<1>1. e \in Engines /\ e.asio = NoConfig /\ e.wasapi = NoConfig /\ ~e.touchedLive /\ ~e.monitor
  BY DEF Closed, Good, IsOpen
<1>2. [e EXCEPT !.rate = rate] \in Engines
  BY <1>1 DEF Engines
<1>3. [e EXCEPT !.frames = frames] \in Engines
  BY <1>1 DEF Engines
<1>4. [e EXCEPT !.rate = rate, !.frames = frames] \in Engines
  BY <1>1 DEF Engines
<1> QED BY <1>1, <1>2, <1>3, <1>4 DEF Closed, Good, Matched, IsOpen, Engines

\* The rate openPort asks for is one the engine knows.
LEMMA OpenRateKnown ==
    ASSUME NEW e, e \in Engines, NEW d \in OutputsFor(e)
    PROVE  OpenRate(e, d) \in Rates
<1>1. d \in OutDevices
  BY DEF OutputsFor, OnFault, Engines
<1>2. Preferred[d] \in Rates /\ Supported[d] \subseteq Rates
  BY <1>1
<1> QED BY <1>2 DEF OpenRate

\* openPort leaves a good engine, whatever the device refuses, and no ASIO stream
\* that was not there.
LEMMA OpenPortGood ==
    ASSUME NEW e, Good(e), NEW r \in OpenPort(e)
    PROVE  Good(r) /\ r.asio = e.asio /\ r.input = e.input
<1>1. CASE IsOpen(e)
  BY <1>1 DEF OpenPort
<1>2. CASE ~IsOpen(e)
  <2>0. r \in OpenWasapi(e)
    BY <1>2 DEF OpenPort
  <2>1. PICK d \in OutputsFor(e), f \in Sizes : r \in OpenOutputOf(e, d, f)
    BY <2>0 DEF OpenWasapi
  <2> DEFINE asked == [e EXCEPT !.rate = OpenRate(e, d)]
             sized == [asked EXCEPT !.frames = f]
             opened == ReconfigurePlugins(sized)
             running == [opened EXCEPT !.wasapi = Current(opened)]
  <2>2. r \in {e, asked, opened, running}
    BY <2>1 DEF OpenOutputOf, OnFault
  <2>3. Closed(e) /\ e \in Engines /\ OpenRate(e, d) \in Rates
    BY <1>2, OpenRateKnown DEF Closed, Good
  <2>4. Closed(asked) /\ asked.input = e.input
    BY <2>3, FieldsGood DEF Engines
  <2>5. Closed(sized) /\ sized.input = e.input
    BY <2>4, FieldsGood DEF Closed, Good, Engines
  <2> HIDE DEF asked, sized
  <2>6. /\ Closed(opened) /\ opened.input = e.input
        /\ opened.asio = NoConfig
        /\ \A s \in PluginSlots \ Stubborn : opened.plugins[s] \in {NoConfig, Current(opened)}
    BY <2>5, ReconfigureGood
  <2> HIDE DEF opened
  <2>7. /\ opened \in Engines /\ Current(opened) \in Configs /\ opened.monitor = FALSE
        /\ opened.touchedLive = FALSE
    BY <2>6 DEF Closed, Good, IsOpen, Engines, Current, Configs
  <2>8. /\ running \in Engines /\ running.wasapi = Current(opened)
        /\ running.asio = NoConfig /\ running.input = e.input
        /\ running.monitor = FALSE /\ running.touchedLive = FALSE
        /\ running.plugins = opened.plugins
    BY <2>6, <2>7 DEF Engines
  <2> HIDE DEF running
  <2>9. Good(running)
    BY <2>6, <2>8 DEF Good, Matched
  <2> QED BY <1>2, <2>2, <2>3, <2>4, <2>6, <2>8, <2>9 DEF Closed, IsOpen
<1> QED BY <1>1, <1>2

\* Closing the WASAPI streams.
LEMMA CloseGood ==
    ASSUME NEW e, Good(e)
    PROVE  /\ Good(ClosePort(e)) /\ Good(StopInput(e)) /\ Good(CloseWasapi(e))
           /\ ClosePort(e).asio = e.asio /\ StopInput(e).asio = e.asio
           /\ CloseWasapi(e).asio = e.asio /\ CloseWasapi(e).input = 0
           /\ ClosePort(e).wasapi = NoConfig /\ CloseWasapi(e).wasapi = NoConfig
           /\ CloseWasapi(e).asioDevice = e.asioDevice
<1>1. \A x : Good(x) => /\ Good(ClosePort(x)) /\ ClosePort(x).asio = x.asio
                        /\ ClosePort(x).wasapi = NoConfig
                        /\ ClosePort(x).asioDevice = x.asioDevice
  BY DEF Good, ClosePort, Matched, Engines
<1>2. \A x : Good(x) => /\ Good(StopInput(x)) /\ StopInput(x).asio = x.asio
                        /\ StopInput(x).wasapi = x.wasapi /\ StopInput(x).input = 0
                        /\ StopInput(x).asioDevice = x.asioDevice
  BY DEF Good, StopInput, Matched, Engines
<1> QED BY <1>1, <1>2 DEF CloseWasapi

\* startInput, which its callers call only when no ASIO stream runs.
LEMMA StartInputGood ==
    ASSUME NEW e, Good(e), e.asio = NoConfig, NEW r \in StartInput(e)
    PROVE  Good(r) /\ r.asio = NoConfig
<1>1. r \in {e, [e EXCEPT !.input = e.rate]}
  BY DEF StartInput
<1> QED BY <1>1 DEF Good, Matched, Engines

\* stopAsioInternal.
LEMMA StopAsioGood ==
    ASSUME NEW e, Good(e), NEW restore \in BOOLEAN, NEW r \in StopAsio(e, restore)
    PROVE  /\ Good(r) /\ r.asio = NoConfig
           /\ restore = FALSE /\ e.asio # NoConfig => r.wasapi = NoConfig
<1> DEFINE stopped == [e EXCEPT !.asio = NoConfig, !.monitor = FALSE]
<1>1. /\ Good(stopped) /\ stopped.asio = NoConfig
      /\ e.asio # NoConfig => stopped.wasapi = NoConfig
  BY DEF Good, Matched, Engines
<1>2. r \in IF restore THEN OpenPort(stopped) ELSE {stopped}
  BY DEF StopAsio
<1> HIDE DEF stopped
<1>3. CASE restore
  <2>1. r \in OpenPort(stopped)
    BY <1>2, <1>3
  <2> QED BY <1>1, <1>3, <2>1, OpenPortGood
<1>4. CASE ~restore
  BY <1>1, <1>2, <1>4
<1> QED BY <1>3, <1>4

\* startAsio when no ASIO stream runs.
LEMMA OpenAsioGood ==
    ASSUME NEW e, Good(e), e.asio = NoConfig, NEW d \in AsioDevices, NEW r \in OpenAsio(e, d)
    PROVE  Good(r)
<1> DEFINE chosen == [e EXCEPT !.asioDevice = d]
           closed == CloseWasapi(chosen)
           sized(c) == [closed EXCEPT !.rate = c.rate, !.frames = c.frames]
           opened(c) == ReconfigurePlugins(sized(c))
           running(c) == [opened(c) EXCEPT !.asio = c, !.monitor = TRUE]
<1>1. \/ r = chosen
      \/ r \in OpenPort(closed)
      \/ \E c \in AsioConfigs[d] : r \in OpenPort(opened(c))
      \/ \E c \in AsioConfigs[d] : r = running(c)
  <2> DEFINE mute == IF d \in Mute THEN {chosen} ELSE {}
             shut == OnFault(d, OpenPort(closed))
             failed == UNION {OnFault(d, OpenPort(opened(c))) : c \in AsioConfigs[d]}
             started == {running(c) : c \in AsioConfigs[d]}
  <2>1. r \in mute \cup shut \cup failed \cup started
    BY DEF OpenAsio
  <2>2. r \in mute => r = chosen
    OBVIOUS
  <2>3. r \in shut => r \in OpenPort(closed)
    BY DEF OnFault
  <2>4. r \in failed => \E c \in AsioConfigs[d] : r \in OpenPort(opened(c))
    <3> HIDE DEF opened
    <3> QED BY DEF OnFault
  <2>5. r \in started => \E c \in AsioConfigs[d] : r = running(c)
    <3> HIDE DEF running
    <3> QED OBVIOUS
  <2> HIDE DEF chosen, closed, opened, running, mute, shut, failed, started
  <2> QED BY <2>1, <2>2, <2>3, <2>4, <2>5
<1>2. Good(chosen) /\ chosen.asio = NoConfig /\ chosen.asioDevice = d
  BY DEF Good, Matched, Engines
<1> HIDE DEF chosen
<1>3. /\ Closed(closed) /\ closed.asioDevice = d /\ closed.input = 0
  BY <1>2, CloseGood DEF Closed, IsOpen
<1> HIDE DEF closed
<1>4. ASSUME NEW c \in AsioConfigs[d]
      PROVE  Good(opened(c)) /\ Good(running(c))
  <2>1. c \in Configs /\ c.rate \in Rates /\ c.frames \in Sizes
    BY <1>4 DEF Configs
  <2>2. /\ Closed(sized(c)) /\ sized(c).asioDevice = d /\ sized(c).input = 0
        /\ Current(sized(c)) = c
    BY <1>3, <2>1, FieldsGood DEF Closed, Good, Engines, Current, Configs
  <2> HIDE DEF sized
  <2>3. /\ Closed(opened(c)) /\ opened(c).asioDevice = d /\ opened(c).input = 0
        /\ Current(opened(c)) = c /\ opened(c).wasapi = NoConfig
        /\ \A s \in PluginSlots \ Stubborn : opened(c).plugins[s] \in {NoConfig, c}
    BY <2>2, ReconfigureGood
  <2> HIDE DEF opened
  <2>4. opened(c) \in Engines /\ opened(c).touchedLive = FALSE
    BY <2>3 DEF Closed, Good, Engines
  <2>5. /\ running(c) \in Engines /\ running(c).asio = c /\ running(c).monitor = TRUE
        /\ running(c).wasapi = NoConfig /\ running(c).input = 0
        /\ running(c).touchedLive = FALSE /\ running(c).asioDevice = d
        /\ running(c).plugins = opened(c).plugins
    BY <2>1, <2>3, <2>4 DEF Engines
  <2>6. c # NoConfig
    BY <2>1 DEF NoConfig
  <2> HIDE DEF running
  <2>7. Good(running(c))
    BY <2>3, <2>5, <2>6 DEF Good, Matched
  <2> QED BY <2>3, <2>7 DEF Closed
<1> HIDE DEF opened, running
<1> QED BY <1>1, <1>2, <1>3, <1>4, OpenPortGood DEF Closed

\* startAsio.
LEMMA StartAsioGood ==
    ASSUME NEW e, Good(e), NEW d \in AsioDevices, NEW r \in StartAsio(e, d)
    PROVE  Good(r)
<1>1. CASE e.asio # NoConfig /\ d = e.asioDevice
  <2>1. r = [e EXCEPT !.monitor = TRUE]
    BY <1>1 DEF StartAsio
  <2> QED BY <1>1, <2>1 DEF Good, Matched, Engines
<1>2. CASE ~(e.asio # NoConfig /\ d = e.asioDevice)
  <2>1. \/ r = e
        \/ e.asio = NoConfig /\ r \in OpenAsio(e, d)
        \/ \E s \in StopAsio(e, FALSE) : r \in OpenAsio(s, d)
    BY <1>2 DEF StartAsio, OnFault
  <2> QED BY <2>1, OpenAsioGood, StopAsioGood
<1> QED BY <1>1, <1>2

\* suspendStreams leaves nothing running.
LEMMA SuspendGood ==
    ASSUME NEW e, Good(e), NEW r \in SuspendStreams(e)
    PROVE  Closed(r)
<1>1. CASE e.asio # NoConfig
  <2>1. r \in StopAsio(e, FALSE)
    BY <1>1 DEF SuspendStreams
  <2> QED BY <1>1, <2>1, StopAsioGood DEF Closed, IsOpen
<1>2. CASE e.asio = NoConfig
  <2>1. r = ClosePort(e)
    BY <1>2 DEF SuspendStreams
  <2> QED BY <1>2, <2>1, CloseGood DEF Closed, IsOpen
<1> QED BY <1>1, <1>2

\* setBufferFrames and setPreferredSampleRate.
LEMMA RestartGood ==
    ASSUME NEW e, NEW changed, Good(changed), changed.asio = NoConfig,
           NEW r \in Restart(e, changed)
    PROVE  Good(r)
<1> DEFINE output == IF e.wasapi # NoConfig THEN OpenPort(changed) ELSE {changed}
<1>1. \A o \in output : Good(o) /\ o.asio = NoConfig
  BY OpenPortGood
<1>2. r \in output \/ \E o \in output : r \in StartInput(o)
  BY DEF Restart
<1> HIDE DEF output
<1> QED BY <1>1, <1>2, StartInputGood

\* resumeStreams.
LEMMA ResumeGood ==
    ASSUME NEW e, Good(e), NEW s, s.wasAsio => s.asioDevice \in AsioDevices,
           NEW r \in ResumeStreams(e, s)
    PROVE  Good(r)
<1>1. CASE s.wasAsio
  <2>1. r \in StartAsio(e, s.asioDevice)
    BY <1>1 DEF ResumeStreams
  <2> QED BY <1>1, <2>1, StartAsioGood
<1>2. CASE ~s.wasAsio
  <2>1. r \in OpenPort(e) \/ r = e
    BY <1>2 DEF ResumeStreams
  <2> QED BY <2>1, OpenPortGood
<1> QED BY <1>1, <1>2

-----------------------------------------------------------------------------
(* The inductive invariant. *)

LEMMA InitGood == StreamsInit => StreamsInv
<1> SUFFICES ASSUME StreamsInit PROVE StreamsInv
  OBVIOUS
<1>1. engine \in Engines
  BY DEF StreamsInit, Engines, NoConfig
<1>2. /\ engine.asio = NoConfig /\ engine.wasapi = NoConfig /\ engine.monitor = FALSE
      /\ engine.touchedLive = FALSE /\ \A s \in PluginSlots : engine.plugins[s] = NoConfig
  BY DEF StreamsInit
<1>3. Good(engine)
  BY <1>1, <1>2 DEF Good, Matched
<1>4. /\ saved = [wasAsio |-> FALSE, asioDevice |-> engine.asioDevice, wasWasapi |-> FALSE]
      /\ upc = "idle"
  BY <1>2 DEF StreamsInit, StreamSuspend
<1> QED BY <1>1, <1>3, <1>4 DEF StreamsInv, Engines

\* An operation of the idle UI thread keeps the invariant when every state it may
\* leave the engine in is good.
LEMMA OperationGood ==
    ASSUME StreamsInv, NEW S, \A r \in S : Good(r), Operation(S)
    PROVE  StreamsInv'
BY DEF StreamsInv, Operation

LEMMA SuspendKeeps ==
    ASSUME StreamsInv, NEW activity \in {"edit", "render"}, Suspend(activity)
    PROVE  StreamsInv'
<1>1. Closed(engine') /\ Good(engine)
  BY SuspendGood DEF Suspend, StreamsInv
<1>2. saved' = StreamSuspend(engine) /\ upc' = activity
  BY DEF Suspend
<1>3. /\ engine.asio # NoConfig => engine.asioDevice \in AsioDevices
      /\ engine.asioDevice \in AsioDevices \cup {NoDevice}
  BY <1>1 DEF Good, Engines
<1>4. /\ saved' \in [wasAsio : BOOLEAN, asioDevice : AsioDevices \cup {NoDevice},
                     wasWasapi : BOOLEAN]
      /\ saved'.wasAsio => saved'.asioDevice \in AsioDevices /\ ~saved'.wasWasapi
  BY <1>2, <1>3 DEF StreamSuspend
<1> QED BY <1>1, <1>2, <1>4 DEF StreamsInv, Closed

LEMMA StepGood == StreamsInv /\ [StreamsNext]_streamVars => StreamsInv'
<1> SUFFICES ASSUME StreamsInv, [StreamsNext]_streamVars PROVE StreamsInv'
  OBVIOUS
<1> DEFINE e == engine
<1>0. /\ Good(e) /\ e \in Engines
      /\ e.asio # NoConfig => e.asioDevice \in AsioDevices
  BY DEF StreamsInv, Good
<1>1. CASE OpenOutput
  BY <1>0, <1>1, OpenPortGood, OperationGood DEF OpenOutput
<1>2. CASE CloseOutput
  BY <1>0, <1>2, CloseGood, OperationGood DEF CloseOutput
<1>3. CASE StopAsioInput
  BY <1>0, <1>3, StopAsioGood, OperationGood DEF StopAsioInput
<1>4. CASE RestartInput
  <2>1. \A r \in StartInput(StopInput(e)) : Good(r)
    BY <1>0, <1>4, CloseGood, StartInputGood DEF RestartInput
  <2> QED BY <1>4, <2>1, OperationGood DEF RestartInput
<1>5. CASE CloseInput
  BY <1>0, <1>5, CloseGood, OperationGood DEF CloseInput
<1>6. CASE BeginEdit
  BY <1>6, SuspendKeeps DEF BeginEdit
<1>7. CASE BeginOfflineRender
  BY <1>7, SuspendKeeps DEF BeginOfflineRender
<1>8. CASE Resume
  <2>1. Good(engine')
    BY <1>0, <1>8, ResumeGood DEF Resume, StreamsInv
  <2> QED BY <1>8, <2>1 DEF Resume, StreamsInv
<1>9. ASSUME NEW d \in OutDevices, SetOutputDevice(d) PROVE StreamsInv'
  <2> DEFINE chosen == [e EXCEPT !.device = d]
  <2>1. Good(chosen)
    BY <1>0 DEF Good, Engines, Matched
  <2>2. \A r \in (IF e.wasapi # NoConfig THEN OpenPort(ClosePort(chosen)) ELSE {chosen}) :
           Good(r)
    <3> HIDE DEF chosen
    <3> QED BY <2>1, CloseGood, OpenPortGood
  <2> QED BY <1>9, <2>2, OperationGood DEF SetOutputDevice
<1>10. ASSUME NEW n \in Sizes, SetBufferFrames(n) PROVE StreamsInv'
  <2>1. Closed(CloseWasapi(e))
    BY <1>0, <1>10, CloseGood DEF SetBufferFrames, Closed, IsOpen
  <2>2. Closed([CloseWasapi(e) EXCEPT !.frames = n])
    BY <2>1, FieldsGood DEF Closed, Good, Engines
  <2>3. \A r \in Restart(e, [CloseWasapi(e) EXCEPT !.frames = n]) : Good(r)
    BY <2>2, RestartGood DEF Closed, IsOpen
  <2> QED BY <1>10, <2>3, OperationGood DEF SetBufferFrames
<1>11. ASSUME NEW hz \in Rates \cup {0}, SetPreferredSampleRate(hz) PROVE StreamsInv'
  <2> DEFINE changed == [CloseWasapi(e) EXCEPT !.wanted = hz]
  <2>1. CASE e.asio # NoConfig
    <3>1. Good([e EXCEPT !.wanted = hz])
      BY <1>0 DEF Good, Engines, Matched
    <3> QED BY <1>11, <2>1, <3>1, OperationGood DEF SetPreferredSampleRate
  <2>2. CASE e.asio = NoConfig
    <3>1. Good(CloseWasapi(e)) /\ CloseWasapi(e).asio = NoConfig
      BY <1>0, <2>2, CloseGood
    <3>2. Good(changed) /\ changed.asio = NoConfig
      BY <3>1 DEF Good, Engines, Matched
    <3>3. \A r \in Restart(e, changed) : Good(r)
      <4> HIDE DEF changed
      <4> QED BY <3>2, RestartGood
    <3> QED BY <1>11, <2>2, <3>3, OperationGood DEF SetPreferredSampleRate
  <2> QED BY <2>1, <2>2
<1>12. ASSUME NEW d \in AsioDevices, TakeAsio(d) PROVE StreamsInv'
  BY <1>0, <1>12, StartAsioGood, OperationGood DEF TakeAsio
<1>13. ASSUME NEW d \in AsioDevices, StartPractice(d) PROVE StreamsInv'
  <2> DEFINE later == UNION {IF s.asio # NoConfig THEN {s} ELSE StartInput(s) :
                                s \in StartAsio(e, d)}
  <2>1. \A r \in later : Good(r)
    <3> TAKE r \in later
    <3>1. PICK s \in StartAsio(e, d) :
             r \in (IF s.asio # NoConfig THEN {s} ELSE StartInput(s))
      OBVIOUS
    <3> QED BY <1>0, <3>1, StartAsioGood, StartInputGood
  <2> QED BY <1>13, <2>1, OperationGood DEF StartPractice
<1>14. ASSUME NEW s \in PluginSlots, Edit(s) PROVE StreamsInv'
  <2>1. PICK setup \in {NoConfig, Current(e), e.plugins[s]} :
           e' = [e EXCEPT !.plugins[s] = setup, !.touchedLive = @ \/ IsOpen(e)]
    BY <1>14 DEF Edit
  <2>2. /\ ~IsOpen(e) /\ e.touchedLive = FALSE
        /\ UNCHANGED <<upc, saved>>
    BY <1>0, <1>14 DEF StreamsInv, Edit, Good, Engines
  <2>3. setup \in Configs \cup {NoConfig}
    BY <1>0, <2>1 DEF Engines, Current, Configs
  <2>4. /\ e' \in Engines /\ e'.touchedLive = FALSE /\ e'.asio = e.asio
        /\ e'.wasapi = e.wasapi /\ e'.monitor = e.monitor /\ ~IsOpen(e')
    BY <1>0, <2>1, <2>2, <2>3 DEF Engines, IsOpen
  <2>5. Good(e')
    BY <1>0, <2>2, <2>4 DEF Good, Matched, IsOpen
  <2> QED BY <2>2, <2>4, <2>5 DEF StreamsInv
<1>15. CASE UNCHANGED streamVars
  BY <1>15 DEF StreamsInv, streamVars
<1> QED BY <1>1, <1>2, <1>3, <1>4, <1>5, <1>6, <1>7, <1>8, <1>9, <1>10, <1>11, <1>12,
           <1>13, <1>14, <1>15 DEF StreamsNext

LEMMA Inductive == StreamsSpec => []StreamsInv
BY InitGood, StepGood, PTL DEF StreamsSpec

-----------------------------------------------------------------------------
(* The theorems. *)

\* Every field of the engine, and what a suspension remembers, keeps its type.
THEOREM StreamsTypeCorrect == StreamsSpec => []StreamsTypeOK
<1>1. StreamsInv => StreamsTypeOK
  BY DEF StreamsInv, Good, StreamsTypeOK
<1> QED BY <1>1, Inductive, PTL

\* An ASIO stream never runs beside a WASAPI output or input: renderBlock has one
\* caller and the recorder one input, whatever the drivers refuse.
THEOREM NeverTwoCallbacks == StreamsSpec => []OneCallback
<1>1. StreamsInv => OneCallback
  BY DEF StreamsInv, Good, OneCallback
<1> QED BY <1>1, Inductive, PTL

\* Plug-ins change, and are set up, only while no output callback runs.
THEOREM PluginsChangedAtRest == StreamsSpec => []NeverTouchedLive
<1>1. StreamsInv => NeverTouchedLive
  BY DEF StreamsInv, Good, NeverTouchedLive
<1> QED BY <1>1, Inductive, PTL

\* A running stream calls every plug-in that obeys with the rate and the block size
\* it was set up for.
THEOREM PluginsSetUp == StreamsSpec => []PluginsMatchStream
<1>1. StreamsInv => PluginsMatchStream
  BY DEF StreamsInv, Good, Matched, PluginsMatchStream
<1> QED BY <1>1, Inductive, PTL

\* The input is heard exactly while an ASIO stream runs.
THEOREM MonitorRight == StreamsSpec => []MonitorFollowsAsio
<1>1. StreamsInv => MonitorFollowsAsio
  BY DEF StreamsInv, Good, MonitorFollowsAsio
<1> QED BY <1>1, Inductive, PTL

-----------------------------------------------------------------------------
(* What was suspended comes back. *)

\* openPort of a closed engine, on a device that does not refuse, runs its stream.
LEMMA OpenPortOpens ==
    ASSUME NEW e, Closed(e), e.device \notin Refusing, NEW r \in OpenPort(e)
    PROVE  r.wasapi # NoConfig
<1>1. PICK d \in OutputsFor(e), f \in Sizes : r \in OpenOutputOf(e, d, f)
  BY DEF Closed, OpenPort, OpenWasapi
<1>2. d = e.device
  BY DEF OutputsFor, OnFault
<1> DEFINE sized == [[e EXCEPT !.rate = OpenRate(e, d)] EXCEPT !.frames = f]
           opened == ReconfigurePlugins(sized)
<1>3. r = [opened EXCEPT !.wasapi = Current(opened)]
  BY <1>1, <1>2 DEF OpenOutputOf, OnFault
<1>4. Closed(sized)
  <2>1. e \in Engines /\ OpenRate(e, d) \in Rates
    BY OpenRateKnown DEF Closed, Good
  <2>2. Closed([e EXCEPT !.rate = OpenRate(e, d)])
    BY <2>1, FieldsGood DEF Engines
  <2> QED BY <2>2, FieldsGood DEF Closed, Good, Engines
<1> HIDE DEF sized
<1>5. opened \in Engines
  BY <1>4, ReconfigureGood DEF Closed, Good
<1> HIDE DEF opened
<1>6. r.wasapi = Current(opened) /\ Current(opened) \in Configs
  BY <1>3, <1>5 DEF Engines, Current, Configs
<1> QED BY <1>6 DEF Configs, NoConfig

\* startAsio with a driver that does not refuse, no stream running, runs it.
LEMMA StartAsioStarts ==
    ASSUME NEW e, Closed(e), NEW d \in AsioDevices, d \notin Refusing, NEW r \in StartAsio(e, d)
    PROVE  r.asio # NoConfig /\ r.asioDevice = d
<1> DEFINE chosen == [e EXCEPT !.asioDevice = d]
           closed == CloseWasapi(chosen)
           sized(c) == [closed EXCEPT !.rate = c.rate, !.frames = c.frames]
           opened(c) == ReconfigurePlugins(sized(c))
           running(c) == [opened(c) EXCEPT !.asio = c, !.monitor = TRUE]
<1>1. r \in OpenAsio(e, d)
  BY DEF StartAsio, Closed, IsOpen, OnFault
<1>2. PICK c \in AsioConfigs[d] : r = running(c)
  <2> DEFINE mute == IF d \in Mute THEN {chosen} ELSE {}
             shut == OnFault(d, OpenPort(closed))
             failed == UNION {OnFault(d, OpenPort(opened(c))) : c \in AsioConfigs[d]}
             started == {running(c) : c \in AsioConfigs[d]}
  <2>1. r \in mute \cup shut \cup failed \cup started
    BY <1>1 DEF OpenAsio
  <2>2. mute = {} /\ shut = {}
    BY DEF OnFault
  <2>3. failed = {}
    <3> HIDE DEF opened
    <3> QED BY DEF OnFault
  <2>4. r \in started => \E c \in AsioConfigs[d] : r = running(c)
    <3> HIDE DEF running
    <3> QED OBVIOUS
  <2> HIDE DEF mute, shut, failed, started, running
  <2> QED BY <2>1, <2>2, <2>3, <2>4
<1>3. Good(chosen) /\ chosen.asio = NoConfig /\ chosen.asioDevice = d
  BY DEF Closed, IsOpen, Good, Matched, Engines
<1> HIDE DEF chosen
<1>4. Closed(closed) /\ closed.asioDevice = d
  BY <1>3, CloseGood DEF Closed, IsOpen
<1> HIDE DEF closed
<1>5. c \in Configs /\ c.rate \in Rates /\ c.frames \in Sizes /\ c # NoConfig
  BY <1>2 DEF Configs, NoConfig
<1>6. Closed(sized(c)) /\ sized(c).asioDevice = d
  BY <1>4, <1>5, FieldsGood DEF Closed, Good, Engines
<1> HIDE DEF sized
<1>7. opened(c) \in Engines /\ opened(c).asioDevice = d
  BY <1>6, ReconfigureGood DEF Closed, Good
<1> HIDE DEF opened
<1> QED BY <1>2, <1>5, <1>7 DEF Engines

\* The streams that ran before an operation on the plug-ins, or an offline render, run
\* after it on a driver that does not refuse, and no others (suspendStreams, resumeStreams).
THEOREM StreamsRestored == StreamsSpec => RestoredExactly
<1>1. ASSUME StreamsInv, StreamsNext, upc # "idle", upc' = "idle"
      PROVE  /\ saved.wasAsio /\ saved.asioDevice \notin Refusing =>
                   engine'.asio # NoConfig /\ engine'.asioDevice = saved.asioDevice
             /\ saved.wasWasapi /\ engine.device \notin Refusing => engine'.wasapi # NoConfig
             /\ ~saved.wasAsio =>
                   /\ engine'.asio = NoConfig /\ engine'.input = engine.input
                   /\ ~saved.wasWasapi => engine'.wasapi = NoConfig
  <2>1. engine' \in ResumeStreams(engine, saved)
    <3>1. Resume
      BY <1>1 DEF StreamsNext, OpenOutput, CloseOutput, StopAsioInput, RestartInput, CloseInput,
            BeginEdit, BeginOfflineRender, Suspend, SetOutputDevice, SetBufferFrames,
            SetPreferredSampleRate, TakeAsio, StartPractice, Edit, Operation
    <3> QED BY <3>1 DEF Resume
  <2>2. Closed(engine) /\ engine.asio = NoConfig /\ engine.wasapi = NoConfig
    BY <1>1 DEF StreamsInv, Closed, IsOpen
  <2>3. CASE saved.wasAsio
    <3>1. engine' \in StartAsio(engine, saved.asioDevice) /\ ~saved.wasWasapi
      BY <1>1, <2>1, <2>3 DEF ResumeStreams, StreamsInv
    <3> QED BY <1>1, <2>2, <2>3, <3>1, StartAsioStarts DEF StreamsInv
  <2>4. CASE ~saved.wasAsio /\ saved.wasWasapi
    <3>1. engine' \in OpenPort(engine)
      BY <2>1, <2>4 DEF ResumeStreams
    <3> QED BY <1>1, <2>2, <2>4, <3>1, OpenPortOpens, OpenPortGood DEF StreamsInv
  <2>5. CASE ~saved.wasAsio /\ ~saved.wasWasapi
    BY <2>1, <2>2, <2>5 DEF ResumeStreams
  <2> QED BY <2>3, <2>4, <2>5
<1>2. StreamsInv /\ [StreamsNext]_streamVars =>
        [upc # "idle" /\ upc' = "idle" =>
          /\ saved.wasAsio /\ saved.asioDevice \notin Refusing =>
                engine'.asio # NoConfig /\ engine'.asioDevice = saved.asioDevice
          /\ saved.wasWasapi /\ engine.device \notin Refusing => engine'.wasapi # NoConfig
          /\ ~saved.wasAsio =>
                /\ engine'.asio = NoConfig /\ engine'.input = engine.input
                /\ ~saved.wasWasapi => engine'.wasapi = NoConfig]_streamVars
  BY <1>1
<1> QED BY <1>2, Inductive, PTL DEF StreamsSpec, RestoredExactly

-----------------------------------------------------------------------------
(* The mixer.                                                               *)

\* An event is a note or a mix of a channel.
LEMMA EventsTold ==
    ASSUME M!MixAssumption
    PROVE  /\ M!Note \notin M!Events /\ \A c \in Channels : M!Note.channel # c
           /\ \A e \in M!Events : e.channel \in Channels /\ e.value \in Mixes
           /\ \A c \in Channels, v \in Mixes :
                M!MixEvent(c, v) \in M!Events /\ M!MixEvent(c, v).channel = c /\ M!MixEvent(c, v).value = v
BY DEF M!MixAssumption, M!Note, M!Events, M!MixEvent

\* A new event is the newest of its channel and of no other.
LEMMA AppendArrives ==
    ASSUME M!MixAssumption, M!TypeOK, NEW e \in M!Events \cup {M!Note}, queue' = Append(queue, e), NEW c \in Channels
    PROVE  /\ M!Sent(c)' = IF e.channel = c THEN M!Sent(c) \cup {Len(queue) + 1} ELSE M!Sent(c)
           /\ \A k \in DOMAIN queue : queue'[k] = queue[k]
           /\ queue'[Len(queue) + 1] = e
<1>1. queue \in Seq(M!Events \cup {M!Note})  BY DEF M!TypeOK
<1>2. /\ Len(queue) \in Nat /\ DOMAIN queue = 1 .. Len(queue) /\ DOMAIN queue' = 1 .. Len(queue) + 1
      /\ \A k \in DOMAIN queue : queue'[k] = queue[k]
      /\ queue'[Len(queue) + 1] = e
  BY <1>1
<1> QED  BY <1>2 DEF M!Sent

\* What will arrive stays the same when the oldest event has.
LEMMA TailArrives ==
    ASSUME M!MixAssumption, M!TypeOK, queue # << >>, queue' = Tail(queue), NEW c \in Channels, NEW mix \in Mixes,
           M!WillArrive(c, mix),
           m_busGain'[c] = IF Head(queue).channel = c THEN Head(queue).value ELSE m_busGain[c]
    PROVE  M!WillArrive(c, mix)'
<1>1. queue \in Seq(M!Events \cup {M!Note})  BY DEF M!TypeOK
<1>2. /\ Len(queue) \in Nat \ {0} /\ DOMAIN queue = 1 .. Len(queue) /\ DOMAIN queue' = 1 .. Len(queue) - 1
      /\ \A k \in DOMAIN queue' : queue'[k] = queue[k + 1]
      /\ Head(queue) = queue[1]
  BY <1>1
<1>3. /\ \A k \in M!Sent(c)' : k + 1 \in M!Sent(c)
      /\ \A k \in M!Sent(c) : k = 1 \/ k - 1 \in M!Sent(c)'
      /\ M!Sent(c) \subseteq 1 .. Len(queue) /\ M!Sent(c)' \subseteq 1 .. Len(queue) - 1
  BY <1>2 DEF M!Sent
<1>4. CASE M!Sent(c)' = {}
  <2>1. M!Sent(c) \subseteq {1}  BY <1>3, <1>4
  <2>2. CASE M!Sent(c) = {}
    <3>1. Head(queue).channel # c  BY <1>2, <2>2 DEF M!Sent
    <3> QED  BY <1>4, <2>2, <3>1 DEF M!WillArrive
  <2>3. CASE 1 \in M!Sent(c)
    <3>1. Head(queue).channel = c /\ queue[1].value = mix  BY <1>2, <2>1, <2>3 DEF M!WillArrive, M!Sent
    <3> QED  BY <1>2, <1>4, <3>1 DEF M!WillArrive
  <2> QED  BY <2>1, <2>2, <2>3
<1>5. CASE M!Sent(c)' # {}
  <2> SUFFICES ASSUME NEW k \in M!Sent(c)', \A j \in M!Sent(c)' : j =< k
               PROVE  queue'[k].value = mix
    BY <1>5 DEF M!WillArrive
  <2>1. k + 1 \in M!Sent(c) /\ \A j \in M!Sent(c) : j =< k + 1  BY <1>2, <1>3
  <2>2. queue[k + 1].value = mix  BY <2>1 DEF M!WillArrive
  <2>3. k \in DOMAIN queue'  BY DEF M!Sent
  <2> QED  BY <1>2, <2>2, <2>3
<1> QED  BY <1>4, <1>5

LEMMA MixInit == M!MixAssumption /\ M!Init => M!MixIsOnItsWay
<1> SUFFICES ASSUME M!MixAssumption, M!Init  PROVE M!MixIsOnItsWay  OBVIOUS
<1>1. queue = << >> /\ << >> \in Seq(M!Events \cup {M!Note}) /\ Len(<< >>) = 0 /\ DOMAIN << >> = {}  BY DEF M!Init
<1>2. M!TypeOK  BY <1>1 DEF M!Init, M!TypeOK, M!MixAssumption, M!AllUnity
<1>3. M!CacheIsOnItsWay  BY <1>1 DEF M!Init, M!CacheIsOnItsWay, M!WillArrive, M!Sent
<1>4. M!SynthAgreesWithBus  BY DEF M!Init, M!SynthAgreesWithBus
<1> QED  BY <1>2, <1>3, <1>4 DEF M!MixIsOnItsWay

\* setChannelMix: the event is the newest, or lost.
LEMMA SetChannelMixKeeps ==
    ASSUME M!MixAssumption, M!MixIsOnItsWay, NEW c \in Channels, NEW mix \in Mixes, M!SetChannelMix(c, mix), mode' = mode
    PROVE  M!MixIsOnItsWay'
<1>1. M!TypeOK /\ M!CacheIsOnItsWay /\ M!SynthAgreesWithBus  BY DEF M!MixIsOnItsWay
<1>2. queue \in Seq(M!Events \cup {M!Note}) /\ Len(queue) \in Nat /\ DOMAIN queue = 1 .. Len(queue)  BY <1>1 DEF M!TypeOK
<1>3. M!TypeOK'
  <2>1. queue' \in Seq(M!Events \cup {M!Note}) /\ Len(queue') =< Room
    <3>1. CASE M!HasRoom
      <4>1. queue' = Append(queue, M!MixEvent(c, mix)) /\ M!MixEvent(c, mix) \in M!Events
        BY <3>1, EventsTold DEF M!SetChannelMix
      <4> QED  BY <1>2, <3>1, <4>1 DEF M!HasRoom, M!MixAssumption
    <3>2. CASE ~M!HasRoom  BY <1>1, <3>2 DEF M!SetChannelMix, M!TypeOK
    <3> QED  BY <3>1, <3>2
  <2> QED  BY <1>1, <2>1 DEF M!TypeOK, M!SetChannelMix
<1>4. M!CacheIsOnItsWay'
  <2> SUFFICES ASSUME NEW d \in Channels, ~lost'[d]  PROVE M!WillArrive(d, m_lastCh[d])'
    BY DEF M!CacheIsOnItsWay
  <2>1. CASE M!HasRoom
    <3>1. queue' = Append(queue, M!MixEvent(c, mix))  BY <2>1 DEF M!SetChannelMix
    <3>2. /\ M!MixEvent(c, mix) \in M!Events /\ M!MixEvent(c, mix).channel = c /\ M!MixEvent(c, mix).value = mix
      BY EventsTold
    <3>3. /\ M!Sent(d)' = IF c = d THEN M!Sent(d) \cup {Len(queue) + 1} ELSE M!Sent(d)
          /\ \A k \in DOMAIN queue : queue'[k] = queue[k]
          /\ queue'[Len(queue) + 1] = M!MixEvent(c, mix)
      BY <1>1, <3>1, <3>2, AppendArrives
    <3>4. M!Sent(d) \subseteq 1 .. Len(queue)  BY <1>2 DEF M!Sent
    <3>5. CASE d = c
      <4>1. m_lastCh'[d] = mix  BY <1>1, <3>5 DEF M!SetChannelMix, M!TypeOK
      <4>2. M!Sent(d)' = M!Sent(d) \cup {Len(queue) + 1}  BY <3>3, <3>5
      <4>3. ASSUME NEW k \in M!Sent(d)', \A j \in M!Sent(d)' : j =< k  PROVE queue'[k].value = mix
        <5>1. Len(queue) + 1 =< k /\ k \in M!Sent(d) \cup {Len(queue) + 1}
          BY <4>2, <4>3
        <5>2. k = Len(queue) + 1  BY <1>2, <3>4, <5>1
        <5> QED  BY <3>2, <3>3, <5>2
      <4> QED  BY <4>1, <4>2, <4>3 DEF M!WillArrive
    <3>6. CASE d # c
      <4>1. m_lastCh'[d] = m_lastCh[d] /\ lost'[d] = lost[d] /\ m_busGain' = m_busGain
        BY <1>1, <3>6 DEF M!SetChannelMix, M!TypeOK
      <4>2. M!WillArrive(d, m_lastCh[d])  BY <1>1, <4>1 DEF M!CacheIsOnItsWay
      <4>3. M!Sent(d)' = M!Sent(d) /\ \A k \in M!Sent(d) : queue'[k] = queue[k]  BY <1>2, <3>3, <3>4, <3>6
      <4> QED  BY <4>1, <4>2, <4>3 DEF M!WillArrive
    <3> QED  BY <3>5, <3>6
  <2>2. CASE ~M!HasRoom
    <3>1. d # c /\ m_lastCh'[d] = m_lastCh[d] /\ lost'[d] = lost[d] /\ m_busGain' = m_busGain /\ queue' = queue
      BY <1>1, <2>2 DEF M!SetChannelMix, M!TypeOK
    <3> QED  BY <1>1, <3>1 DEF M!CacheIsOnItsWay, M!WillArrive, M!Sent
  <2> QED  BY <2>1, <2>2
<1>5. M!SynthAgreesWithBus'  BY <1>1 DEF M!SynthAgreesWithBus, M!SetChannelMix
<1> QED  BY <1>3, <1>4, <1>5 DEF M!MixIsOnItsWay

\* renderBlock: the oldest event reaches synthesizer and bus.
LEMMA PopKeeps ==
    ASSUME M!MixAssumption, M!MixIsOnItsWay, M!Pop
    PROVE  M!MixIsOnItsWay'
<1>1. M!TypeOK /\ M!CacheIsOnItsWay /\ M!SynthAgreesWithBus  BY DEF M!MixIsOnItsWay
<1>2. queue \in Seq(M!Events \cup {M!Note}) /\ queue # << >> /\ queue' = Tail(queue)  BY <1>1 DEF M!TypeOK, M!Pop
<1>3. /\ queue' \in Seq(M!Events \cup {M!Note}) /\ Len(queue') = Len(queue) - 1 /\ Len(queue) \in Nat
      /\ Head(queue) \in M!Events \cup {M!Note}
  BY <1>2
<1>4. ASSUME NEW d \in Channels
      PROVE  m_busGain'[d] = IF Head(queue).channel = d THEN Head(queue).value ELSE m_busGain[d]
  <2>1. CASE Head(queue) = M!Note  BY <2>1, EventsTold DEF M!Pop
  <2>2. CASE Head(queue) # M!Note
    <3>1. m_busGain' = [m_busGain EXCEPT ![Head(queue).channel] = Head(queue).value]
      BY <2>2 DEF M!Pop, M!ApplyMix
    <3> QED  BY <1>1, <3>1 DEF M!TypeOK
  <2> QED  BY <2>1, <2>2
<1>5. M!TypeOK'
  <2>1. /\ m_busGain' \in [Channels -> Mixes] /\ m_ch' \in [Channels -> Mixes]
        /\ prepared' \in [Channels -> BOOLEAN]
    <3>1. CASE Head(queue) = M!Note  BY <1>1, <3>1 DEF M!Pop, M!TypeOK
    <3>2. CASE Head(queue) # M!Note
      <4>1. Head(queue).channel \in Channels /\ Head(queue).value \in Mixes  BY <1>3, <3>2, EventsTold
      <4> QED  BY <1>1, <3>2, <4>1 DEF M!Pop, M!ApplyMix, M!TypeOK
    <3> QED  BY <3>1, <3>2
  <2> QED  BY <1>1, <1>3, <2>1 DEF M!TypeOK, M!Pop, M!MixAssumption
<1>6. M!CacheIsOnItsWay'
  <2> SUFFICES ASSUME NEW d \in Channels, ~lost'[d]  PROVE M!WillArrive(d, m_lastCh[d])'
    BY DEF M!CacheIsOnItsWay
  <2>1. lost' = lost /\ m_lastCh' = m_lastCh  BY DEF M!Pop
  <2> DEFINE value == m_lastCh[d]
  <2>2. M!WillArrive(d, value) /\ value \in Mixes  BY <1>1, <2>1 DEF M!CacheIsOnItsWay, M!TypeOK
  <2>3. value' = value  BY <2>1
  <2>4. ASSUME NEW mix \in Mixes, M!WillArrive(d, mix)  PROVE M!WillArrive(d, mix)'
    BY <1>1, <1>2, <1>4, <2>4, TailArrives
  <2> QED  BY <2>2, <2>3, <2>4 DEF M!WillArrive
<1>7. M!SynthAgreesWithBus'
  <2> SUFFICES ASSUME NEW d \in Channels, ~prepared'[d]  PROVE m_ch'[d] = m_busGain'[d]
    BY DEF M!SynthAgreesWithBus
  <2>1. CASE Head(queue) = M!Note  BY <1>1, <2>1 DEF M!Pop, M!SynthAgreesWithBus
  <2>2. CASE Head(queue) # M!Note
    <3>1. /\ m_ch' = [m_ch EXCEPT ![Head(queue).channel] = Head(queue).value]
          /\ m_busGain' = [m_busGain EXCEPT ![Head(queue).channel] = Head(queue).value]
          /\ prepared' = [prepared EXCEPT ![Head(queue).channel] = FALSE]
      BY <2>2 DEF M!Pop, M!ApplyMix
    <3> QED  BY <1>1, <3>1 DEF M!TypeOK, M!SynthAgreesWithBus
  <2> QED  BY <2>1, <2>2
<1> QED  BY <1>5, <1>6, <1>7 DEF M!MixIsOnItsWay

LEMMA MixNext == M!MixAssumption /\ M!MixIsOnItsWay /\ [M!Next]_M!vars => M!MixIsOnItsWay'
<1> SUFFICES ASSUME M!MixAssumption, M!MixIsOnItsWay, [M!Next]_M!vars  PROVE M!MixIsOnItsWay'
  OBVIOUS
<1>0. M!TypeOK /\ M!CacheIsOnItsWay /\ M!SynthAgreesWithBus  BY DEF M!MixIsOnItsWay
<1>1. ASSUME NEW c \in Channels, M!MoveFader(c)  PROVE M!MixIsOnItsWay'
  BY <1>0, <1>1 DEF M!MoveFader, M!MixIsOnItsWay, M!TypeOK, M!CacheIsOnItsWay, M!WillArrive, M!Sent, M!SynthAgreesWithBus
<1>2. ASSUME NEW c \in Channels, M!SendFader(c)  PROVE M!MixIsOnItsWay'
  <2>1. fader[c] \in Mixes  BY <1>0 DEF M!TypeOK
  <2> QED  BY <1>2, <2>1, SetChannelMixKeeps DEF M!SendFader
<1>3. ASSUME NEW c \in Channels, M!Freeze(c)  PROVE M!MixIsOnItsWay'
  BY <1>3, SetChannelMixKeeps DEF M!Freeze, M!MixAssumption
<1>4. CASE M!SendNote
  <2>1. queue' = Append(queue, M!Note) /\ queue \in Seq(M!Events \cup {M!Note})  BY <1>0, <1>4 DEF M!SendNote, M!TypeOK
  <2>2. queue' \in Seq(M!Events \cup {M!Note}) /\ Len(queue') = Len(queue) + 1 /\ Len(queue) \in Nat  BY <2>1
  <2>3. M!TypeOK'  BY <1>0, <1>4, <2>2 DEF M!SendNote, M!TypeOK, M!HasRoom, M!MixAssumption
  <2>4. ASSUME NEW d \in Channels, ~lost'[d]  PROVE M!WillArrive(d, m_lastCh[d])'
    <3>1. M!Sent(d)' = M!Sent(d) /\ \A k \in DOMAIN queue : queue'[k] = queue[k]
      BY <1>0, <2>1, EventsTold, AppendArrives
    <3>2. M!WillArrive(d, m_lastCh[d])  BY <1>0, <1>4, <2>4 DEF M!SendNote, M!CacheIsOnItsWay
    <3>3. m_lastCh' = m_lastCh /\ m_busGain' = m_busGain  BY <1>4 DEF M!SendNote
    <3>4. \A k \in M!Sent(d) : queue'[k] = queue[k]  BY <3>1 DEF M!Sent
    <3> QED  BY <3>1, <3>2, <3>3, <3>4 DEF M!WillArrive
  <2>5. M!SynthAgreesWithBus'  BY <1>0, <1>4 DEF M!SendNote, M!SynthAgreesWithBus
  <2> QED  BY <2>3, <2>4, <2>5 DEF M!MixIsOnItsWay, M!CacheIsOnItsWay
<1>5. CASE M!OpenStream \/ M!BeginRender
  <2>1. /\ m_ch' = M!AllUnity /\ prepared' = [c \in Channels |-> TRUE] /\ mode' \in {"closed", "running", "offline"}
        /\ UNCHANGED <<fader, m_lastCh, queue, m_busGain, lost>>
    BY <1>5 DEF M!OpenStream, M!BeginRender, M!Prepare
  <2>2. M!TypeOK'  BY <1>0, <2>1 DEF M!TypeOK, M!AllUnity, M!MixAssumption
  <2>3. M!CacheIsOnItsWay'  BY <1>0, <2>1 DEF M!CacheIsOnItsWay, M!WillArrive, M!Sent
  <2>4. M!SynthAgreesWithBus'  BY <2>1 DEF M!SynthAgreesWithBus
  <2> QED  BY <2>2, <2>3, <2>4 DEF M!MixIsOnItsWay
<1>6. CASE M!CloseStream
  BY <1>0, <1>6 DEF M!CloseStream, M!MixIsOnItsWay, M!TypeOK, M!CacheIsOnItsWay, M!WillArrive, M!Sent, M!SynthAgreesWithBus
<1>7. CASE M!Pop  BY <1>7, PopKeeps
<1>8. CASE UNCHANGED M!vars
  BY <1>0, <1>8 DEF M!vars, M!MixIsOnItsWay, M!TypeOK, M!CacheIsOnItsWay, M!WillArrive, M!Sent, M!SynthAgreesWithBus
<1> QED  BY <1>1, <1>2, <1>3, <1>4, <1>5, <1>6, <1>7, <1>8 DEF M!Next

\* For every set of channels and mixes, notes or none, and room in the queue: what setChannelMix
\* has remembered for a channel is what its bus will have when the queue is empty, unless the
\* queue dropped the newest event, so that suppressing an equal value loses nothing; and the
\* synthesizer plays with the mix of the bus except after Synth::prepare.
THEOREM MixAlwaysOnItsWay == M!MixAssumption /\ M!Spec => []M!MixIsOnItsWay
<1>1. M!MixAssumption /\ M!MixIsOnItsWay /\ [M!Next]_M!vars => (M!MixAssumption /\ M!MixIsOnItsWay)'
  <2>1. M!MixAssumption => M!MixAssumption'  BY DEF M!MixAssumption
  <2> QED  BY <2>1, MixNext
<1> QED  BY <1>1, MixInit, PTL DEF M!Spec
==============================================================================

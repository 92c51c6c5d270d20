------------------------------- MODULE InputTap -------------------------------
(***************************************************************************)
(* The ring the practice mode listens through.  The input callback writes  *)
(* every sample at a position that counts up without end and wraps with    *)
(* its word; the GUI thread remembers a position, and later copies the     *)
(* samples from there while the callback goes on writing.                  *)
(***************************************************************************)
EXTENDS Naturals, Sequences

CONSTANTS TapSize,    \* kTapSize, a power of two
          Guard,      \* samples about to be overwritten that are not trusted
          Word,       \* positions a counter can tell apart, a multiple of TapSize
          Lengths,    \* samples the GUI asks for
          MaxWrites   \* bound: samples written, fewer than come in a round of the counter

TapAssumption ==
    /\ TapSize \in Nat \ {0} /\ Guard \in 1 .. TapSize
    /\ Word \in Nat /\ Word > 2 * TapSize /\ Word % TapSize = 0
    /\ Lengths \subseteq Nat \ {0} /\ MaxWrites \in Nat /\ MaxWrites < Word

VARIABLES m_inTap,     \* the ring: the number of the sample each slot holds
          m_inTapPos,
          written,     \* history: samples written so far
          from,        \* a position the GUI has remembered, and the sample that comes there
          reading      \* a copy under way: samples wanted and copied, pushes since the check

tapVars == <<m_inTap, m_inTapPos, written, from, reading>>

Slot(p) == p % TapSize
Minus(p, q) == (p + Word - q) % Word

Idle == [n |-> 0, start |-> [pos |-> 0, sample |-> 1], copy |-> << >>, pushed |-> 0,
         range |-> FALSE]

\* The start, or a moment a ring before the counter wraps.
TapInit == /\ \/ /\ m_inTapPos = 0 /\ written = 0
                 /\ m_inTap = [i \in 0 .. TapSize - 1 |-> 0]
              \/ /\ m_inTapPos = Word - TapSize /\ written = TapSize
                 /\ m_inTap = [i \in 0 .. TapSize - 1 |-> i + 1]
           /\ from = [pos |-> m_inTapPos, sample |-> written + 1]
           /\ reading = Idle

\* tapPush.  A copy is over long before Guard samples have come.
tapPush ==
    /\ written < MaxWrites /\ reading.pushed < Guard
    /\ written' = written + 1
    /\ m_inTap' = [m_inTap EXCEPT ![Slot(m_inTapPos)] = written']
    /\ m_inTapPos' = (m_inTapPos + 1) % Word
    /\ reading' = [reading EXCEPT !.pushed = IF reading.n = 0 THEN 0 ELSE @ + 1]
    /\ UNCHANGED from

\* inputTapWritePos, or a span that begins back samples before it.
Remember(back) ==
    /\ reading.n = 0 /\ back <= written
    /\ from' = [pos |-> Minus(m_inTapPos, back), sample |-> written + 1 - back]
    /\ UNCHANGED <<m_inTap, m_inTapPos, written, reading>>

\* (defect: samples about to be overwritten are trusted)
NoGuard(n) ==
    LET age == Minus(m_inTapPos, from.pos)
    IN  n <= TapSize /\ age <= TapSize /\ age >= n

\* readInputTapRange's checks.
Trusted(n) ==
    LET age == Minus(m_inTapPos, from.pos)
    IN  n <= TapSize /\ age <= TapSize /\ age >= n /\ age <= TapSize - Guard

StartCopy(n, start, range) ==
    /\ reading.n = 0
    /\ reading' = [n |-> n, start |-> start, copy |-> << >>, pushed |-> 0, range |-> range]
    /\ UNCHANGED <<m_inTap, m_inTapPos, written, from>>

readInputTapRange(n) == Trusted(n) /\ StartCopy(n, from, TRUE)

\* readInputTap: the newest n samples; nothing when the counter has not reached n.
readInputTap(n) ==
    /\ n <= TapSize /\ m_inTapPos >= n
    /\ StartCopy(n, [pos |-> m_inTapPos - n, sample |-> written + 1 - n], FALSE)

\* One sample of the copy.
CopySample ==
    LET i == Len(reading.copy)
    IN  /\ reading.n > i
        /\ reading' = [reading EXCEPT !.copy = Append(@, m_inTap[Slot(reading.start.pos + i)])]
        /\ UNCHANGED <<m_inTap, m_inTapPos, written, from>>

Done == /\ reading.n > 0 /\ Len(reading.copy) = reading.n
        /\ reading' = Idle
        /\ UNCHANGED <<m_inTap, m_inTapPos, written, from>>

TapNext == \/ tapPush \/ CopySample \/ Done
           \/ \E back \in 0 .. TapSize : Remember(back)
           \/ \E n \in Lengths : readInputTapRange(n) \/ readInputTap(n)

TapSpec == TapInit /\ [][TapNext]_tapVars

-----------------------------------------------------------------------------
(* Property. *)

\* A span that was trusted holds the samples that came at the remembered position, in
\* order and without a gap, although the counter wrapped and the callback went on writing.
SpanIsIntact ==
    reading.range =>
        \A i \in DOMAIN reading.copy : reading.copy[i] = reading.start.sample + i - 1
===============================================================================

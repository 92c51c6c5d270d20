------------------------------- MODULE OneShots -------------------------------
(***************************************************************************)
(* The one-shot voices of the audio callback: metronome clicks (4 slots)   *)
(* and drum samples (16).  A trigger takes a free slot or, when all play,  *)
(* the slot that is furthest in its clip; every block advances each slot   *)
(* and gives it back at the end of its clip.                               *)
(***************************************************************************)
EXTENDS Naturals, FiniteSets

CONSTANTS Slots,       \* slots of m_clickVoices or m_drumVoices, counted from 1
          Frames,      \* frames of a clip, one rate for all of them
          Blocks,      \* sizes of a block
          MaxTriggers, \* bound: notes in a behaviour
          MaxFrames    \* bound: frames mixed while notes come

OneShotsAssumption ==
    /\ Slots \in Nat \ {0} /\ Frames \in Nat \ {0} /\ Blocks \subseteq Nat \ {0}
    /\ MaxTriggers \in Nat /\ MaxFrames \in Nat

VARIABLES slots,      \* the voices: which trigger they play and how far they are
          triggered,  \* history: notes so far
          played,     \* history: per trigger, the frames heard
          born,       \* history: per trigger, the frames that had been mixed when it came
          now,        \* history: frames mixed so far
          cut         \* history: the triggers that lost their slot

vars == <<slots, triggered, played, born, now, cut>>

Slot == 1 .. Slots
Free == [note |-> 0, pos |-> 0]

Init == /\ slots = [s \in Slot |-> Free]
        /\ triggered = 0
        /\ played = [i \in 1 .. MaxTriggers |-> 0]
        /\ born = [i \in 1 .. MaxTriggers |-> 0]
        /\ now = 0 /\ cut = {}

\* (defect: the slot that is least far is taken)
LeastAdvanced(s) ==
    IF \E w \in Slot : slots[w] = Free THEN slots[s] = Free
    ELSE \A w \in Slot : slots[w].pos >= slots[s].pos

\* The first free slot, or the first of those furthest in their clips.
Chosen(s) ==
    IF \E w \in Slot : slots[w] = Free
    THEN slots[s] = Free /\ \A w \in 1 .. s - 1 : slots[w] # Free
    ELSE /\ \A w \in Slot : slots[w].pos <= slots[s].pos
         /\ \A w \in 1 .. s - 1 : slots[w].pos < slots[s].pos

\* triggerClick, triggerDrumSample
Trigger ==
    /\ triggered < MaxTriggers /\ now < MaxFrames
    /\ triggered' = triggered + 1
    /\ \E s \in Slot :
        /\ Chosen(s)
        /\ slots' = [slots EXCEPT ![s] = [note |-> triggered', pos |-> 0]]
        /\ cut' = IF slots[s] = Free THEN cut ELSE cut \cup {slots[s].note}
    /\ born' = [born EXCEPT ![triggered'] = now]
    /\ UNCHANGED <<played, now>>

Capped(x, bound) == IF x > bound THEN bound ELSE x

\* mixClickVoices, mixDrumVoices: a slot is free again in the block that finds it at the end
\* before its last frame.
Mix(n) ==
    /\ slots' = [s \in Slot |-> IF slots[s] = Free \/ slots[s].pos + n > Frames THEN Free
                                ELSE [slots[s] EXCEPT !.pos = @ + n]]
    /\ played' = [i \in DOMAIN played |->
          IF \A s \in Slot : slots[s].note # i THEN played[i]
          ELSE Capped(played[i] + n, Frames)]
    /\ now' = Capped(now + n, MaxFrames)
    /\ UNCHANGED <<triggered, born, cut>>

Next == Trigger \/ \E n \in Blocks : Mix(n)

Spec == Init /\ [][Next]_vars

-----------------------------------------------------------------------------
(* Properties. *)

\* The sound cut is one of those that began in the earliest block, although what the code
\* compares is how far each is in its clip.
OldestIsCut ==
    [][\A s \in Slot : slots[s] # Free /\ slots'[s].note > slots[s].note =>
          \A w \in Slot : born[slots[w].note] >= born[slots[s].note]]_vars

\* A note whose slot was never taken from it is heard to the end, each frame once.
WholeClipHeard ==
    \A i \in 1 .. triggered :
        \/ \E s \in Slot : slots[s].note = i /\ slots[s].pos = played[i]
        \/ i \in cut
        \/ played[i] = Frames
===============================================================================

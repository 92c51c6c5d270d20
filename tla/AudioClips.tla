------------------------------ MODULE AudioClips -----------------------------
(***************************************************************************)
(* The pieces of recorded sound a track carries: audio/AudioClip.h and the  *)
(* cutting, joining and turning round of them in audio/AudioClip.cpp.       *)
(*                                                                         *)
(* One tick lasts one source frame, so a clip at speed 1 plays a frame a    *)
(* tick; a frame is a number, and what a track sounds like at a tick is the *)
(* sum of its clips there.  Fades are carried along but not heard.          *)
(***************************************************************************)
EXTENDS Integers, SequencesExt

NewClip(pcm, start) ==
    [pcm |-> pcm, start |-> start, speed |-> 1, trimStart |-> 0, trimLen |-> Len(pcm),
     fadeIn |-> 0, fadeOut |-> 0, gain |-> 1, bounce |-> FALSE]

PlayLen(c)  == IF c.trimLen > 0 THEN c.trimLen ELSE Len(c.pcm)
PlayTicks(c) == PlayLen(c) \div c.speed
EndTick(c)  == c.start + PlayTicks(c)

\* Frames of the source that are played and exist.
Frames(c) == [k \in 1..Max({0, Min({PlayLen(c), Len(c.pcm) - c.trimStart})}) |->
                 c.pcm[c.trimStart + k]]

SampleAt(c, tick) ==
    LET f == c.trimStart + (tick - c.start) * c.speed
    IN  IF c.start <= tick /\ tick < EndTick(c) /\ f < Len(c.pcm) THEN c.gain * c.pcm[f + 1] ELSE 0

SumOf(clips, tick) == FoldLeft(LAMBDA sum, c : sum + SampleAt(c, tick), 0, clips)

------------------------------------------------------------------------------
\* No cut at the very ends, nor where the source has run out.
CanSplit(c, at) ==
    /\ 0 < at /\ at < PlayTicks(c)
    /\ c.trimStart + at * c.speed < Len(c.pcm)

\* The left piece keeps the whole source, so that its end can be pulled out again.
LeftOf(c, at) == [c EXCEPT !.trimLen = at * c.speed, !.fadeOut = 0]

\* The right piece has a source of its own, from the cut on.
RightOf(c, at) ==
    [c EXCEPT !.pcm = SubSeq(@, c.trimStart + at * c.speed + 1, Len(@)),
              !.trimStart = 0, !.trimLen = PlayLen(c) - at * c.speed,
              !.fadeIn = 0, !.bounce = FALSE]

CanReverse(c) == Len(Frames(c)) >= 2
Reversed(c) ==
    [NewClip(Reverse(Frames(c)), c.start) EXCEPT
        !.speed = c.speed, !.gain = c.gain, !.fadeIn = c.fadeOut, !.fadeOut = c.fadeIn]

\* Clips are mixed into one where they lie, with silence between them.
From(clips)  == Min({clips[i].start : i \in DOMAIN clips})
Until(clips) == Max({EndTick(clips[i]) : i \in DOMAIN clips})

MergedAtFront(clips) ==  \* (defect: every clip is mixed in from the start)
    NewClip([k \in 1..Until(clips) - From(clips) |->
                SumOf([i \in DOMAIN clips |-> [clips[i] EXCEPT !.start = 0]], k - 1)], From(clips))
Merged(clips) ==
    NewClip([k \in 1..Until(clips) - From(clips) |-> SumOf(clips, From(clips) + k - 1)],
            From(clips))

\* Longer or shorter at the same pitch: the frames are spread over ratio-times as
\* many, and the new clip plays at speed 1.  Nothing is made where no frame would be left.
StretchedLen(c, num, den) == (Len(Frames(c)) * num) \div den
Stretched(c, num, den) ==
    [NewClip([k \in 1..StretchedLen(c, num, den) |-> 
                  Frames(c)[((k - 1) * den) \div num + 1]], c.start) EXCEPT
        !.gain = c.gain, !.fadeIn = c.fadeIn, !.fadeOut = c.fadeOut]
==============================================================================

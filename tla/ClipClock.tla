------------------------------- MODULE ClipClock -------------------------------
(***************************************************************************)
(* The position of the audio clips.  The GUI thread starts, stops and      *)
(* moves it (startAudio, stopAudio, seekAudio); mixAudioClips loads it at  *)
(* the beginning of a block, mixes the clips of a snapshot it has loaded   *)
(* too, and stores the position of the block's end.                        *)
(***************************************************************************)
EXTENDS Naturals, Sequences

CONSTANTS Frames,    \* frames of a block
          Positions, \* where the GUI moves the head
          Lists,     \* clip lists, the empty one among them
          Empty,
          MaxPos     \* bound: positions

ClipClockAssumption == /\ Frames \in Nat \ {0} /\ MaxPos \in Nat /\ Empty \in Lists
                              /\ Positions \subseteq 0 .. MaxPos

VARIABLES m_audioPlaying, m_audioSample, m_mixClips,
          cpc,     \* the callback: out, loaded, mixed
          base,    \* mixAudioClips: the position it loaded
          clips,   \* and the list
          heard,   \* history: position of the block mixed last, blocks counted modulo 2
          asked    \* history: where the GUI last put the head, until a block starts from there

vars == <<m_audioPlaying, m_audioSample, m_mixClips, cpc, base, clips, heard, asked>>

None == MaxPos + 1
Nothing == [from |-> None, block |-> 0]
Block(p) == [from |-> p, block |-> 1 - heard.block]

Init == /\ m_audioPlaying = FALSE /\ m_audioSample = 0 /\ m_mixClips = Empty
        /\ cpc = "out" /\ base = 0 /\ clips = Empty /\ heard = Nothing /\ asked = None

-----------------------------------------------------------------------------
(* The callback. *)

\* Nothing plays, and the position stays.
Idle == /\ cpc = "out" /\ ~m_audioPlaying
        /\ heard' = Nothing
        /\ UNCHANGED <<m_audioPlaying, m_audioSample, m_mixClips, cpc, base, clips, asked>>

LoadList ==
    /\ cpc = "out" /\ m_audioPlaying
    /\ clips' = m_mixClips /\ cpc' = "list"
    /\ UNCHANGED <<m_audioPlaying, m_audioSample, m_mixClips, base, heard, asked>>

\* (defect: without clips the head waits)
WaitsEmpty ==
    /\ cpc = "list" /\ clips = Empty
    /\ heard' = Block(m_audioSample)
    /\ asked' = None /\ cpc' = "out"
    /\ UNCHANGED <<m_audioPlaying, m_audioSample, m_mixClips, base, clips>>

\* Without clips the head moves on in one step (fetch_add).
PassEmpty ==
    /\ cpc = "list" /\ clips = Empty /\ m_audioSample + Frames <= MaxPos
    /\ m_audioSample' = m_audioSample + Frames
    /\ heard' = Block(m_audioSample)
    /\ asked' = None /\ cpc' = "out"
    /\ UNCHANGED <<m_audioPlaying, m_mixClips, base, clips>>

LoadPosition ==
    /\ cpc = "list" /\ clips # Empty /\ m_audioSample + Frames <= MaxPos
    /\ base' = m_audioSample /\ cpc' = "mixed"
    /\ heard' = Block(base')
    /\ asked' = None
    /\ UNCHANGED <<m_audioPlaying, m_audioSample, m_mixClips, clips>>

\* The position of the end is stored, whatever the GUI has stored meanwhile.
StorePosition ==
    /\ cpc = "mixed"
    /\ m_audioSample' = base + Frames /\ cpc' = "out"
    /\ UNCHANGED <<m_audioPlaying, m_mixClips, base, clips, heard, asked>>

-----------------------------------------------------------------------------
(* The GUI thread. *)

setAudioMix(list) ==
    /\ m_mixClips' = list
    /\ UNCHANGED <<m_audioPlaying, m_audioSample, cpc, base, clips, heard, asked>>

startAudio(p) ==
    /\ m_audioSample' = p /\ m_audioPlaying' = TRUE
    /\ asked' = p
    /\ UNCHANGED <<m_mixClips, cpc, base, clips, heard>>

stopAudio ==
    /\ m_audioPlaying' = FALSE
    /\ UNCHANGED <<m_audioSample, m_mixClips, cpc, base, clips, heard, asked>>

seekAudio(p) ==
    /\ m_audioSample' = p
    /\ asked' = p
    /\ UNCHANGED <<m_audioPlaying, m_mixClips, cpc, base, clips, heard>>

Next == \/ Idle \/ LoadList \/ PassEmpty \/ LoadPosition \/ StorePosition \/ stopAudio
        \/ \E list \in Lists : setAudioMix(list)
        \/ \E p \in Positions : startAudio(p) \/ seekAudio(p)

Spec == Init /\ [][Next]_vars

-----------------------------------------------------------------------------
(* Properties. *)

\* Two blocks in a row that the GUI has put no position between join without a gap or a
\* repeat, whether or not there were clips to mix in either.
BlocksJoin ==
    [][heard.from # None /\ heard'.from # None /\ heard'.block # heard.block /\ asked = None
          => heard'.from = heard.from + Frames]_vars

\* The head is where the GUI put it, or a block on, when the callback is between two blocks:
\* "starts, stops or seeks audio at startFrame", says IAudioClips.h.
SeekIsKept == cpc = "out" /\ asked # None => m_audioSample = asked
===============================================================================

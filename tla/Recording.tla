------------------------------- MODULE Recording -------------------------------
(***************************************************************************)
(* RtAudioEngine's recorder.  The input callback may not allocate, so the  *)
(* GUI thread publishes 30-second chunks ahead of it, one atomic pointer   *)
(* per chunk; the callback reads the recording flag once per block and     *)
(* stores sample by sample.  Stopping drops the flag, copies what there is *)
(* and frees the chunks, without waiting for a block under way.            *)
(*                                                                         *)
(* The same callback feeds the ring of InputTap, with which the recorder    *)
(* shares no state.                                                        *)
(***************************************************************************)
EXTENDS InputTap

CONSTANTS ChunkFrames,  \* kRecChunkFrames
          MaxChunks,    \* kRecMaxChunks
          BlockSizes,   \* frames a driver may hand over at once
          MaxSamples,   \* bound: samples the input delivers in a behaviour
          MaxTakes      \* bound: recordings in a behaviour

RecordingAssumption ==
    /\ ChunkFrames \in Nat \ {0} /\ MaxChunks \in Nat \ {0} /\ BlockSizes \subseteq Nat \ {0}
    /\ MaxSamples \in Nat /\ MaxTakes \in Nat

VARIABLES
    m_recording, m_recCount,
    m_recChunks,  \* m_recChunks[k]: what the chunk holds, or Null while there is none
    block,        \* the input callback: its step, samples left, and what it has loaded
    clock,        \* samples delivered so far; a sample is the number it had
    takes,        \* recordings begun
    clip,         \* the last take handed to the song
    captured,     \* history: the samples delivered to this recording
    torn,         \* history: a block that saw the flag was under way when it fell
    served,       \* history: m_recCount when the GUI thread last came in time
    dropped       \* history: a sample of this recording found no chunk

vars == <<m_recording, m_recCount, m_recChunks, block, clock, takes, clip, captured, torn, served, dropped>>

Chunks == 0 .. MaxChunks - 1
Null == << >>
Silence == [i \in 0 .. ChunkFrames - 1 |-> 0]
NoBlock == [pc |-> "out", left |-> 0, rec |-> FALSE, n |-> 0]

Init == /\ m_recording = FALSE /\ m_recCount = 0
        /\ m_recChunks = [k \in Chunks |-> Null]
        /\ block = NoBlock
        /\ clock = 0 /\ takes = 0 /\ clip = << >>
        /\ captured = << >> /\ torn = FALSE /\ served = 0 /\ dropped = FALSE

-----------------------------------------------------------------------------
(* The input callback: inputCapture, or asioProcess's first loop. *)

\* A block arrives; the flag is read for all of it.
BlockBegin ==
    /\ block.pc = "out"
    /\ \E frames \in BlockSizes :
        /\ clock + frames <= MaxSamples
        /\ block' = [pc |-> "sample", left |-> frames, rec |-> m_recording, n |-> 0]
    /\ UNCHANGED <<m_recording, m_recCount, m_recChunks, clock, takes, clip, captured, torn, served, dropped>>

EndSample ==
    block' = IF block.left = 1 THEN NoBlock
             ELSE [pc |-> "sample", left |-> block.left - 1, rec |-> block.rec, n |-> 0]

\* A sample of a block that is not recorded.
PassSample ==
    /\ block.pc = "sample" /\ ~block.rec
    /\ clock' = clock + 1
    /\ EndSample
    /\ UNCHANGED <<m_recording, m_recCount, m_recChunks, takes, clip, captured, torn, served, dropped>>

\* recordSample loads the count.
LoadCount ==
    /\ block.pc = "sample" /\ block.rec
    /\ clock' = clock + 1
    /\ captured' = Append(captured, clock')
    /\ block' = [block EXCEPT !.pc = "store", !.n = m_recCount]
    /\ UNCHANGED <<m_recording, m_recCount, m_recChunks, takes, clip, torn, served, dropped>>

ChunkOf(n) == n \div ChunkFrames
Ready(n) == ChunkOf(n) < MaxChunks /\ m_recChunks[ChunkOf(n)] # Null

\* (defect: a sample that finds no chunk is counted)
CountsDropped ==
    /\ block.pc = "store"
    /\ m_recChunks' = IF Ready(block.n)
                      THEN [m_recChunks EXCEPT ![ChunkOf(block.n)][block.n % ChunkFrames] = clock]
                      ELSE m_recChunks
    /\ m_recCount' = block.n + 1
    /\ EndSample
    /\ dropped' = (dropped \/ ~Ready(block.n))
    /\ UNCHANGED <<m_recording, clock, takes, clip, captured, torn, served>>

Stored(n) == [m_recChunks EXCEPT ![ChunkOf(n)][n % ChunkFrames] = clock]

\* It stores the sample and publishes the count, or drops it when there is no chunk.  In a
\* torn block the pointer may be that of a chunk freed since: what is stored reaches no
\* take, and the count is published all the same.
StoreSample ==
    /\ block.pc = "store"
    /\ \/ /\ Ready(block.n)
          /\ m_recChunks' = Stored(block.n)
          /\ m_recCount' = block.n + 1
       \/ ~Ready(block.n) /\ UNCHANGED <<m_recChunks, m_recCount>>
       \/ /\ torn /\ ChunkOf(block.n) < MaxChunks
          /\ UNCHANGED m_recChunks
          /\ m_recCount' = block.n + 1
    /\ EndSample
    /\ dropped' = (dropped \/ ~Ready(block.n))
    /\ UNCHANGED <<m_recording, clock, takes, clip, captured, torn, served>>

-----------------------------------------------------------------------------
(* The GUI thread. *)

\* ensureRecChunk for several indices.
WithChunks(chunks, indices) ==
    [k \in Chunks |-> IF k \in indices /\ chunks[k] = Null THEN Silence ELSE chunks[k]]

startRecording ==
    /\ ~m_recording /\ takes < MaxTakes
    /\ m_recChunks' = WithChunks([k \in Chunks |-> Null], {0, 1})
    /\ m_recCount' = 0
    /\ m_recording' = TRUE
    /\ takes' = takes + 1
    /\ torn' = (block.pc # "out" /\ block.rec)
    /\ captured' = << >> /\ served' = 0 /\ dropped' = FALSE
    /\ UNCHANGED <<block, clock, clip>>

\* pumpRecording, once per frame of the GUI.
pumpRecording ==
    /\ m_recording
    /\ m_recChunks' = WithChunks(m_recChunks, {ChunkOf(m_recCount) + 1, ChunkOf(m_recCount) + 2})
    /\ served' = (IF Ready(m_recCount) THEN m_recCount ELSE served)
    /\ UNCHANGED <<m_recording, m_recCount, block, clock, takes, clip, captured, torn, dropped>>

\* The take: the chunks in order, up to the count; what no chunk covers stays silent.
Copied(n) ==
    [i \in 1 .. n |-> IF \A k \in 0 .. ChunkOf(i - 1) : k < MaxChunks /\ m_recChunks[k] # Null
                      THEN m_recChunks[ChunkOf(i - 1)][(i - 1) % ChunkFrames] ELSE 0]

stopRecording ==
    /\ m_recording
    /\ m_recording' = FALSE
    /\ clip' = Copied(m_recCount)
    /\ m_recChunks' = [k \in Chunks |-> Null]
    /\ torn' = (torn \/ (block.pc # "out" /\ block.rec))
    /\ UNCHANGED <<m_recCount, block, clock, takes, captured, served, dropped>>

Next == BlockBegin \/ PassSample \/ LoadCount \/ StoreSample
        \/ startRecording \/ pumpRecording \/ stopRecording

Spec == Init /\ [][Next]_vars

-----------------------------------------------------------------------------
(* Properties. *)

\* Every variable keeps its shape; the count stays within the chunks there can be.
RecordingTypeOK ==
    /\ m_recording \in BOOLEAN /\ torn \in BOOLEAN
    /\ m_recCount \in 0 .. MaxChunks * ChunkFrames
    /\ \A k \in Chunks : m_recChunks[k] = Null
                         \/ m_recChunks[k] \in [0 .. ChunkFrames - 1 -> 0 .. MaxSamples]
    /\ block.pc \in {"out", "sample", "store"}

\* No sample is dropped for want of a chunk unless the GUI thread has not been back for
\* two whole chunks, or the recorder is full.
ChunkReadyInTime ==
    m_recording /\ ~torn /\ ChunkOf(m_recCount) < MaxChunks /\ ~Ready(m_recCount)
        => m_recCount - served >= 2 * ChunkFrames

\* A take is what its recording was handed, in order and from the first sample on, up to
\* the sample under way; a drop leaves samples out and changes no order.  The exception is
\* a block that saw the flag of an earlier recording and went on into this one.
TakeIsCaptured ==
    [][stopRecording /\ ~torn =>
          /\ \A i \in DOMAIN clip' : \E j \in DOMAIN captured : clip'[i] = captured[j]
          /\ \A i, j \in DOMAIN clip' : i < j => clip'[i] < clip'[j]
          /\ ~dropped => /\ clip' = SubSeq(captured, 1, m_recCount)
                         /\ Len(captured) <= m_recCount + 1]_vars

\* Recording and practice mode: a span of the input ring that is trusted is intact, no
\* sample is dropped before the GUI is two chunks late, and a take is what was captured
\* since it started.
InputIsKept == [](RecordingTypeOK /\ SpanIsIntact /\ ChunkReadyInTime) /\ TakeIsCaptured

\* "The chunk being written and the next two are always kept ready", says the comment in
\* pumpRecording.
CurrentChunkKept == [][pumpRecording /\ ChunkOf(m_recCount) < MaxChunks => Ready(m_recCount)']_vars
===============================================================================

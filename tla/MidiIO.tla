------------------------------- MODULE MidiIO -------------------------------
(***************************************************************************)
(* Keys on their way to the output: the driver's queue and its poll once    *)
(* per frame, soft thru, the computer keyboard, notes that end by           *)
(* themselves, and the router that sends everything to the one output in    *)
(* use (midi/RtMidiDevice, midi/MidiOutputRouter, gui/Panels.cpp).          *)
(*                                                                          *)
(* Times are left out: a note that ends by itself may end in any frame.     *)
(* What a recording makes of the same messages is NoteEditor's.             *)
(***************************************************************************)
EXTENDS Integers, SequencesExt

CONSTANTS Outputs,       \* the router's targets
          Channels, Notes,
          TypingKeys,    \* the computer's keys, numbers of semitones
          QueueSize,     \* messages that the driver's queue holds
          FrameLimit,    \* messages handled in one frame, 512 in the code
          MaxSteps

MidiIOAssumption ==
    QueueSize \in Nat \ {0} /\ FrameLimit \in Nat \ {0} /\ MaxSteps \in Nat
        /\ TypingKeys \subseteq Nat

ChannelKeys == Channels \X Notes
None == <<>>

VARIABLES
    inputOpen, queue,   \* the input port and RtMidiInput's m_queue
    pressed,            \* the keys that are down on the MIDI keyboard
    m_active, isOpen,   \* the output in use, and which outputs are open
    softThru, musicalTyping, mtOctave,
    channel,            \* the channel of the selected track
    held,               \* heldNote and heldCh: the key that each typing key has struck
    pendingOffs,        \* notes that will end by themselves
    sounding,           \* what sounds where: [at, key]
    orphans,            \* history: what was cut off from its key while it sounded
    lost,               \* history: keys whose Note Off never got into the queue
    steps

vars == <<inputOpen, queue, pressed, m_active, isOpen, softThru, musicalTyping, mtOctave,
          channel, held, pendingOffs, sounding, orphans, lost, steps>>

inVars  == <<inputOpen, queue, pressed, lost>>
outVars == <<m_active, isOpen, sounding, orphans>>
uiVars  == <<softThru, musicalTyping, mtOctave, channel, held, pendingOffs>>

Count == steps < MaxSteps /\ steps' = steps + 1

------------------------------------------------------------------------------
(* The output.                                                              *)

On(key)  == [key |-> key, on |-> TRUE]
Off(key) == [key |-> key, on |-> FALSE]

\* The keys that messages say anything about, and those they leave on: the last one decides.
Named(messages)  == {messages[i].key : i \in DOMAIN messages}
LeftOn(messages) ==
    {messages[i].key : i \in {j \in DOMAIN messages :
        messages[j].on /\ \A k \in DOMAIN messages : k > j => messages[k].key # messages[j].key}}

\* A handler sends the output in use messages that name some keys and leave some of those
\* on; a closed port takes none.
At(o, keys) == {[at |-> o, key |-> key] : key \in keys}
Send(named, on, open) ==
    IF open THEN /\ sounding' = (sounding \ At(m_active, named)) \cup At(m_active, on)
                 /\ orphans' = orphans \ At(m_active, named)
    ELSE UNCHANGED <<sounding, orphans>>

\* Who will still send a Note Off for a key.
Typed       == {held[k] : k \in {j \in TypingKeys : held[j] # None}}
OnScreen    == Typed \cup ToSet(pendingOffs)
Sounds(at)  == {x \in sounding : x.at = at}
Abandon(xs) == orphans' = orphans \cup xs

\* The radio buttons of the device window; the player is stopped first.
SwitchTarget(o) ==
    /\ o # m_active /\ Count /\ m_active' = o
    /\ Abandon(Sounds(m_active))
    /\ UNCHANGED <<isOpen, sounding, inVars, uiVars>>

OpenOrClose ==
    /\ Count /\ isOpen' = [isOpen EXCEPT ![m_active] = ~@]
    /\ Abandon(IF isOpen[m_active] THEN Sounds(m_active) ELSE {})
    /\ UNCHANGED <<m_active, sounding, inVars, uiVars>>

------------------------------------------------------------------------------
(* The MIDI keyboard.                                                       *)

\* rtCallback parses the bytes, where a Note On of velocity 0 is a Note Off, and never
\* waits: what finds no room is counted and gone.
Parsed(key, status, velocity) == IF status = "on" /\ velocity > 0 THEN On(key) ELSE Off(key)

rtCallback(message) ==
    LET room == inputOpen /\ Len(queue) < QueueSize
    IN  /\ queue' = IF room THEN Append(queue, message) ELSE queue
        /\ lost' = CASE room /\ message.on -> lost \ {message.key}
                     [] ~room /\ ~message.on -> lost \cup {message.key}
                     [] OTHER -> lost
        /\ UNCHANGED <<inputOpen, outVars, uiVars>>

Press(key) ==
    /\ key \notin pressed /\ Count /\ pressed' = pressed \cup {key}
    /\ rtCallback(Parsed(key, "on", 1))

\* Keyboards send either form.
Release(key) ==
    /\ key \in pressed /\ pressed' = pressed \ {key} /\ UNCHANGED steps
    /\ \E form \in {"on", "off"} : rtCallback(Parsed(key, form, 0))

\* Closing the port leaves the queue as it is.
OpenOrCloseInput ==
    /\ Count /\ inputOpen' = ~inputOpen
    /\ UNCHANGED <<queue, pressed, lost, outVars, uiVars>>

\* pumpMonitor: the message polled beyond the limit is gone too.
pumpMonitor ==
    LET some   == SubSeq(queue, 1, IF Len(queue) < FrameLimit THEN Len(queue) ELSE FrameLimit)
        beyond == {queue[i].key : i \in {j \in DOMAIN queue : j = FrameLimit + 1 /\ ~queue[j].on}}
    IN  /\ queue # <<>>
        /\ queue' = SubSeq(queue, FrameLimit + 2, Len(queue))
        /\ lost' = lost \cup beyond
        /\ Send(Named(some), LeftOn(some), softThru /\ isOpen[m_active])
        /\ UNCHANGED <<inputOpen, pressed, m_active, isOpen, uiVars, steps>>

\* The box in the device window: what only the MIDI keyboard has struck hangs.
ToggleThru ==
    /\ Count /\ softThru' = ~softThru
    /\ Abandon(IF softThru THEN {x \in Sounds(m_active) : x.key \notin OnScreen} ELSE {})
    /\ UNCHANGED <<m_active, isOpen, sounding, musicalTyping, mtOctave, channel, held,
                   pendingOffs, inVars>>

------------------------------------------------------------------------------
(* The computer keyboard.                                                   *)

NoteOf(k) == mtOctave * 12 + k

\* updateMusicalTyping: a key strikes on the selected track's channel, and opens the output
\* if it is closed, which may fail.
Type(k) ==
    LET key == <<channel, NoteOf(k)>>
    IN  /\ musicalTyping /\ held[k] = None /\ NoteOf(k) \in Notes /\ Count
        /\ held' = [held EXCEPT ![k] = key]
        /\ \E open \in {TRUE, isOpen[m_active]} :
             isOpen' = [isOpen EXCEPT ![m_active] = open] /\ Send({key}, {key}, open)
        /\ UNCHANGED <<m_active, softThru, musicalTyping, mtOctave, channel, pendingOffs, inVars>>

\* Letting go, or switching the keyboard off, ends what the key has struck, whatever the
\* octave and the track are by now.
\* (defect: the Note Off goes to the selected track's channel)
OffsToTrack(ks) == {<<channel, held[k][2]>> : k \in {j \in ks : held[j] # None}}

Offs(ks) == {held[k] : k \in {j \in ks : held[j] # None}}

LetGo(ks) ==
    /\ held' = [k \in TypingKeys |-> IF k \in ks THEN None ELSE held[k]]
    /\ Send(Offs(ks), {}, isOpen[m_active])
    /\ UNCHANGED <<m_active, isOpen, softThru, mtOctave, channel, pendingOffs, inVars>>

ReleaseTyped(k) == held[k] # None /\ LetGo({k}) /\ UNCHANGED <<musicalTyping, steps>>
TypingOff == musicalTyping /\ Count /\ musicalTyping' = FALSE /\ LetGo(TypingKeys)

Untouched == UNCHANGED <<softThru, held, pendingOffs, inVars, outVars>>
TypingOn  == ~musicalTyping /\ Count /\ musicalTyping' = TRUE
             /\ UNCHANGED <<mtOctave, channel>> /\ Untouched
ChangeOctave == /\ musicalTyping /\ Count /\ mtOctave' = 1 - mtOctave
                /\ UNCHANGED <<musicalTyping, channel>> /\ Untouched
SelectTrack(c) == /\ c # channel /\ Count /\ channel' = c
                  /\ UNCHANGED <<musicalTyping, mtOctave>> /\ Untouched

------------------------------------------------------------------------------
(* Notes that end by themselves.                                            *)

\* triggerNote: the buttons, the drum grid and the piano roll let a note be heard.
triggerNote(key) ==
    /\ Len(pendingOffs) < 2 /\ Count
    /\ pendingOffs' = Append(pendingOffs, key)
    /\ \E open \in {TRUE, isOpen[m_active]} :
         isOpen' = [isOpen EXCEPT ![m_active] = open] /\ Send({key}, {key}, open)
    /\ UNCHANGED <<m_active, softThru, musicalTyping, mtOctave, channel, held, inVars>>

\* updatePendingNotes: the ones that are due, to the output in use by now.
updatePendingNotes ==
    \E i \in DOMAIN pendingOffs :
        /\ pendingOffs' = RemoveAt(pendingOffs, i)
        /\ Send({pendingOffs[i]}, {}, isOpen[m_active])
        /\ UNCHANGED <<m_active, isOpen, softThru, musicalTyping, mtOctave, channel, held,
                       inVars, steps>>

------------------------------------------------------------------------------

Init ==
    /\ inputOpen \in BOOLEAN /\ queue = <<>> /\ pressed = {} /\ lost = {}
    /\ m_active \in Outputs /\ isOpen \in [Outputs -> BOOLEAN] /\ musicalTyping \in BOOLEAN
    /\ softThru = TRUE /\ mtOctave = 0 /\ channel \in Channels
    /\ held = [k \in TypingKeys |-> None] /\ pendingOffs = <<>>
    /\ sounding = {} /\ orphans = {} /\ steps = 0

Next ==
    \/ \E o \in Outputs : SwitchTarget(o)
    \/ OpenOrClose \/ OpenOrCloseInput \/ ToggleThru
    \/ \E key \in ChannelKeys : Press(key) \/ Release(key) \/ triggerNote(key)
    \/ pumpMonitor \/ updatePendingNotes
    \/ \E k \in TypingKeys : Type(k) \/ ReleaseTyped(k)
    \/ TypingOff \/ TypingOn \/ ChangeOctave
    \/ \E c \in Channels : SelectTrack(c)

Spec == Init /\ [][Next]_vars

------------------------------------------------------------------------------
(* Properties *)

OffsUnderWay == {queue[i].key : i \in {j \in DOMAIN queue : ~queue[j].on}}

\* Whatever sounds has someone who will end it: a key that is down, a Note Off in the
\* queue, a typing key or a note that ends by itself; through octave and track changes
\* while keys are held, late polls and reopened ports.  Only what was cut off from its
\* key hangs: by another output, a closed port or thru while it sounded, or a Note Off
\* that was dropped.
KeysAreReleased ==
    \A x \in sounding \ orphans :
        /\ x.at = m_active
        /\ x.key \in pressed \cup OffsUnderWay \cup OnScreen \cup lost
==============================================================================

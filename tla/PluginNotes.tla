------------------------------ MODULE PluginNotes ------------------------------
(***************************************************************************)
(* Where a note goes, and how it ends.  For every event it pops,           *)
(* renderBlock looks up who plays the channel at that moment: the track's  *)
(* own instrument, else the global one, else the synthesizer; metronome    *)
(* clicks and drum samples are one-shots of the engine.  A plug-in gets    *)
(* its events at the end of the block, from a list of limited size, and a  *)
(* track that is frozen is not processed, so its list waits.  Vst3Host     *)
(* remembers which notes it has started in activeNote, and only those are  *)
(* ended when playback stops or jumps.                                     *)
(***************************************************************************)
EXTENDS Naturals, SequencesExt

CONSTANTS Buses, DrumChannel,  \* channels, each with a bus and perhaps an instrument
          Keys,
          OneShots,            \* keys of the drum channel with a click or a drum sample
          ListSize             \* the capacity of a plug-in's event list

Global == "global"
Synth == "synth"

PluginNotesAssumption ==
    OneShots \subseteq Keys /\ ListSize \in Nat /\ Buses \cap {Global, Synth} = {}

Hosts == Buses \cup {Global}

VARIABLES
    loaded,      \* loaded[h]: m_trackInst[h] or m_instrument has a plug-in
    eventList,   \* eventList[h]: what it gets with the next block
    activeNote,  \* activeNote[h]: the notes the host believes to be on
    m_busFrozen,
    playing,     \* playing[h]: external, the notes the plug-in plays
    synthNotes,  \* the keys held in the synthesizer
    inBlock,     \* renderBlock has popped an event and not yet processed the plug-ins
    pressed,     \* history: keys whose last event was a Note On
    moved,       \* history: keys whose channel changed hands while they were down
    refused,     \* history: plug-ins whose full list has lost an event
    quiet        \* history: no Note On since the last all-notes-off

vars == <<loaded, eventList, activeNote, m_busFrozen, playing, synthNotes, inBlock,
          pressed, moved, refused, quiet>>

Notes == Buses \X Keys
Event == [type : {"on", "off"}, note : Notes]

Init == /\ loaded = [h \in Hosts |-> FALSE]
        /\ eventList = [h \in Hosts |-> << >>]
        /\ activeNote = [h \in Hosts |-> {}]
        /\ m_busFrozen = [b \in Buses |-> FALSE]
        /\ playing = [h \in Hosts |-> {}]
        /\ synthNotes = {} /\ inBlock = FALSE
        /\ pressed = {} /\ moved = {} /\ refused = {} /\ quiet = TRUE

-----------------------------------------------------------------------------
(* Vst3Host. *)

\* The notes that a list says anything about, and those it leaves on: the last event of a
\* note decides.
Named(list)  == {list[i].note : i \in DOMAIN list}
LeftOn(list) == {list[i].note : i \in {j \in DOMAIN list :
                    list[j].type = "on" /\ \A k \in DOMAIN list : k > j => list[k].note # list[j].note}}

\* What the plug-in plays once it has the events of a list.
Play(notes, list) == (notes \ Named(list)) \cup LeftOn(list)

\* EventList::addEvent refuses what does not fit.
Accepted(s) == SubSeq(s, 1, IF Len(s) <= ListSize THEN Len(s) ELSE ListSize)

Fits(h, events) == Len(eventList[h]) + Len(events) <= ListSize

\* addNoteOn and addNoteOff: the table changes whether or not the list had room.
addNote(h, type, n) ==
    LET e == << [type |-> type, note |-> n] >>
    IN  /\ eventList' = [eventList EXCEPT ![h] = Accepted(@ \o e)]
        /\ activeNote' = [activeNote EXCEPT ![h] = IF type = "on" THEN @ \cup {n} ELSE @ \ {n}]
        /\ refused' = IF Fits(h, e) THEN refused ELSE refused \cup {h}

\* addAllNotesOff: a Note Off for every note in the table.
NoteOffs(h) == LET notes == SetToSeq(activeNote[h])
               IN  [i \in DOMAIN notes |-> [type |-> "off", note |-> notes[i]]]

-----------------------------------------------------------------------------
(* renderBlock, event by event. *)

\* Who plays a channel when the slots that l says are filled.
Player(l, c) == IF l[c] THEN c ELSE IF l[Global] THEN Global ELSE Synth
Route(c) == Player(loaded, c)

IsOneShot(n) == n[1] = DrumChannel /\ n[2] \in OneShots

NoteOn(n) ==
    /\ inBlock' = TRUE
    /\ pressed' = pressed \cup {n}
    /\ quiet' = FALSE
    /\ IF IsOneShot(n) THEN UNCHANGED <<eventList, activeNote, synthNotes, refused>>
       ELSE IF Route(n[1]) = Synth
       THEN synthNotes' = synthNotes \cup {n} /\ UNCHANGED <<eventList, activeNote, refused>>
       ELSE addNote(Route(n[1]), "on", n) /\ UNCHANGED synthNotes
    /\ UNCHANGED <<loaded, m_busFrozen, playing, moved>>

\* (defect: a Note Off always goes to the synthesizer as well, never to the plug-in)
NoteOffToSynth(n) ==
    /\ inBlock' = TRUE
    /\ pressed' = pressed \ {n}
    /\ synthNotes' = synthNotes \ {n}
    /\ UNCHANGED <<loaded, eventList, activeNote, refused, m_busFrozen, playing, moved, quiet>>

\* A Note Off goes where the channel plays now, one-shots included.
NoteOff(n) ==
    /\ inBlock' = TRUE
    /\ pressed' = pressed \ {n}
    /\ IF Route(n[1]) = Synth
       THEN synthNotes' = synthNotes \ {n} /\ UNCHANGED <<eventList, activeNote, refused>>
       ELSE addNote(Route(n[1]), "off", n) /\ UNCHANGED synthNotes
    /\ UNCHANGED <<loaded, m_busFrozen, playing, moved, quiet>>

\* AllNotesOff and AllSoundOff: the synthesizer and every instrument that is loaded.
AllNotesOff ==
    /\ inBlock' = TRUE
    /\ eventList' = [h \in Hosts |->
           IF loaded[h] THEN Accepted(eventList[h] \o NoteOffs(h)) ELSE eventList[h]]
    /\ refused' = refused \cup {h \in Hosts : loaded[h] /\ ~Fits(h, NoteOffs(h))}
    /\ activeNote' = [h \in Hosts |-> IF loaded[h] THEN {} ELSE activeNote[h]]
    /\ synthNotes' = {} /\ pressed' = {} /\ moved' = {} /\ quiet' = TRUE
    /\ UNCHANGED <<loaded, m_busFrozen, playing>>

\* The end of the block: every instrument but a frozen track's plays its list.
Process ==
    LET played == {h \in Hosts : loaded[h] /\ (h = Global \/ ~m_busFrozen[h])}
    IN  /\ playing' = [h \in Hosts |-> IF h \in played THEN Play(playing[h], eventList[h])
                                       ELSE playing[h]]
        /\ eventList' = [h \in Hosts |-> IF h \in played THEN << >> ELSE eventList[h]]
        /\ inBlock' = FALSE
        /\ UNCHANGED <<loaded, activeNote, m_busFrozen, synthNotes, pressed, moved, refused, quiet>>

-----------------------------------------------------------------------------
(* The GUI thread. *)

\* applyTransportState, from the tracks' frozen flags.
SetFrozen(b) ==
    /\ m_busFrozen' = [m_busFrozen EXCEPT ![b] = ~@]
    /\ UNCHANGED <<loaded, eventList, activeNote, playing, synthNotes, inBlock, pressed, moved,
                   refused, quiet>>

\* With the streams stopped, a slot is emptied and perhaps filled; Synth::prepare follows
\* when they start again.  A track's slot gets a new host; the global host is one object
\* that keeps its list and its table.
ChangePlugin(h, now) ==
    /\ ~inBlock
    /\ loaded' = [loaded EXCEPT ![h] = now]
    /\ playing' = [playing EXCEPT ![h] = {}]
    /\ IF h = Global THEN UNCHANGED <<eventList, activeNote, refused>>
       ELSE /\ eventList' = [eventList EXCEPT ![h] = << >>]
            /\ activeNote' = [activeNote EXCEPT ![h] = {}]
            /\ refused' = refused \ {h}
    /\ synthNotes' = {}
    /\ moved' = moved \cup {n \in pressed : \/ Player(loaded', n[1]) # Route(n[1])
                                            \/ Route(n[1]) = h}
    /\ UNCHANGED <<m_busFrozen, inBlock, pressed, quiet>>

\* loadInstrument and loadTrackInstrument succeed, or leave the slot empty.
Load(h) == ChangePlugin(h, TRUE) \/ ChangePlugin(h, FALSE)

\* clearInstrument and clearTrackInstrument.
Clear(h) == loaded[h] /\ ChangePlugin(h, FALSE)

Next == \/ \E n \in Notes : NoteOn(n) \/ NoteOff(n)
        \/ AllNotesOff \/ Process
        \/ \E b \in Buses : SetFrozen(b)
        \/ \E h \in Hosts : Load(h) \/ Clear(h)

Spec == Init /\ [][Next]_vars

-----------------------------------------------------------------------------
(* Properties. *)

\* Every variable keeps its shape.
PluginNotesTypeOK ==
    /\ loaded \in [Hosts -> BOOLEAN] /\ m_busFrozen \in [Buses -> BOOLEAN]
    /\ eventList \in [Hosts -> Seq(Event)] /\ \A h \in Hosts : Len(eventList[h]) <= ListSize
    /\ activeNote \in [Hosts -> SUBSET Notes] /\ playing \in [Hosts -> SUBSET Notes]
    /\ synthNotes \subseteq Notes /\ inBlock \in BOOLEAN

\* What the plug-in will play once it has its list.
Coming(h) == Play(playing[h], eventList[h])

\* A note that sounds in a plug-in, or is about to, is in the table that all-notes-off
\* reads, unless a full list lost one of the plug-in's events.
PlayingIsActive ==
    \A h \in Hosts : loaded[h] /\ h \notin refused => Coming(h) \subseteq activeNote[h]

\* After all-notes-off, and until the next Note On, nothing sounds anywhere or waits in a
\* frozen track to sound later, unless a full list lost an event.
QuietAfterAllNotesOff ==
    quiet => /\ synthNotes = {}
             /\ \A h \in Hosts : loaded[h] /\ h \notin refused => Coming(h) = {}

\* A key that is up is heard nowhere, unless its channel changed hands while it was down.
KeyUpIsSilent ==
    \A n \in Notes \ (pressed \cup moved) :
        /\ n \notin synthNotes
        /\ \A h \in Hosts : loaded[h] /\ h \notin refused => n \notin Coming(h)
===============================================================================

------------------------------ MODULE MCEditor -------------------------------
(***************************************************************************)
(* Editing the notes of a track, arranging tracks and clips, and importing  *)
(* scores for practising, checked side by side: a behaviour chooses one of  *)
(* the three.                                                              *)
(***************************************************************************)
EXTENDS Arranger

CONSTANTS
    Pitches, Ticks, Velocities, InitialTracks, Ppqn, NoteLen, Grids, Percents,
    MaxEvents, MaxClips, MaxNoteSteps,                                \* NoteEditor
    InitialSongs, Scores, Tabs, ScorePlaces, HandNotes, ScorePpqn,
    MaxScoreTracks, MaxScoreSteps                                     \* TabImport

VARIABLES part,
          tracks, selectedTrack, selectedNotes, selectedClip, noteClipboard, mouse, last,
          recording, openRec, playPos, noteHistory, noteVersions, shown, noteSteps, rest,
          broken,
          practised, meter, practiceTrack, tabTracks, head, box, lastImport, undone, clicks,
          imported

\* Two pitches, six ticks, beats of two: a note can be quantised, dragged or carried by a
\* clip onto another note; two notes start at one place, and all three under a clip.
Three == SortEvents(AddNote(AddNote(AddNote(EmptyTrack, 0, 2, 0, 100), 1, 2, 0, 64), 0, 1, 0, 64))
Under(t, end) == [t EXCEPT !.clips = <<AdoptMembers(t, [start |-> 0, end |-> end, members |-> {}])>>]

\* One tick is a frame, clips are four frames long; two tracks, one with a note under a
\* MIDI clip, one with two clips that overlap.
Noted == Under(SortEvents(AddNote(EmptyTrack, 1, 2, 0, 64)), 4)
StartSong ==
    [tracks  |-> <<[NewTrack(1, 0) EXCEPT !.events = Noted.events, !.clips = Noted.clips,
                                          !.stamp = Noted.stamp],
                   [NewTrack(2, 1) EXCEPT !.audio = <<1, 2>>]>>,
     heap    |-> <<NewClip(<<1, 2, 3, 4>>, 1),
                   [NewClip(<<10, 20, 30, 40, 50>>, 3) EXCEPT !.trimLen = 4, !.fadeOut = 1]>>,
     tempo   |-> <<[tick |-> 2]>>,
     markers |-> <<[tick |-> 0, name |-> 1]>>]
StartSongs == {StartSong}
StartTracks == {Under(Three, 2)}

N == INSTANCE NoteEditor WITH MaxSteps <- MaxNoteSteps, clipboard <- noteClipboard,
         history <- noteHistory, versions <- noteVersions, steps <- noteSteps

\* Two systems, with frets of two digits beside such of one, and a score of two parts; a song
\* that the score was never in, and one whose parts have changed places.
Tab  == <<[columns |-> <<{<<1, 0>>, <<2, 12>>}, {}, {<<6, 24>>}, {}>>, bars |-> {2, 4}],
          [columns |-> <<{<<4, 10>>}, {<<3, 5>>}, {}, {}>>, bars |-> {}]>>
Sung(tick, dur, note, str, artic) ==
    [tick |-> tick, note |-> note, dur |-> dur, str |-> str, vel |-> 90, artic |-> artic]
Duo  == [key |-> "duo", meter |-> 1, tempo |-> 90, rhythm |-> TRUE,
         parts |-> <<[tab |-> Tab, notes |-> <<Sung(0, 4, 64, 1, 100), Sung(4, 2, 59, 2, 25),
                                               Sung(4, 2, 40, -1, 25)>>],
                     [tab |-> Tab, notes |-> <<Sung(0, 8, 40, 5, 30)>>]>>]
Solo == [key |-> "solo", meter |-> -1, tempo |-> 0, rhythm |-> TRUE,
         parts |-> <<[tab |-> Tab, notes |-> <<Sung(2, 4, 59, 3, 75)>>]>>]
Ordinary   == [events |-> <<>>, clips |-> <<>>, stamp |-> 0, practice |-> FALSE, key |-> "",
               part |-> 0, hints |-> <<>>]
ForPart(p) == [Ordinary EXCEPT !.practice = TRUE, !.key = IF p = 0 THEN "" ELSE "duo", !.part = p]
ScoreSongs  == {<<Ordinary, ForPart(0)>>, <<Ordinary, ForPart(2), ForPart(1)>>}
TwoScores   == {Duo, Solo}
Texts       == {Tab, <<>>}
StrayNotes  == {[tick |-> 1, dur |-> 6, note |-> 59, vel |-> 64]}

I == INSTANCE TabImport WITH
         Places <- ScorePlaces, Ppqn <- ScorePpqn, MaxTracks <- MaxScoreTracks,
         MaxSteps <- MaxScoreSteps, song <- practised, playPos <- head, last <- lastImport,
         history <- undone, steps <- clicks

ASSUME InstancesAreFit ==
    N!NoteEditorAssumption /\ N!UndoHistoryAssumption /\ I!TabImportAssumption

nVars == <<tracks, selectedTrack, selectedNotes, selectedClip, noteClipboard, mouse, last,
           recording, openRec, playPos, noteHistory, noteVersions, shown, noteSteps, rest,
           broken>>
iVars == <<practised, meter, practiceTrack, tabTracks, head, box, lastImport, undone, clicks,
           imported>>

EditorInit ==
    /\ part \in {"notes", "arranging", "importing"}
    /\ N!Init /\ Init /\ I!Init
    \* The part that does not run is in one state of its choice.
    /\ part # "importing" => Len(practised.tracks) = 2

EditorNext ==
    \/ part = "notes" /\ N!Next /\ UNCHANGED <<part, vars, iVars>>
    \/ part = "arranging" /\ Next /\ UNCHANGED <<part, nVars, iVars>>
    \/ part = "importing" /\ I!Next /\ UNCHANGED <<part, nVars, vars>>

EditorSpec == EditorInit /\ [][EditorNext]_<<part, nVars, vars, iVars>>

------------------------------------------------------------------------------

\* Notes: every Note On of a track has its own Note Off.
NotesArePaired == N!NotesArePaired
\* Notes: an edit moves or removes just the notes it names.  Importing: a score's notes come
\* into its tracks, on its strings, in the place of what was imported before and of nothing
\* else, and a score that comes in again finds its tracks.
EditsArePointwise ==
    /\ N!EditsArePointwise
    /\ [](part = "importing" => /\ I!ScoreIsInItsTracks /\ I!ImportedStringsShow
                                /\ I!PartsHaveOneTrack /\ I!RestIsKept)
\* Notes: one undo takes back a whole gesture of the mouse.  Importing: and an import.
UndoTakesBackTheGesture == N!UndoTakesBackTheGesture /\ I!UndoTakesBackTheImport

\* Notes: the comment that the notes drawn are the track's as long as its stamp is the same.
ShownNotesAreTheTracks == part = "notes" => N!ShownNotesAreTheTracks
\* Importing: the manual says that the parts of a score come into a track each.
PartsStayApart == part = "importing" => I!PartsStayApart
==============================================================================

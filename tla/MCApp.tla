-------------------------------- MODULE MCApp --------------------------------
(***************************************************************************)
(* The parts of the application around the engine, checked side by side in *)
(* the way of MCEngine: a behaviour chooses one of them at its start and    *)
(* takes only that part's steps.                                            *)
(***************************************************************************)
EXTENDS Integers, Sequences, TLC

\* The parts of a run, and the constants of the metronome, the transport, the plug-ins, the
\* session and the practice mode; the other parts have theirs below.
CONSTANTS
    Parts,
    Metronomes, ClickStarts, ClickCountIns, ClickLoops, Ppqn, Steps, MaxClickTick,  \* Player
    MaxTick, Jump, Spots, SongLoops, CountIns, SongBar, MaxTakes, MaxCommands,         \* Transport
    Effects, Instruments, Eq, Channels, MaxTracks, MaxPlugins, MaxChainEdits,       \* PluginChains
    SongFile, Sounds, MaxClips, MaxVersions, MaxWorkEdits, MaxFaults,               \* Session
    Scores, Edits, LaneBar, Starts, Frames, Patience, Times, Offsets, Bars, CountIn, Beats,
    Enough, MaxFrames, MaxClicks                                                    \* Practice

VARIABLES part,
          gpc, region, pc, m_snapshot, m_keepAlive, m_playing, m_stopRequested,
          m_countingIn, m_currentTick, m_loopStart, m_loopEnd, m_loopEnabled,
          m_loopPreRoll, metro, pos, preRollEnd, index, loopStart, loopEnd, looping,
          click, sounding, clicking, program, lap,
          t, seen, commands,
          tracks, chain, inst, undo, file, usable, shown, parted, opened, before, changes,
          work, heap, projectPath, m_lastAutosaveText, disk, lock, saving, read, whole,
          edits, faults,
          pads, chosen, picked, sig, head, mouse, copies, strokes, rest, broken, filled,
          sounds, listed, kits, shelf, projects, choices,
          neck, ed, focused, past, plucks, former, told,
          score, practised, player, judge, calibration, frames, clicks, pass

P == INSTANCE Player WITH Songs <- {<<>>}, Notes <- {}, Programs <- {},
         Starts <- ClickStarts, PreRolls <- ClickCountIns, KeepAlives <- {TRUE},
         Loops <- ClickLoops, Metros <- Metronomes, MaxTick <- MaxClickTick
T == INSTANCE Transport WITH Loops <- SongLoops, BarTicks <- SongBar
C == INSTANCE PluginChains WITH MaxEdits <- MaxChainEdits, edits <- changes
S == INSTANCE Session WITH Project <- SongFile, MaxEdits <- MaxWorkEdits
E == INSTANCE Track

\* Three notes on two rows, off and on the grid, and a clip over two of them; a song with
\* a melody before the drums.
Melody == [channel |-> 0, practice |-> FALSE, events |-> <<>>, clips |-> <<>>, stamp |-> 0]
Hits   == E!SortEvents(E!AddNote(E!AddNote(E!AddNote(Melody, 0, 1, 36, 100), 3, 3, 36, 64), 2, 1, 38, 64))
Drum   == [Hits EXCEPT !.channel = 9,
               !.clips = <<E!AdoptMembers(Hits, [start |-> 2, end |-> 12, members |-> {}])>>]
D == INSTANCE Drums WITH Songs <- {<<Drum>>, <<Melody, Drum>>}, Rows <- <<38, 36>>, Places <- {0, 3},
         Ppqn <- 4, Grid <- 2, Meters <- {-1, 1, 2}, Styles <- {0, 2}, Delays <- {1}, MaxBars <- 1,
         MaxTracks <- 2, MaxSteps <- 4, MaxEvents <- 10, MaxDepth <- 4,
         tracks <- pads, selectedTrack <- chosen, selectedNotes <- picked, playPos <- head,
         history <- copies, steps <- strokes

\* Two files of one name in two folders, and one beside the program.
Place(dir) == [dir |-> dir, of |-> "kick", marks |-> <<>>]
A == INSTANCE DrumSamples WITH Notes <- {36, 38}, Files <- (Place("home") :> 1) @@ (Place("stick") :> 2),
         Library <- Place("program") :> 3, MaxSteps <- 7,
         engine <- sounds, drumSamplePaths <- listed, disk <- shelf, steps <- choices

\* Two neighbouring notes, and one that no string can play; the first has a hint.
Notes  == [events |-> <<>>, clips |-> <<>>, stamp |-> 0, tuning |-> <<40, 45, 50, 55, 59, 64>>,
           hints |-> <<0, 63>> :> 1]
Guitar == E!AddNote(E!AddNote(E!AddNote(Notes, 0, 2, 63, 100), 0, 2, 64, 64), 2, 2, 30, 64)
G == INSTANCE StringEditor WITH InitialTracks <- {Guitar}, Rows <- {0, 1}, Places <- {0, 3},
         Digits <- {1, 5}, NoteLen <- 2, MaxEvents <- 8, MaxSteps <- 4, MaxDepth <- 4,
         track <- neck, history <- past, steps <- plucks, before <- former

J == INSTANCE Practice WITH Bar <- LaneBar, track <- practised, eng <- judge, cal <- calibration

\* The metronome is switched to clicks in the count-in only, or to a bar of eighths.
Metro(only, unit) ==
    [on |-> TRUE, countInOnly |-> only, signature |-> [beats |-> 2, unit |-> unit],
     loud |-> [c \in BOOLEAN |-> TRUE]]
MCMetronomes == {Metro(FALSE, 4), Metro(TRUE, 4), Metro(FALSE, 8)}
MCClickLoops == {<<0, 9>>}
MCSongLoops  == {<<0, 4>>, <<2, 6>>}

\* Two chords and three single notes in the first of two bars, or two notes; frames in time
\* and too late.
Beat(tick, note) == [tick |-> tick, note |-> note]
Chords   == <<Beat(0, 40), Beat(480, 40), Beat(480, 47), Beat(960, 52), Beat(1440, 45)>>
Short    == <<Beat(0, 40), Beat(480, 45)>>
Moved    == <<Beat(0, 40), Beat(480, 45), Beat(960, 47), Beat(960, 52), Beat(1440, 45)>>
MCScores == <<Chords, Short>>
MCEdits  == {Moved}
MCOneBar == <<Chords>>

ASSUME InstancesAreFit ==
    /\ P!SongsAssumption /\ P!TimesAssumption /\ P!MetronomeAssumption
    /\ J!PracticeAssumption /\ T!TransportAssumption /\ C!PluginChainsAssumption /\ S!SessionAssumption
    /\ D!DrumsAssumption /\ A!DrumSamplesAssumption /\ G!StringEditorAssumption

pVars == <<gpc, region, pc, m_snapshot, m_keepAlive, m_playing, m_stopRequested,
           m_countingIn, m_currentTick, m_loopStart, m_loopEnd, m_loopEnabled,
           m_loopPreRoll, metro, pos, preRollEnd, index, loopStart, loopEnd, looping,
           click, sounding, clicking, program, lap>>
tVars == <<t, seen, commands>>
cVars == <<tracks, chain, inst, undo, file, usable, shown, parted, opened, before, changes>>
sVars == <<work, heap, projectPath, m_lastAutosaveText, disk, lock, saving, read, whole,
           edits, faults>>
dVars == <<pads, chosen, picked, sig, head, mouse, copies, strokes, rest, broken, filled>>
aVars == <<sounds, listed, kits, shelf, projects, choices>>
gVars == <<neck, ed, focused, past, plucks, former, told>>
jVars == <<score, practised, player, judge, calibration, frames, clicks, pass>>

Init ==
    /\ part \in Parts
    /\ P!Init /\ T!Init /\ C!ChainsInit /\ S!Init /\ D!Init /\ A!Init /\ G!Init /\ J!Init
    \* Each part that does not run is in one state of its choice.
    /\ part # "metronome" => metro = CHOOSE m \in Metronomes : TRUE
    /\ part # "drums" => pads = <<Drum>> /\ sig = 0

Next ==
    \/ part = "metronome" /\ P!Next /\ UNCHANGED <<part, tVars, cVars, sVars, dVars, aVars, gVars, jVars>>
    \/ part = "transport" /\ T!Next /\ UNCHANGED <<part, pVars, cVars, sVars, dVars, aVars, gVars, jVars>>
    \/ part = "chains" /\ C!ChainsNext /\ UNCHANGED <<part, pVars, tVars, sVars, dVars, aVars, gVars, jVars>>
    \/ part = "session" /\ S!Next /\ UNCHANGED <<part, pVars, tVars, cVars, dVars, aVars, gVars, jVars>>
    \/ part = "drums" /\ D!Next /\ UNCHANGED <<part, pVars, tVars, cVars, sVars, aVars, gVars, jVars>>
    \/ part = "samples" /\ A!Next /\ UNCHANGED <<part, pVars, tVars, cVars, sVars, dVars, gVars, jVars>>
    \/ part = "strings" /\ G!Next /\ UNCHANGED <<part, pVars, tVars, cVars, sVars, dVars, aVars, jVars>>
    \/ part = "practice" /\ J!Next /\ UNCHANGED <<part, pVars, tVars, cVars, sVars, dVars, aVars, gVars>>

Spec == Init /\ [][Next]_<<part, pVars, tVars, cVars, sVars, dVars, aVars, gVars, jVars>>

------------------------------------------------------------------------------

\* Metronome and transport: the clicks of a count-in are struck, and each has its Note Off
\* near; after a frame the clips run where the player is, and a take lies where its first
\* sample was played.
SoundFollowsThePlayer ==
    /\ part = "metronome" => P!ClicksAreHeard
    /\ part = "transport" => /\ T!TransportTypeOK /\ T!ClipsFollowThePlayer
                             /\ T!UndisturbedTakesLieRight

\* Plug-ins: what runs on a channel is what the song lists for it, and a project whose
\* plug-ins all load sounds as it did when it was saved.
PluginsFollowTheSong == [](part = "chains" => C!ListsMatchChains) /\ C!PatchesComeBack

\* Session: a file whose last save was finished gives back the whole work.
WorkIsKept == part = "session" => S!WorkIsKept

\* Drums: a gesture is one undo, a note that is carried lands alone in its cell, a filled bar
\* holds its pattern; and a drum has a sample exactly if the song lists one, which a package
\* gives back.
DrumsPlayAsDrawn ==
    /\ D!UndoTakesBackTheStroke
    /\ [](/\ part = "drums" => D!CarriedNoteIsAlone /\ D!PatternFillsItsBars
          /\ part = "samples" => A!ListedDrumsHaveSamples /\ A!SamplesComeBack)

\* Strings: an edit moves its note and no other, on the string it was made on, with one undo,
\* and the place a note is drawn at sounds it.
StringsPlayWhatIsDrawn ==
    /\ [](part = "strings" => G!NotesStayOnTheirStrings) /\ G!KeysKeepTheNote /\ G!OneUndoPerEdit
    /\ G!StringsSoundTheirNotes

\* Practice: the counters are those of the lane, an event that passed in time is judged, and
\* once; a calibration's clicks are on the beat and only a whole one moves the offset.
PractisingIsJudged ==
    /\ [](part = "practice" => /\ J!ScoreIsTheLane /\ J!EventsAreJudgedOnce
                               /\ J!PassedEventsAreJudged /\ J!MeasurementsAreWhole)
    /\ J!OffsetsAreMeasured

\* Practice: the manual's words that each round of a loop is judged anew.
LoopsAreJudgedAgain == part = "practice" => J!LoopsAreJudgedAgain

\* Plug-ins: the comment that a changed order can be undone.
ReorderIsUndone == C!ReorderIsUndone
==============================================================================

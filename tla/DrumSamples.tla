----------------------------- MODULE DrumSamples -----------------------------
(***************************************************************************)
(* The samples of the drums: gui/PanelsDrums.cpp, the lines of them in a    *)
(* project file (project/Project.cpp) and in a package (gui/App.cpp).       *)
(*                                                                         *)
(* A drum's sound is in the engine, what the song lists for it is a path.   *)
(* A path is absolute, or relative: to the program's folder when it comes   *)
(* from the library beside the program, to the project's when it comes from *)
(* a package; reading a project takes every relative path for one of the    *)
(* second kind.  `sounds' in a saved project is a history variable: what    *)
(* the drums sounded like then.                                            *)
(***************************************************************************)
EXTENDS Integers, SequencesExt, FiniteSetsExt

CONSTANTS
    Notes,               \* the drums
    Files,               \* the user's own files, by place, with their sounds
    Library,             \* the files beside the program, likewise
    MaxSteps             \* bound

\* A file of the user's whose own name looks like a numbered copy's is left out: a package
\* writes its numbered copies over what has their names.
Folders == {"project", "package"}
DrumSamplesAssumption ==
    /\ Notes \subseteq 0..127 /\ MaxSteps \in Nat
    /\ \A p \in DOMAIN Files \cup DOMAIN Library : p.dir \notin Folders /\ p.marks = <<>>

VARIABLES
    engine,        \* m_drumSample: note -> the sound of its sample, if it has one
    drumSamplePaths,
    kits,          \* the kit file: its lines, note -> path
    disk,          \* place -> sound
    projects,      \* folder -> what the project file there lists
    steps

vars == <<engine, drumSamplePaths, kits, disk, projects, steps>>

\* A file's place, and the path to it that is relative to its folder.
At(dir, of, marks) == [dir |-> dir, of |-> of, marks |-> marks]
Relative(p)        == [p EXCEPT !.dir = "."]
InFolder(p, dir)   == IF p.dir = "." THEN [p EXCEPT !.dir = dir] ELSE p

Init ==
    /\ engine = <<>> /\ drumSamplePaths = <<>> /\ kits = <<>> /\ projects = <<>>
    /\ disk = Files @@ Library /\ steps = 0

\* The program reads a relative path from its own folder.
Readable(path) == InFolder(path, "program") \in DOMAIN disk
SoundAt(path)  == disk[InFolder(path, "program")]

Drums == [sounds |-> engine, paths |-> drumSamplePaths]
Shown(d) == engine' = d.sounds /\ drumSamplePaths' = d.paths

ListedFirst(d, note, path) ==  \* (defect: the path is taken before the file is read)
    [sounds |-> IF Readable(path) THEN (note :> SoundAt(path)) @@ d.sounds ELSE d.sounds,
     paths |-> (note :> path) @@ d.paths]

\* A file that cannot be read leaves the drum as it was.
Assigned(d, note, path) ==
    IF ~Readable(path) THEN d
    ELSE [sounds |-> (note :> SoundAt(path)) @@ d.sounds, paths |-> (note :> path) @@ d.paths]

Without(f, note) == [n \in DOMAIN f \ {note} |-> f[n]]
NoDrums          == [sounds |-> <<>>, paths |-> <<>>]

\* All drums are emptied, and what can be read of the list is assigned.
Replaced(list) ==
    FoldLeft(LAMBDA d, n : Assigned(d, n, list[n]), NoDrums, SetToSortSeq(DOMAIN list, <))

------------------------------------------------------------------------------
\* The browser's folder of the library is beside the program, and its paths relative.
Assign(note, path) ==
    /\ Shown(Assigned(Drums, note, path))
    /\ UNCHANGED <<kits, disk, projects>>

BackToSynth(note) ==
    /\ engine' = Without(engine, note) /\ drumSamplePaths' = Without(drumSamplePaths, note)
    /\ UNCHANGED <<kits, disk, projects>>

SaveKit ==
    /\ drumSamplePaths # <<>> /\ kits' = drumSamplePaths
    /\ UNCHANGED <<engine, drumSamplePaths, disk, projects>>

RemoveKit == kits' = <<>> /\ UNCHANGED <<engine, drumSamplePaths, disk, projects>>

LoadKit == kits # <<>> /\ Shown(Replaced(kits)) /\ UNCHANGED <<kits, disk, projects>>

NewSong == Shown(NoDrums) /\ UNCHANGED <<kits, disk, projects>>

Saved(list) == [paths |-> list, sounds |-> engine,
                fresh |-> \A n \in DOMAIN drumSamplePaths : Readable(drumSamplePaths[n])]

Save ==
    /\ projects' = ("project" :> Saved(drumSamplePaths)) @@ projects
    /\ UNCHANGED <<engine, drumSamplePaths, kits, disk>>

(***************************************************************************)
(* A package: the drums' files are copied beside the project, a second file *)
(* of a name under one with the drum's number, and the project lists them   *)
(* relative to it.  What cannot be copied keeps its path.                  *)
(***************************************************************************)
SameName(taken, note, path) ==  \* (defect: a second file of a name overwrites the first)
    At("package", path.of, path.marks)

Destination(taken, note, path) ==
    IF At("package", path.of, path.marks) \in DOMAIN taken
    THEN At("package", path.of, <<note>> \o path.marks) ELSE At("package", path.of, path.marks)

Copied(acc, note) ==
    LET path == drumSamplePaths[note]
        to   == Destination(acc.disk, note, path)
    IN  IF ~Readable(path) THEN [acc EXCEPT !.list = (note :> path) @@ @]
        ELSE [disk |-> (to :> SoundAt(path)) @@ acc.disk, list |-> (note :> Relative(to)) @@ acc.list]

ExportPackage ==
    LET done == FoldLeft(Copied, [disk |-> disk, list |-> <<>>],
                         SetToSortSeq(DOMAIN drumSamplePaths, <))
    IN  /\ disk' = done.disk
        /\ projects' = ("package" :> Saved(done.list)) @@ projects
        /\ UNCHANGED <<engine, drumSamplePaths, kits>>

ReadWhereTheProgramIs(dir) ==  \* (defect: a relative path is not looked up beside the project)
    Replaced(projects[dir].paths)

\* Every relative path is looked up beside the project file.
Opened(dir) ==
    Replaced([n \in DOMAIN projects[dir].paths |-> InFolder(projects[dir].paths[n], dir)])

Open(dir) ==
    /\ dir \in DOMAIN projects /\ Shown(Opened(dir))
    /\ UNCHANGED <<kits, disk, projects>>

\* The user throws one of the files away; a project that needs it is not what it was.
LoseFile(place) ==
    /\ place \in DOMAIN disk /\ disk' = Without(disk, place)
    /\ projects' = [dir \in DOMAIN projects |-> [projects[dir] EXCEPT !.fresh = FALSE]]
    /\ UNCHANGED <<engine, drumSamplePaths, kits>>

------------------------------------------------------------------------------
Next ==
    /\ steps < MaxSteps /\ steps' = steps + 1
    /\ \/ \E note \in Notes : BackToSynth(note)
       \/ \E note \in Notes, place \in DOMAIN Files : Assign(note, place)
       \/ \E note \in Notes, place \in DOMAIN Library : Assign(note, Relative(place))
       \/ SaveKit \/ RemoveKit \/ LoadKit \/ NewSong \/ Save \/ ExportPackage
       \/ \E dir \in Folders : Open(dir)
       \/ \E place \in DOMAIN Files : LoseFile(place)

Spec == Init /\ [][Next]_vars

------------------------------------------------------------------------------
(***************************************************************************)
(* The drums that have a sample in the engine are those the song lists one  *)
(* for, through files that cannot be read, kits, new songs and projects.    *)
(***************************************************************************)
ListedDrumsHaveSamples == DOMAIN engine = DOMAIN drumSamplePaths

(***************************************************************************)
(* A package that lost no file gives back every drum as it sounded when it  *)
(* was written last, wherever its samples came from, also when two files    *)
(* have one name and when it is written again over what it was before       *)
(* (exportPackage).  A project does so for the drums whose path is absolute *)
(* and names no numbered copy of a package: the next export to that package *)
(* writes over those, and the project has another drum then.                *)
(***************************************************************************)
Lasts(dir, path) == dir = "package" \/ (path.dir # "." /\ path.marks = <<>>)

SamplesComeBack ==
    \A dir \in DOMAIN projects :
        LET p == projects[dir]
        IN  p.fresh => \A n \in DOMAIN p.sounds :
                Lasts(dir, p.paths[n]) =>
                    n \in DOMAIN Opened(dir).sounds /\ Opened(dir).sounds[n] = p.sounds[n]
==============================================================================

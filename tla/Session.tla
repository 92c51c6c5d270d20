------------------------------- MODULE Session -------------------------------
(***************************************************************************)
(* A work session and its files: the project file with its side folder of   *)
(* recorded sound, the automatic copy, the lock that tells the next session  *)
(* of a crash, and the path that "save" writes to (project/Project.cpp,      *)
(* gui/App.cpp).                                                            *)
(*                                                                          *)
(* A save writes the text first and the sound files after it, one by one; a  *)
(* write may fail and the program may die between any two.  The song and its  *)
(* versions share their clip objects, and the file has to keep that.  The    *)
(* patches of plug-ins, which follow the sound files, are PluginChains'.     *)
(***************************************************************************)
EXTENDS Integers, SequencesExt, FiniteSetsExt

CONSTANTS Project,     \* where the user saves
          Sounds,      \* what a clip may hold
          MaxClips, MaxVersions, MaxEdits, MaxFaults

Autosave == "autosave"
NoPath   == "none"
SessionAssumption ==
    /\ {MaxClips, MaxVersions, MaxEdits, MaxFaults} \subseteq Nat
    /\ Project \notin {Autosave, NoPath}

Files    == {Project, Autosave}

VARIABLES
    work,     \* the song and its versions, see NewWork; Off when the program is not running
    heap,     \* the clip objects, by what points to them: [sound, at]
    projectPath, m_lastAutosaveText,
    disk,     \* the project files: [text, side]
    lock,     \* session.lock
    saving,   \* a save under way: [path, left], left the sound files still to write
    read,     \* history: the file that the last step opened
    whole,    \* history: what the last finished save put in each file, unless another began
    edits, faults

vars == <<work, heap, projectPath, m_lastAutosaveText, disk, lock, saving, read,
          whole, edits, faults>>

Off == [notes |-> -2]          \* the program is not running
NewWork == [notes |-> 0, clips |-> <<>>, versions |-> <<>>, current |-> -1, nextId |-> 1]
NoText  == [notes |-> -1]      \* no file, or an empty one
NoSave  == [path |-> NoPath, text |-> FALSE, left |-> {}, names |-> <<>>]
Unwritten == [text |-> NoText, side |-> <<>>]
NotWhole  == [notes |-> -1]

Running == work # Off
Idle    == Running /\ saving = NoSave

------------------------------------------------------------------------------
(* What is written.                                                         *)

\* Where a clip may be: <<0, j>> is the j-th of the song, <<v, k>> the k-th of a version.
SongPlaces(w)    == {0} \X DOMAIN w.clips
VersionPlaces(w) == UNION {{v} \X DOMAIN w.versions[v].clips : v \in DOMAIN w.versions}
Clip(w, p)       == IF p[1] = 0 THEN w.clips[p[2]] ELSE w.versions[p[1]].clips[p[2]]
Precedes(p, q)   == p[1] < q[1] \/ (p[1] = q[1] /\ p[2] < q[2])

\* buildClipNames: the song's clips are named after their place, the clips that only a
\* version has are counted; a shared object has one name.
Live(w) == {Clip(w, p) : p \in SongPlaces(w)}
OnlyInVersions(w) == {Clip(w, p) : p \in VersionPlaces(w)} \ Live(w)

\* (defect: a version's clip is named after its place in the version)
NamesByPlace(w) ==
    [id \in Live(w) \cup OnlyInVersions(w) |->
        <<"track", IF id \in Live(w) THEN CHOOSE j \in DOMAIN w.clips : w.clips[j] = id
                   ELSE CHOOSE k \in 1..MaxClips : \E p \in VersionPlaces(w) : p[2] = k /\ Clip(w, p) = id>>]

Names(w) ==
    LET First(id) == CHOOSE p \in VersionPlaces(w) :
                        /\ Clip(w, p) = id
                        /\ \A q \in VersionPlaces(w) : Clip(w, q) = id => ~Precedes(q, p)
    IN  [id \in Live(w) \cup OnlyInVersions(w) |->
            IF id \in Live(w) THEN <<"track", Max({j \in DOMAIN w.clips : w.clips[j] = id})>>
            ELSE <<"vclip", Cardinality({o \in OnlyInVersions(w) : ~Precedes(First(id), First(o))})>>]

\* songToText lists the song's clips where they lie, versionSongToText a version's where
\* they lay when it was checked in.
SongText(w) == [j \in DOMAIN w.clips |-> [file |-> <<"track", j>>, at |-> heap[w.clips[j]].at]]
VersionText(w, n) ==
    [id |-> n.id, parent |-> n.parent, notes |-> n.notes,
     clips |-> [k \in DOMAIN n.clips |-> [file |-> Names(w)[n.clips[k]], at |-> n.places[k]]]]

\* Without versions the file has no section for them.
Serialized(w) ==
    IF w.versions = <<>>
    THEN [notes |-> w.notes, clips |-> SongText(w), versions |-> <<>>, current |-> -1, nextId |-> 1]
    ELSE [notes |-> w.notes, clips |-> SongText(w), current |-> w.current, nextId |-> w.nextId,
          versions |-> [v \in DOMAIN w.versions |-> VersionText(w, w.versions[v])]]

\* What the work is, whatever its objects are called: clips as they sound and lie, and
\* which of them are one object.
Shape(w, h) ==
    LET places == SongPlaces(w) \cup VersionPlaces(w)
    IN  [notes |-> w.notes, current |-> w.current, sounds |-> [p \in places |-> h[Clip(w, p)].sound],
         places |-> [j \in DOMAIN w.clips |-> h[w.clips[j]].at],
         shared |-> {p \in places \X places : Clip(w, p[1]) = Clip(w, p[2])},
         versions |-> [v \in DOMAIN w.versions |->
            [id |-> w.versions[v].id, parent |-> w.versions[v].parent, notes |-> w.versions[v].notes,
             places |-> w.versions[v].places]]]

------------------------------------------------------------------------------
(* Saving.                                                                  *)

\* save() begins by opening the file, which empties it.
Begin(path) ==
    /\ disk' = [disk EXCEPT ![path].text = NoText]
    /\ saving' = [path |-> path, text |-> TRUE, left |-> DOMAIN Names(work), names |-> Names(work)]
    /\ whole' = [whole EXCEPT ![path] = NotWhole] /\ read' = NoPath
    /\ UNCHANGED <<work, heap, projectPath, m_lastAutosaveText, lock, edits, faults>>

WriteText ==
    /\ Running /\ saving.text
    /\ disk' = [disk EXCEPT ![saving.path].text = Serialized(work)]
    /\ saving' = [saving EXCEPT !.text = FALSE]
    /\ UNCHANGED <<work, heap, projectPath, m_lastAutosaveText, lock, read, whole, edits, faults>>

\* saveProjectTo from the menu; control "save" takes the path that is open.
SaveAs     == Idle /\ Begin(Project)
RemoteSave == Idle /\ projectPath # NoPath /\ Begin(projectPath)

\* maybeAutosave: nothing is written while the text is the one of the last copy.
MaybeAutosave == Idle /\ Serialized(work) # m_lastAutosaveText /\ Begin(Autosave)

\* The sound files follow in the order of their objects in memory.
WriteClip ==
    /\ Running /\ ~saving.text
    /\ \E id \in saving.left :
         /\ disk' = [disk EXCEPT ![saving.path].side =
                        [f \in DOMAIN @ \cup {saving.names[id]} |->
                            IF f = saving.names[id] THEN heap[id].sound ELSE @[f]]]
         /\ saving' = [saving EXCEPT !.left = @ \ {id}]
    /\ UNCHANGED <<work, heap, projectPath, m_lastAutosaveText, lock, read, whole, edits, faults>>

\* The save is done.
Finish ==
    /\ Running /\ saving # NoSave /\ ~saving.text /\ saving.left = {}
    /\ saving' = NoSave
    /\ whole' = [whole EXCEPT ![saving.path] = Shape(work, heap)]
    /\ IF saving.path = Autosave
       THEN m_lastAutosaveText' = Serialized(work) /\ UNCHANGED projectPath
       ELSE projectPath' = saving.path /\ UNCHANGED m_lastAutosaveText
    /\ UNCHANGED <<work, heap, disk, lock, read, edits, faults>>

\* A file cannot be written: save() gives up and leaves what it has written.
WriteFails ==
    /\ Running /\ saving # NoSave /\ (saving.text \/ saving.left # {}) /\ faults < MaxFaults /\ faults' = faults + 1
    /\ saving' = NoSave
    /\ UNCHANGED <<work, heap, projectPath, m_lastAutosaveText, disk, lock, read, whole, edits>>

------------------------------------------------------------------------------
(* Opening.                                                                 *)

\* songFromText and versionsFromText collect what the text refers to; what has no sound
\* file is left out.
Readable(saved, refs) ==
    LET kept == {j \in DOMAIN refs : refs[j].file \in DOMAIN saved.side}
    IN  [n \in 1..Cardinality(kept) |-> refs[CHOOSE j \in kept : Cardinality({i \in kept : i =< j}) = n]]
LiveRefs(saved)       == Readable(saved, saved.text.clips)
VersionRefs(saved, v) == Readable(saved, saved.text.versions[v].clips)

\* load: a file is decoded once, whoever refers to it, and is one object.
Objects(refs) == [k \in DOMAIN refs |-> refs[k].file]
FilesRead(saved) == Range(Objects(LiveRefs(saved)))
                    \cup UNION {Range(Objects(VersionRefs(saved, v))) : v \in DOMAIN saved.text.versions}

\* The versions come first and the song last: a clip lies where the song has it, or else
\* where the first version has it that refers to it.
Lies(saved, file) ==
    LET In(refs) == {k \in DOMAIN refs : refs[k].file = file}
        own   == In(LiveRefs(saved))
        first == Min({v \in DOMAIN saved.text.versions : In(VersionRefs(saved, v)) # {}})
    IN  IF own # {} THEN LiveRefs(saved)[Max(own)].at
        ELSE VersionRefs(saved, first)[Min(In(VersionRefs(saved, first)))].at

Loaded(saved) ==
    LET text == saved.text
    IN  [heap |-> [file \in FilesRead(saved) |-> [sound |-> saved.side[file], at |-> Lies(saved, file)]],
         work |-> [notes |-> text.notes, current |-> text.current,
                   nextId |-> Max({text.nextId} \cup {text.versions[v].id + 1 : v \in DOMAIN text.versions}),
                   clips |-> Objects(LiveRefs(saved)),
                   versions |-> [v \in DOMAIN text.versions |->
                      [id |-> text.versions[v].id, parent |-> text.versions[v].parent,
                       notes |-> text.versions[v].notes,
                       clips |-> Objects(VersionRefs(saved, v)),
                       places |-> [k \in DOMAIN VersionRefs(saved, v) |-> VersionRefs(saved, v)[k].at]]]]]

Load(path) == /\ work' = Loaded(disk[path]).work /\ heap' = Loaded(disk[path]).heap /\ read' = path

\* loadProjectFrom, from the menu, the recent list or the control channel; a file that is
\* no project leaves everything as it was.
Open(path) ==
    /\ Idle /\ disk[path].text # NoText /\ Load(path) /\ projectPath' = path
    /\ UNCHANGED <<m_lastAutosaveText, disk, lock, saving, whole, edits, faults>>

------------------------------------------------------------------------------
(* The life of the program.                                                 *)

\* A session that starts beside a lock offers the automatic copy, and forgets its path.
Start(recover) ==
    /\ work = Off /\ lock' = TRUE /\ projectPath' = NoPath /\ m_lastAutosaveText' = NoText
    /\ saving' = NoSave
    /\ IF recover /\ lock /\ disk[Autosave].text # NoText THEN Load(Autosave)
       ELSE work' = NewWork /\ heap' = <<>> /\ read' = NoPath
    /\ UNCHANGED <<disk, whole, edits, faults>>

Down == work' = Off /\ heap' = <<>> /\ projectPath' = NoPath /\ m_lastAutosaveText' = NoText
        /\ saving' = NoSave /\ read' = NoPath /\ UNCHANGED <<disk, whole, edits>>

Exit  == Idle /\ Down /\ lock' = FALSE /\ UNCHANGED faults
Crash == Running /\ faults < MaxFaults /\ faults' = faults + 1 /\ Down /\ UNCHANGED lock

------------------------------------------------------------------------------
(* Editing.                                                                 *)

Edited(w, h) == /\ Idle /\ edits < MaxEdits /\ edits' = edits + 1
                /\ work' = w /\ heap' = h /\ read' = NoPath
                /\ UNCHANGED <<projectPath, m_lastAutosaveText, disk, lock, saving, whole, faults>>

EditNotes == Edited([work EXCEPT !.notes = 1 - @], heap)

\* A new object is none of those there are, nor one that was deleted.
NewClip == <<"new", edits>>
With(clip) == [id \in DOMAIN heap \cup {NewClip} |-> IF id = NewClip THEN clip ELSE heap[id]]

\* An audio take or an imported file.
AddClip(sound) ==
    /\ Running /\ Len(work.clips) < MaxClips
    /\ Edited([work EXCEPT !.clips = Append(@, NewClip)], With([sound |-> sound, at |-> 0]))

\* Dragging a clip changes the object, whoever shares it.
MoveClip(j) == Edited(work, [heap EXCEPT ![work.clips[j]].at = 1 - @])

\* Turning a clip round puts a new object of the same name and length in its place.
ReverseClip(j) ==
    \E sound \in Sounds \ {heap[work.clips[j]].sound} :
        Edited([work EXCEPT !.clips[j] = NewClip], With([heap[work.clips[j]] EXCEPT !.sound = sound]))

DeleteClip(j) == Edited([work EXCEPT !.clips = RemoveAt(@, j)], heap)

\* checkinVersion and checkoutVersion
Checkin ==
    /\ Running /\ Len(work.versions) < MaxVersions
    /\ Edited([work EXCEPT !.current = work.nextId, !.nextId = @ + 1,
                           !.versions = Append(@, [id |-> work.nextId, parent |-> work.current, notes |-> work.notes,
                                                   clips |-> work.clips,
                                                   places |-> [j \in DOMAIN work.clips |-> heap[work.clips[j]].at]])],
              heap)
Checkout(v) ==
    LET n == work.versions[v]
    IN  Edited([work EXCEPT !.notes = n.notes, !.clips = n.clips, !.current = n.id],
               [id \in DOMAIN heap |-> IF \E k \in DOMAIN n.clips : n.clips[k] = id
                                       THEN [heap[id] EXCEPT !.at = n.places[CHOOSE k \in DOMAIN n.clips : n.clips[k] = id]]
                                       ELSE heap[id]])

\* "New song" keeps the versions, and the path that is open.
NewSong == Edited([work EXCEPT !.notes = 0, !.clips = <<>>], heap)

Init ==
    /\ work = Off /\ heap = <<>> /\ projectPath = NoPath /\ m_lastAutosaveText = NoText
    /\ disk = [p \in Files |-> Unwritten] /\ lock = FALSE /\ saving = NoSave /\ read = NoPath
    /\ whole = [p \in Files |-> NotWhole] /\ edits = 0 /\ faults = 0

Next ==
    \/ \E recover \in BOOLEAN : Start(recover)
    \/ Exit \/ Crash
    \/ SaveAs \/ RemoteSave \/ MaybeAutosave \/ WriteText \/ WriteClip \/ Finish \/ WriteFails
    \/ Open(Project)
    \/ Idle /\ (\/ EditNotes \/ NewSong \/ Checkin
                \/ \E sound \in Sounds : AddClip(sound)
                \/ \E j \in DOMAIN work.clips : MoveClip(j) \/ ReverseClip(j) \/ DeleteClip(j)
                \/ \E v \in DOMAIN work.versions : Checkout(v))

Spec == Init /\ [][Next]_vars

------------------------------------------------------------------------------
(* Properties *)

\* A file whose last save was finished gives back the whole work: notes, clips with their
\* sound and place, each version's own places, and which clips are one object; through
\* overwriting, versions that share clips with the song, crashes and recovery
\* (buildClipNames, versionSongToText and load).  A recovered copy is never the file
\* that "save" writes to.
WorkIsKept ==
    /\ read # NoPath /\ whole[read] # NotWhole => Shape(work, heap) = whole[read]
    /\ projectPath # Autosave

\* The claim of App.cpp line 1864: a check saves whatever has changed.
AutosaveTakesChanges ==
    Idle /\ Serialized(work) = m_lastAutosaveText /\ faults = 0 => whole[Autosave] = Shape(work, heap)
==============================================================================

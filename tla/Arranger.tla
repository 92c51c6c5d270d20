------------------------------ MODULE Arranger -------------------------------
(***************************************************************************)
(* The song as a whole: tracks, the audio clips on them, sections, undo and *)
(* the version tree (gui/Panels.cpp, gui/PanelsTrackView.cpp,               *)
(* gui/PanelsArrange.cpp, gui/PanelsTransport.cpp, gui/AppState.h).         *)
(*                                                                         *)
(* A song shares its audio clips with every copy of it that undo, redo and  *)
(* the versions keep: `heap' holds the clip objects, a track lists them by  *)
(* number.  A copy therefore also writes down where each clip lay, and      *)
(* putting it back writes that into the shared objects again.  The rest of  *)
(* the program remembers tracks and clips by their index (`sel', `held').   *)
(*                                                                         *)
(* The notes of a track are Track's; they are edited in NoteEditor, and     *)
(* only sections move them here.  What plays is Transport's.                *)
(***************************************************************************)
EXTENDS Track, AudioClips, UndoHistory, FiniteSetsExt

CONSTANTS
    Songs,          \* the songs a session starts with, as [tracks, heap, tempo, markers]
    Places,         \* ticks the mouse can point at
    Gains, Fades, Speeds,
    BarTicks,
    MaxObjects, MaxTracks, MaxSteps, MaxVersions   \* bounds

\* What a song is made of; a track lists its clips by their numbers among n objects.
\* A tick is a signed number, and a note's end is not looked at when it is moved.
EventSet    == [tick : Int, kind : {"on", "off", "cc"}, note : Nat, vel : Nat]
MidiClipSet == [start : Nat, end : Int, members : SUBSET (Nat \X Int)]
ClipSet     == [pcm : Seq(Int), start : Nat, speed : Speeds, trimStart : Nat,
                trimLen : Nat \ {0}, fadeIn : Nat, fadeOut : Nat, gain : Int, bounce : BOOLEAN]
TrackSet(n) == [id : Nat \ {0}, channel : 0..15, events : Seq(EventSet), clips : Seq(MidiClipSet),
                stamp : Nat, audio : Seq(1..n), volAuto : Seq([tick : Nat, value : Nat]),
                frozen : BOOLEAN, practice : BOOLEAN]
SongSet(n)  == [tracks : Seq(TrackSet(n)), tempo : Seq([tick : Nat]),
                markers : Seq([tick : Nat, name : Nat])]

ASSUME ArrangerAssumption ==
    /\ {BarTicks, MaxObjects, MaxTracks, MaxSteps, MaxVersions} \subseteq Nat /\ BarTicks > 0
    /\ Places \subseteq Nat /\ Gains \subseteq Nat /\ Fades \subseteq Nat
    /\ Speeds \subseteq Nat \ {0} /\ 1 \in Speeds
    /\ UndoHistoryAssumption
ASSUME SongsAssumption ==
    \A s \in Songs :
        /\ s.heap \in Seq(ClipSet)
        /\ [tracks |-> s.tracks, tempo |-> s.tempo, markers |-> s.markers] \in SongSet(Len(s.heap))
        /\ \A k \in DOMAIN s.tracks : s.tracks[k].id = k

VARIABLES
    heap,       \* the audio clips ever made
    song,       \* [tracks, tempo, markers]
    history, versions, versionCurrent,
    sel,        \* what is selected, by index
    held,       \* asioTrack, audioRecTrack, vstInstrumentTrack, practiceTrack, by index
    clipboard,  \* clipClipboard
    drag,       \* clipDrag
    born,       \* history variable: tracks made so far, for telling them apart
    steps

vars == <<heap, song, history, versions, versionCurrent, sel, held, clipboard, drag, born, steps>>

NewTrack(id, channel) ==
    [id |-> id, channel |-> channel, events |-> <<>>, clips |-> <<>>, stamp |-> 0,
     audio |-> <<>>, volAuto |-> <<>>, frozen |-> FALSE, practice |-> FALSE]

NoPair  == <<0, 0>>
NoRange == [track |-> 0, clip |-> 0, from |-> 0, to |-> 0]
NoSel   == [track |-> 1, clip |-> NoPair, midi |-> NoPair, many |-> {}, range |-> NoRange,
            marker |-> 0, tempo |-> 0]
NoClip  == [pcm |-> <<>>]
NoDrag  == [mode |-> "none"]

------------------------------------------------------------------------------
(***************************************************************************)
(* Copies of the song.                                                     *)
(***************************************************************************)
ObjectsOf(s) == FlattenSeq([t \in DOMAIN s.tracks |-> s.tracks[t].audio])

PlaceWithoutTrim(c) ==  \* (defect: the trim is not written down)
    [start |-> c.start, speed |-> c.speed, fadeIn |-> c.fadeIn, fadeOut |-> c.fadeOut,
     gain |-> c.gain]
ClipPlace(c) ==
    [start |-> c.start, speed |-> c.speed, trimStart |-> c.trimStart, trimLen |-> c.trimLen,
     fadeIn |-> c.fadeIn, fadeOut |-> c.fadeOut, gain |-> c.gain]

\* `was' is a history variable: the clips as they were, which the program does not keep.
MakeSongSnapshot(s, h) ==
    LET ids == ObjectsOf(s)
    IN  [song |-> s, places |-> [k \in DOMAIN ids |-> ClipPlace(h[ids[k]])],
         was |-> [k \in DOMAIN ids |-> h[ids[k]]]]

PlacesApplied(sn, h) ==
    LET ids == ObjectsOf(sn.song)
        PlaceOf(id) == sn.places[Max({k \in DOMAIN ids : ids[k] = id})]
    IN  [id \in DOMAIN h |->
            IF id \notin ToSet(ids) THEN h[id]
            ELSE [f \in DOMAIN h[id] |-> IF f \in DOMAIN PlaceOf(id) THEN PlaceOf(id)[f]
                                                                   ELSE h[id][f]]]

\* The editor's world: what the commands below take and give back.
Now == [heap |-> heap, song |-> song, history |-> history]

Copied(w) == [w EXCEPT !.history = Record(@, MakeSongSnapshot(w.song, w.heap))]

Becomes(w) ==
    /\ Len(w.heap) <= MaxObjects /\ Len(w.song.tracks) <= MaxTracks
    /\ heap' = w.heap /\ song' = w.song /\ history' = w.history

InTrack(w, t, track) == [w EXCEPT !.song.tracks[t] = track]

\* A new clip object, and the list of a track that it joins at its end.
WithClip(w, t, c) ==
    [w EXCEPT !.heap = Append(@, c), !.song.tracks[t].audio = Append(@, Len(w.heap) + 1)]

\* One in the place of an old one; one dropped from the list.
Replaced(w, t, i, c) ==
    [w EXCEPT !.heap = Append(@, c), !.song.tracks[t].audio[i] = Len(w.heap) + 1]
Dropped(w, t, i) == [w EXCEPT !.song.tracks[t].audio = RemoveAt(@, i)]
Inserted(w, t, i, c) ==
    [w EXCEPT !.heap = Append(@, c),
              !.song.tracks[t].audio = InsertAt(@, i, Len(w.heap) + 1)]

\* A change inside a shared object.
Touched(w, id, c) == [w EXCEPT !.heap[id] = c]

Tracks     == DOMAIN song.tracks
ClipsOn(t) == DOMAIN song.tracks[t].audio
IdAt(t, i) == song.tracks[t].audio[i]
ClipAt(t, i) == heap[IdAt(t, i)]
IsClip(p)  == p[1] \in Tracks /\ p[2] \in ClipsOn(p[1])

Init ==
    /\ \E s \in Songs : /\ heap = s.heap
                        /\ song = [tracks |-> s.tracks, tempo |-> s.tempo, markers |-> s.markers]
    /\ history = Empty /\ versions = [nodes |-> <<>>, next |-> 1] /\ versionCurrent = 0
    /\ sel = NoSel /\ clipboard = NoClip /\ drag = NoDrag
    /\ held = [asio |-> 0, rec |-> 0, at |-> 0, vst |-> 1, practice |-> 0]
    /\ born = Len(song.tracks) /\ steps = 0

Rest == <<versions, versionCurrent, clipboard, drag, born>>

------------------------------------------------------------------------------
(***************************************************************************)
(* Tracks.                                                                 *)
(***************************************************************************)
AddTrack(kind) ==
    LET next    == Len(song.tracks) % 16
        channel == CASE kind = "drum"                   -> 9
                     [] kind = "practice" /\ next = 9   -> 10
                     [] OTHER                           -> next
        t == [NewTrack(born + 1, channel) EXCEPT !.practice = kind = "practice"]
        n == Len(song.tracks) + 1
    IN  /\ Becomes([Copied(Now) EXCEPT !.song.tracks = Append(@, t)])
        /\ sel' = IF kind = "practice" THEN sel ELSE [sel EXCEPT !.track = n]
        /\ held' = IF kind = "practice" THEN [held EXCEPT !.practice = n] ELSE held
        /\ born' = born + 1
        /\ UNCHANGED <<versions, versionCurrent, clipboard, drag>>

\* A take that ends becomes a clip of its track.
Taken(w) == IF held.rec \in DOMAIN w.song.tracks
            THEN WithClip(w, held.rec, NewClip(<<5, 6>>, held.at)) ELSE w

DeleteTrack(i) ==
    LET At(x)  == IF x < i THEN x ELSE IF x = i THEN 0 ELSE x - 1
        before == IF held.rec = i THEN Taken(Copied(Now)) ELSE Now
        left   == Len(song.tracks) - 1
        track  == At(sel.track)
        many   == {<<At(p[1]), p[2]>> : p \in sel.many}
    IN  /\ i \in Tracks
        /\ Becomes([Copied(before) EXCEPT !.song.tracks = RemoveAt(@, i)])
        /\ sel' = [sel EXCEPT
             !.track = IF track = 0 THEN 1 ELSE IF track > left THEN Max({1, left}) ELSE track,
             !.clip  = IF At(@[1]) = 0 THEN NoPair ELSE <<At(@[1]), @[2]>>,
             !.midi  = IF At(@[1]) = 0 THEN NoPair ELSE <<At(@[1]), @[2]>>,
             !.range = IF At(@.track) = 0 THEN NoRange
                       ELSE [sel.range EXCEPT !.track = At(sel.range.track)],
             !.many  = {p \in many : p[1] # 0}]
        /\ held' = [held EXCEPT !.asio = At(@), !.rec = At(@), !.vst = At(@)]
        /\ UNCHANGED Rest

\* Moving is written with the same care; the index of the selected MIDI clip
\* and the practice track stay behind.
AlongShort(from, to, x) ==  \* (defect: the track that is passed last stays where it was)
    CASE x = from -> to
      [] from < x /\ x < to -> x - 1
      [] to < x /\ x < from -> x + 1
      [] OTHER -> x

Along(from, to, x) ==
    CASE x = from -> to
      [] from < x /\ x <= to -> x - 1
      [] to <= x /\ x < from -> x + 1
      [] OTHER -> x

\* Every index that is remembered goes through the same map.
Remapped(from, to) ==
    LET At(x) == IF x = 0 THEN 0 ELSE Along(from, to, x)
    IN  /\ sel' = [sel EXCEPT
             !.track = At(@), !.clip[1] = At(@), !.range.track = At(@),
             !.many = {<<At(p[1]), p[2]>> : p \in @}]
        /\ held' = [held EXCEPT !.asio = At(@), !.rec = At(@), !.vst = At(@)]

MoveTrack(from, to) ==
    /\ from \in Tracks /\ to \in Tracks /\ from # to
    /\ Becomes([Copied(Now) EXCEPT
                  !.song.tracks = InsertAt(RemoveAt(@, from), to, song.tracks[from])])
    /\ Remapped(from, to)
    /\ UNCHANGED Rest

\* Each sounding note has a weight of its own.
NoteWeight == 100
SoundingIn(ns, tick) == {i \in DOMAIN ns : ns[i].start <= tick /\ tick < ns[i].end}

\* The notes are baked into a clip.
DyingAway  == 1     \* frames after the last event (two seconds in the program), silent here
Bounce(t) ==
    LET ns == ExtractNotes(t)
        frames == [k \in 1..LengthTicks(t) + DyingAway |-> NoteWeight * Cardinality(SoundingIn(ns, k - 1))]
    IN  [NewClip(frames, 0) EXCEPT !.bounce = TRUE]

FreezeTrackOnly(i) ==  \* (defect: the notes go on beside their bounce)
    /\ i \in Tracks /\ ~song.tracks[i].frozen /\ song.tracks[i].events # <<>>
    /\ Becomes(WithClip(Copied(Now), i, Bounce(song.tracks[i])))
    /\ UNCHANGED <<Rest, sel, held>>

FreezeTrack(i) ==
    /\ i \in Tracks /\ ~song.tracks[i].frozen /\ song.tracks[i].events # <<>>
    /\ Becomes([WithClip(Copied(Now), i, Bounce(song.tracks[i])) EXCEPT
                  !.song.tracks[i].frozen = TRUE])
    /\ UNCHANGED <<Rest, sel, held>>

UnfreezeTrack(i) ==
    /\ i \in Tracks /\ song.tracks[i].frozen
    /\ Becomes([Copied(Now) EXCEPT
          !.song.tracks[i].frozen = FALSE,
          !.song.tracks[i].audio = Where(@, LAMBDA id : ~heap[id].bounce)])
    /\ UNCHANGED <<Rest, sel, held>>

\* Recording: a take still running on another track is put down first, uncopied.
StartTake(i, at, asioOpens) ==
    /\ i \in Tracks
    /\ Becomes(Taken(Now))
    /\ sel' = IF song.tracks[i].practice THEN sel ELSE [sel EXCEPT !.track = i]
    /\ held' = CASE held.asio # 0 -> [held EXCEPT !.rec = i, !.at = at]
                 [] held.asio = 0 /\ asioOpens -> [held EXCEPT !.rec = i, !.at = at, !.asio = i]
                 [] OTHER -> [held EXCEPT !.rec = 0]
    /\ UNCHANGED Rest

StopTake ==
    /\ held.rec # 0
    /\ Becomes(IF held.rec \in Tracks THEN Taken(Copied(Now)) ELSE Now)
    /\ held' = [held EXCEPT !.rec = 0]
    /\ UNCHANGED <<Rest, sel>>


------------------------------------------------------------------------------
(***************************************************************************)
(* Clips under the mouse.  A press copies the song and takes hold of the    *)
(* clip's index; the clip changes as the mouse moves, in the shared object. *)
(***************************************************************************)
Modes == {"move", "speed", "stretch", "trimL", "trimR"}

\* Every click on a lane selects its track and lets the markers go.
Clicked(t) == [sel EXCEPT !.track = t, !.marker = 0, !.tempo = 0]

PressClip(t, i, mode, grab) ==
    /\ drag.mode = "none" /\ IsClip(<<t, i>>)
    /\ Becomes(Copied(Now))
    /\ drag' = [mode |-> mode, track |-> t, clip |-> i, grab |-> grab, down |-> TRUE,
                from |-> ClipAt(t, i), target |-> PlayTicks(ClipAt(t, i))]
    /\ sel' = [Clicked(t) EXCEPT !.clip = <<t, i>>, !.many = {<<t, i>>}, !.range = NoRange]
    /\ UNCHANGED <<held, versions, versionCurrent, clipboard, born>>

\* The speed that makes the clip last so long, in the steps the model has.
SpeedFor(c, ticks) ==
    LET near == {s \in Speeds : PlayLen(c) >= s * ticks}
    IN  IF near = {} THEN Min(Speeds) ELSE Max(near)

TrimmedLeft(c, tick) ==
    LET right == drag.from.trimStart + PlayLen(drag.from)
        first == Max({0, Min({right - 1, drag.from.trimStart + (tick - drag.from.start) * c.speed})})
    IN  [c EXCEPT !.trimStart = first, !.trimLen = right - first,
                  !.start = Max({0, drag.from.start + (first - drag.from.trimStart) \div c.speed})]

Pulled(c, tick) ==
    LET ticks == Max({1, tick - c.start})
    IN  CASE drag.mode = "move"    -> [c EXCEPT !.start = Max({0, tick - drag.grab})]
          [] drag.mode = "speed"   -> [c EXCEPT !.speed = SpeedFor(c, ticks)]
          [] drag.mode = "trimR"   -> [c EXCEPT !.trimLen = Max({1, ticks * c.speed})]
          [] drag.mode = "trimL"   -> TrimmedLeft(c, tick)
          [] drag.mode = "stretch" -> c

Dragging == drag.mode # "none" /\ IsClip(<<drag.track, drag.clip>>)

DragTo(tick) ==
    /\ Dragging /\ drag.down
    /\ LET id == IdAt(drag.track, drag.clip)
       IN  Becomes(Touched(Now, id, Pulled(heap[id], tick)))
    /\ drag' = IF drag.mode # "stretch" THEN drag
               ELSE [drag EXCEPT !.target = Max({1, tick - ClipAt(drag.track, drag.clip).start})]
    /\ UNCHANGED <<sel, held, versions, versionCurrent, clipboard, born>>

\* On another lane the clip joins that track; a stretched clip is a new object.
Release(lane) ==
    LET t == drag.track  i == drag.clip  c == ClipAt(t, i)
    IN  /\ Dragging
        /\ CASE /\ drag.mode = "stretch" /\ drag.target # PlayTicks(c) /\ PlayTicks(c) > 0
                /\ StretchedLen(c, drag.target, PlayTicks(c)) > 0
                  -> /\ Becomes(Replaced(Now, t, i, Stretched(c, drag.target, PlayTicks(c))))
                     /\ UNCHANGED sel
             [] drag.mode = "move" /\ lane \in Tracks \ {t}
                  -> /\ Becomes([Dropped(Now, t, i) EXCEPT
                                   !.song.tracks[lane].audio = Append(@, IdAt(t, i))])
                     /\ LET at == <<lane, Len(song.tracks[lane].audio) + 1>>
                        IN  sel' = [sel EXCEPT !.track = lane, !.clip = at, !.many = {at}]
             [] OTHER -> Becomes(Now) /\ UNCHANGED sel
        /\ drag' = NoDrag
        /\ UNCHANGED <<held, versions, versionCurrent, clipboard, born>>

\* What is dragged may have gone meanwhile: then nothing hears the button come up.
LetGo ==
    /\ drag.mode # "none" /\ ~Dragging /\ drag.down
    /\ drag' = [drag EXCEPT !.down = FALSE]
    /\ UNCHANGED <<heap, song, history, sel, held, versions, versionCurrent, clipboard, born>>

Selects(s) ==
    /\ sel' = s /\ s # sel
    /\ UNCHANGED <<heap, song, history, held, versions, versionCurrent, clipboard, drag, born>>

ShiftClickClip(t, i) ==
    /\ drag.mode = "none" /\ IsClip(<<t, i>>)
    /\ Selects([Clicked(t) EXCEPT !.clip = <<t, i>>,
                  !.many = IF <<t, i>> \in @ THEN @ \ {<<t, i>>} ELSE @ \cup {<<t, i>>}])

ClickEmpty(t) ==
    /\ t \in Tracks
    /\ Selects([NoSel EXCEPT !.track = t, !.midi = sel.midi])

SelectMidi(t, i) ==
    /\ t \in Tracks /\ i \in DOMAIN song.tracks[t].clips
    /\ Selects([sel EXCEPT !.midi = <<t, i>>, !.track = t])

Within(tick, from, to) == Max({from, Min({tick, to})})

\* Ctrl and drag, over a clip (cut to the clip) or over an empty lane.
SelectRange(t, i, from, to) ==
    /\ drag.mode = "none" /\ t \in Tracks /\ (i = 0 \/ i \in ClipsOn(t)) /\ from < to
    /\ LET c == ClipAt(t, i)
           a == IF i = 0 THEN from ELSE Within(from, c.start, EndTick(c))
           b == IF i = 0 THEN to ELSE Within(to, c.start, EndTick(c))
       IN  Selects([Clicked(t) EXCEPT !.range = IF a = b THEN NoRange
                                         ELSE [track |-> t, clip |-> i, from |-> a, to |-> b]])

------------------------------------------------------------------------------
(***************************************************************************)
(* Cutting, copying and joining clips.                                     *)
(***************************************************************************)
Forgotten(s) == [s EXCEPT !.many = {}, !.range = NoRange]

\* A cut that is refused has copied the song all the same, and keeps the selection.
SplitTrackClip(t, i, at) ==
    /\ IsClip(<<t, i>>) /\ at > ClipAt(t, i).start
    /\ LET c == ClipAt(t, i)
           d == at - c.start
           w == Copied(Now)
       IN  IF CanSplit(c, d)
           THEN /\ Becomes(Inserted(Touched(w, IdAt(t, i), LeftOf(c, d)), t, i + 1,
                                    [RightOf(c, d) EXCEPT !.start = at]))
                /\ sel' = Forgotten(sel)
           ELSE Becomes(w) /\ UNCHANGED sel
    /\ UNCHANGED <<Rest, held>>

DeleteTrackClip(t, i) ==
    /\ IsClip(<<t, i>>)
    /\ Becomes(Dropped(Copied(Now), t, i))
    /\ sel' = Forgotten(sel)
    /\ UNCHANGED <<Rest, held>>

ChosenAt(t, i, s) ==
    [s EXCEPT !.clip = <<t, i>>, !.many = {<<t, i>>}]

MergeTrackClips(t, I) ==
    LET w     == Copied(Now)
        chosen == Where([k \in ClipsOn(t) |-> k], LAMBDA k : k \in I)
        clips == [k \in DOMAIN chosen |-> ClipAt(t, chosen[k])]
        left  == Without(song.tracks[t].audio, I)
    IN  /\ t \in Tracks /\ I \subseteq ClipsOn(t) /\ Len(chosen) >= 2 /\ Until(clips) > From(clips)
        /\ Becomes(WithClip([w EXCEPT !.song.tracks[t].audio = left], t, Merged(clips)))
        /\ sel' = ChosenAt(t, Len(left) + 1, Forgotten(sel))
        /\ UNCHANGED <<Rest, held>>

\* The menu joins a clip with the next one on the track; Ctrl+M the selected ones.
NextTo(t, i) ==
    LET later == {k \in ClipsOn(t) \ {i} : ClipAt(t, k).start >= ClipAt(t, i).start}
        first == Min({ClipAt(t, k).start : k \in later})
    IN  IF later = {} THEN {} ELSE {i, Min({k \in later : ClipAt(t, k).start = first})}

Clipboard(c) ==
    /\ clipboard' = c /\ clipboard' # clipboard
    /\ UNCHANGED <<heap, song, history, sel, held, versions, versionCurrent, drag, born>>

CopySelectedClip == IsClip(sel.clip) /\ Clipboard(ClipAt(sel.clip[1], sel.clip[2]))

HasRange == IsClip(<<sel.range.track, sel.range.clip>>)
RangeIn(c) == <<Within(sel.range.from - c.start, 0, PlayTicks(c)),
                Within(sel.range.to - c.start, 0, PlayTicks(c))>>

CopyClipRange ==
    /\ HasRange
    /\ LET c == ClipAt(sel.range.track, sel.range.clip)
           r == RangeIn(c)
       IN  /\ r[1] < r[2]
           /\ Clipboard([c EXCEPT !.trimStart = @ + r[1] * c.speed,
                                  !.trimLen = Max({1, (r[2] - r[1]) * c.speed}),
                                  !.fadeIn = 0, !.fadeOut = 0, !.bounce = FALSE])

PasteClipAt(t, tick) ==
    /\ clipboard # NoClip /\ t \in Tracks
    /\ Becomes(WithClip(Copied(Now), t, [clipboard EXCEPT !.start = tick, !.bounce = FALSE]))
    /\ sel' = [ChosenAt(t, Len(song.tracks[t].audio) + 1, sel) EXCEPT !.track = t]
    /\ UNCHANGED <<Rest, held>>

\* The part in the range goes; what is behind it stays, or closes the gap.
DeleteClipRange(close) ==
    LET t == sel.range.track  i == sel.range.clip
        id == IdAt(t, i)  c == heap[id]
        a == RangeIn(c)[1]  b == RangeIn(c)[2]
        w == Copied(Now)
        right == [RightOf(c, b) EXCEPT !.start = IF close THEN sel.range.from ELSE sel.range.to]
        CutAt(x, d) == IF CanSplit(x, d) THEN LeftOf(x, d) ELSE x
        left  == CutAt(CutAt(c, b), a)
    IN  /\ HasRange /\ a < b
        /\ Becomes(CASE a = 0 /\ b = PlayTicks(c) -> Dropped(w, t, i)
                     [] a > 0 /\ b = PlayTicks(c) -> Touched(w, id, CutAt(c, a))
                     [] a = 0 /\ b < PlayTicks(c) ->
                          IF CanSplit(c, b) THEN Replaced(Touched(w, id, LeftOf(c, b)), t, i, right)
                                            ELSE w
                     [] OTHER ->
                          IF ~CanSplit(c, b) THEN Touched(w, id, left)
                          ELSE IF close
                          THEN Replaced(Touched(w, id, left), t, i,
                                        [Merged(<<left, right>>) EXCEPT !.start = c.start])
                          ELSE Inserted(Touched(w, id, left), t, i + 1, right))
        /\ sel' = Forgotten(sel)
        /\ UNCHANGED <<Rest, held>>

DuplicateSelectedClips ==
    LET picked == IF sel.many # {} THEN sel.many ELSE {sel.clip}
        ps    == FlattenSeq([t \in Tracks |->
                     Where([i \in ClipsOn(t) |-> <<t, i>>], LAMBDA p : p \in picked)])
        clips == [k \in DOMAIN ps |-> ClipAt(ps[k][1], ps[k][2])]
        d     == Until(clips) - From(clips)
        new   == [k \in DOMAIN ps |-> [track |-> ps[k][1],
                                       clip  |-> [clips[k] EXCEPT !.start = @ + d, !.bounce = FALSE]]]
        done  == FoldLeft(LAMBDA w, c : WithClip(w, c.track, c.clip), Copied(Now), new)
        at    == [k \in DOMAIN ps |->
                    <<ps[k][1], Len(song.tracks[ps[k][1]].audio)
                                + Cardinality({j \in 1..k : ps[j][1] = ps[k][1]})>>]
    IN  /\ ps # <<>> /\ d > 0
        /\ Becomes(done)
        /\ sel' = [sel EXCEPT !.many = ToSet(at), !.clip = at[Len(at)]]
        /\ UNCHANGED <<Rest, held>>

\* Changes to one clip from its menu: a new object, or a field of the shared one.
ReverseClip(t, i) ==
    /\ IsClip(<<t, i>>) /\ CanReverse(ClipAt(t, i))
    /\ Becomes(Replaced(Copied(Now), t, i, Reversed(ClipAt(t, i))))
    /\ UNCHANGED <<Rest, held, sel>>

AdjustClip(t, i, c) ==
    /\ IsClip(<<t, i>>) /\ c # ClipAt(t, i)
    /\ Becomes(Touched(Copied(Now), IdAt(t, i), c))
    /\ UNCHANGED <<Rest, held, sel>>

\* Normalising brings the loudest frame that is heard to the same peak.
Peak == 6
NormalizeGainFor(c) == LET loudest == Max({0} \cup ToSet(Frames(c)))
                       IN  IF loudest = 0 THEN 1 ELSE Peak \div loudest

------------------------------------------------------------------------------
(***************************************************************************)
(* Tempo points, section markers and automation.                           *)
(***************************************************************************)
FirstAt(s, tick) == Min({k \in DOMAIN s : s[k].tick = tick})

AddTempo(tick) ==
    /\ Becomes([Copied(Now) EXCEPT !.song.tempo = ByTick(Append(@, [tick |-> tick]))])
    /\ UNCHANGED <<Rest, held, sel>>

AddMarker(tick) ==
    /\ Becomes([Copied(Now) EXCEPT !.song.markers =
                  ByTick(Append(@, [tick |-> tick, name |-> Len(@) + 1]))])
    /\ UNCHANGED <<Rest, held, sel>>

\* A marker is dragged; the list is sorted again and the selection follows.
MoveTempo(k, tick) ==
    LET moved == ByTick([song.tempo EXCEPT ![k].tick = tick])
    IN  /\ k \in DOMAIN song.tempo
        /\ Becomes([Copied(Now) EXCEPT !.song.tempo = moved])
        /\ sel' = [sel EXCEPT !.tempo = FirstAt(moved, tick)]
        /\ UNCHANGED <<Rest, held>>

MoveMarker(k, tick) ==
    LET moved == ByTick([song.markers EXCEPT ![k].tick = tick])
    IN  /\ k \in DOMAIN song.markers
        /\ Becomes([(IF tick = song.markers[k].tick THEN Now ELSE Copied(Now)) EXCEPT
                      !.song.markers = moved])
        /\ sel' = [sel EXCEPT !.marker = FirstAt(moved, tick)]
        /\ UNCHANGED <<Rest, held>>

RemoveTempo(k) ==
    /\ k \in DOMAIN song.tempo
    /\ Becomes([Copied(Now) EXCEPT !.song.tempo = RemoveAt(@, k)])
    /\ sel' = [sel EXCEPT !.tempo = 0]
    /\ UNCHANGED <<Rest, held>>

RemoveMarker(k) ==
    /\ k \in DOMAIN song.markers
    /\ Becomes([Copied(Now) EXCEPT !.song.markers = RemoveAt(@, k)])
    /\ sel' = [sel EXCEPT !.marker = 0]
    /\ UNCHANGED <<Rest, held>>

\* A stroke over the lane replaces the points it passes.
DrawAutomation(t, tick, value) ==
    /\ t \in Tracks
    /\ Becomes([Copied(Now) EXCEPT !.song.tracks[t].volAuto =
          ByTick(Append(Where(@, LAMBDA p : p.tick # tick), [tick |-> tick, value |-> value]))])
    /\ sel' = [sel EXCEPT !.track = t]
    /\ UNCHANGED <<Rest, held>>

ClearAutomation(t) ==
    /\ t \in Tracks /\ song.tracks[t].volAuto # <<>>
    /\ Becomes([Copied(Now) EXCEPT !.song.tracks[t].volAuto = <<>>])
    /\ UNCHANGED <<Rest, held, sel>>

\* Delete takes the least harmful thing that is selected, and never a track.
DeleteKey ==
    CASE HasRange                         -> DeleteClipRange(FALSE) \/ DeleteClipRange(TRUE)
      [] ~HasRange /\ sel.marker \in DOMAIN song.markers -> RemoveMarker(sel.marker)
      [] ~HasRange /\ sel.marker \notin DOMAIN song.markers /\ sel.tempo \in DOMAIN song.tempo
                                          -> RemoveTempo(sel.tempo)
      [] OTHER ->
           LET t == sel.midi[1]  i == sel.midi[2]
               last == Len(song.tracks[sel.track].audio)
           IN  IF t \in Tracks /\ i \in DOMAIN song.tracks[t].clips
               THEN LET c == song.tracks[t].clips[i]
                    IN  /\ Becomes(InTrack(Copied(Now), t,
                             [EraseClip(song.tracks[t], c) EXCEPT !.clips = RemoveAt(@, i)]))
                        /\ sel' = [sel EXCEPT !.midi = NoPair]
                        /\ UNCHANGED <<Rest, held>>
               ELSE IF IsClip(sel.clip)
               THEN /\ Becomes(Dropped(Copied(Now), sel.clip[1], sel.clip[2]))
                    /\ sel' = [Forgotten(sel) EXCEPT !.clip = NoPair]
                    /\ UNCHANGED <<Rest, held>>
               ELSE sel.track \in Tracks /\ last > 0 /\ DeleteTrackClip(sel.track, last)

------------------------------------------------------------------------------
(***************************************************************************)
(* Sections: the stretches between markers.                                *)
(***************************************************************************)
\* songEndTicks; the play head, which contentTicksWithAudio adds, is taken to be within it.
ContentTicks == Max({0} \cup {LengthTicks(song.tracks[t]) : t \in Tracks}
                       \cup {EndTick(heap[ObjectsOf(song)[k]]) : k \in DOMAIN ObjectsOf(song)})

BuildSections ==
    LET ms   == song.markers
        last == ms[Len(ms)].tick
        used == IF ContentTicks <= last THEN last + 4 * BarTicks ELSE ContentTicks
        end  == ((used + BarTicks - 1) \div BarTicks) * BarTicks  \* to the end of a bar
        all  == [k \in DOMAIN ms |-> [a |-> ms[k].tick, b |-> IF k < Len(ms) THEN ms[k + 1].tick ELSE end]]
    IN  Where(all, LAMBDA s : s.b > s.a)

Lies(tick, s) == s.a <= tick /\ tick < s.b
Shifted(s, d) == [k \in DOMAIN s |-> [s[k] EXCEPT !.tick = @ + d]]
PartOf(s, sec) == Where(s, LAMBDA p : Lies(p.tick, sec))

NotesOfPart(t, sec, d) ==
    LET ns == Where(ExtractNotes(t), LAMBDA n : Lies(n.start, sec))
    IN  FlattenSeq([k \in DOMAIN ns |-> <<On(ns[k].start + d, ns[k].note, ns[k].vel),
                                          Off(ns[k].end + d, ns[k].note)>>])

ClipLater(c, d) == [c EXCEPT !.start = @ + d, !.end = @ + d,
                             !.members = {<<m[1], m[2] + d>> : m \in @}]
ClipsLater(cs, d) == [k \in DOMAIN cs |-> ClipLater(cs[k], d)]

\* What a track has in a section goes to the track being put together.  The audio
\* clip itself is moved, so the next section may find it where it was put.
Emitted(old, acc, p) ==
    LET sec == p.sec
        d   == p.to - sec.a
        Take(a, id) ==
            IF Lies(a.heap[id].start, p.sec)
            THEN [a EXCEPT !.heap[id].start = @ + p.to - p.sec.a, !.track.audio = Append(@, id)] ELSE a
        took == FoldLeft(Take, acc, old.audio)
    IN  [took EXCEPT
          !.track.events = @ \o NotesOfPart(old, sec, d)
                             \o Shifted(Where(PartOf(old.events, sec), LAMBDA e : ~IsNote(e)), d),
          !.track.volAuto = @ \o Shifted(PartOf(old.volAuto, sec), d),
          !.track.clips = @ \o ClipsLater(Where(old.clips, LAMBDA c : Lies(c.start, sec)), d)]

\* The plan: every section of the new order, after what lies before the first.
Plan(secs, order) ==
    LET Put(acc, k) == Append(acc, [sec |-> secs[k],
            to |-> IF acc = <<>> THEN secs[1].a
                   ELSE LET p == acc[Len(acc)] IN p.to + p.sec.b - p.sec.a])
        rest == FoldLeft(Put, <<>>, order)
    IN  <<[sec |-> [a |-> 0, b |-> secs[1].a], to |-> 0]>> \o rest

Rebuilt(w, t, plan) ==
    LET old  == w.song.tracks[t]
        bare == [old EXCEPT !.events = <<>>, !.clips = <<>>, !.audio = <<>>, !.volAuto = <<>>]
        done == FoldLeft(LAMBDA acc, p : Emitted(old, acc, p),
                         [heap |-> w.heap, track |-> bare], plan)
    IN  [w EXCEPT !.heap = done.heap,
                  !.song.tracks[t] = [SortEvents(done.track) EXCEPT !.clips = ByStart(@),
                                                                    !.volAuto = ByTick(@)]]

Replanned(s, plan) == ByTick(FlattenSeq([k \in DOMAIN plan |->
                          Shifted(PartOf(s, plan[k].sec), plan[k].to - plan[k].sec.a)]))

ApplyArrangement(order) ==
    LET secs == BuildSections
        plan == Plan(secs, order)
        w    == FoldLeft(LAMBDA a, t : Rebuilt(a, t, plan), Copied(Now), [t \in Tracks |-> t])
    IN  /\ song.markers # <<>> /\ secs # <<>>
        /\ Becomes([w EXCEPT !.song.tempo = Replanned(@, plan),
                             !.song.markers = Replanned(@, Tail(plan))])
        /\ sel' = [NoSel EXCEPT !.track = sel.track]
        /\ UNCHANGED <<Rest, held>>

\* A block is dropped on another, or deleted with what is in it.
Without1(n, k) == [j \in 1..n - 1 |-> IF j < k THEN j ELSE j + 1]
Moved(n, from, onto) ==  \* behind onto when it comes from before, else in front of it
    LET at == IF from < onto THEN onto - 1 ELSE onto    \* where Without1(n, from) has onto
    IN  InsertAt(Without1(n, from), IF from < onto THEN at + 1 ELSE at, from)
Sections == IF song.markers = <<>> THEN {} ELSE DOMAIN BuildSections

MoveSection(from, onto) ==
    /\ {from, onto} \subseteq Sections /\ from # onto
    /\ ApplyArrangement(Moved(Cardinality(Sections), from, onto))

DeleteSection(k) == k \in Sections /\ ApplyArrangement(Without1(Cardinality(Sections), k))

\* Doubling a section: what is in it is copied behind it and the rest moves on.
Doubled(s, sec) ==
    LET d == sec.b - sec.a
        moved == [k \in DOMAIN s |-> IF s[k].tick >= sec.b THEN [s[k] EXCEPT !.tick = @ + d] ELSE s[k]]
    IN  moved \o Shifted(PartOf(s, sec), d)

DoubledTrack(w, t, sec) ==
    LET old == w.song.tracks[t]
        d   == sec.b - sec.a
        clips == [k \in DOMAIN old.clips |-> IF old.clips[k].start >= sec.b
                                             THEN ClipLater(old.clips[k], d) ELSE old.clips[k]]
        more  == ClipsLater(Where(old.clips, LAMBDA c : Lies(c.start, sec)), d)
        keyed == [old EXCEPT !.clips = ByStart(clips \o more)]
        ns    == ExtractNotes(old)
        late  == Where(ns, LAMBDA n : n.start >= sec.b)
        here  == Where(ns, LAMBDA n : Lies(n.start, sec))
        gone  == RemoveNotes(keyed, late)
        ctl   == Where(gone.events, LAMBDA e : ~IsNote(e))
        kept  == [gone EXCEPT !.events =
                    Where(@, IsNote) \o Doubled(ctl, sec)]
        Later2(a, n) == AddNote(a, n.start + d, Duration(n), n.note, n.vel)
        full  == SortEvents(FoldLeft(Later2, kept, late \o here))
        objs  == old.audio
        far   == {objs[k] : k \in {j \in DOMAIN objs : w.heap[objs[j]].start >= sec.b}}
        near  == Where(objs, LAMBDA id : Lies(w.heap[id].start, sec))
        moved == [w EXCEPT !.heap = [id \in DOMAIN w.heap |->
                     IF id \in far THEN [w.heap[id] EXCEPT !.start = @ + d] ELSE w.heap[id]],
                  !.song.tracks[t] = [full EXCEPT !.volAuto = ByTick(Doubled(@, sec))]]
        again == [k \in DOMAIN near |-> [w.heap[near[k]] EXCEPT !.start = @ + d]]
    IN  FoldLeft(LAMBDA a, c : WithClip(a, t, c), moved, again)

DuplicateSection(k) ==
    LET sec == BuildSections[k]
        w == FoldLeft(LAMBDA a, t : DoubledTrack(a, t, sec), Copied(Now), [t \in Tracks |-> t])
    IN  /\ k \in Sections
        /\ Becomes([w EXCEPT !.song.tempo = ByTick(Doubled(@, sec)),
                             !.song.markers = ByTick(Doubled(@, sec))])
        /\ sel' = [sel EXCEPT !.clip = NoPair, !.many = {}, !.range = NoRange]
        /\ UNCHANGED <<Rest, held>>

------------------------------------------------------------------------------
(***************************************************************************)
(* Undo, versions, a new song.                                             *)
(***************************************************************************)
Clamped(n, t) == IF n = 0 THEN 1 ELSE Min({n, t})

Thaw(sn, hist, midi) ==
    /\ song' = sn.song /\ heap' = PlacesApplied(sn, heap) /\ history' = hist
    /\ sel' = [NoSel EXCEPT !.track = Clamped(Len(sn.song.tracks), sel.track),
                         !.midi = midi]

DoUndo ==
    /\ CanUndo(history)
    /\ Thaw(Undone(history), AfterUndo(history, MakeSongSnapshot(song, heap)), NoPair)
    /\ UNCHANGED <<Rest, held>>

DoRedo ==
    /\ CanRedo(history)
    /\ Thaw(Redone(history), AfterRedo(history, MakeSongSnapshot(song, heap)), NoPair)
    /\ UNCHANGED <<Rest, held>>

Nodes == versions.nodes

CheckinVersion ==
    /\ Len(Nodes) < MaxVersions
    /\ versions' = [nodes |-> Append(Nodes, [id |-> versions.next, parent |-> versionCurrent,
                                            snap |-> MakeSongSnapshot(song, heap)]),
                    next |-> versions.next + 1]
    /\ versionCurrent' = versions.next
    /\ UNCHANGED <<heap, song, history, sel, held, clipboard, drag, born>>

CheckoutVersion(k) ==
    /\ k \in DOMAIN Nodes
    /\ Thaw(Nodes[k].snap, Copied(Now).history, sel.midi)
    /\ versionCurrent' = Nodes[k].id
    /\ UNCHANGED <<held, versions, clipboard, drag, born>>

\* A version is deleted with all that grew from it; the current one falls back.
Below(id) ==
    LET up[k \in DOMAIN Nodes] ==
            \/ Nodes[k].id = id
            \/ \E j \in 1..k - 1 : Nodes[j].id = Nodes[k].parent /\ up[j]
    IN  {Nodes[k].id : k \in {j \in DOMAIN Nodes : up[j]}}

DeleteVersion(k) ==
    /\ k \in DOMAIN Nodes
    /\ LET dead == Below(Nodes[k].id)
       IN  /\ versions' = [versions EXCEPT !.nodes = Where(@, LAMBDA v : v.id \notin dead)]
           /\ versionCurrent' = IF versionCurrent \in dead THEN Nodes[k].parent ELSE versionCurrent
    /\ UNCHANGED <<heap, song, history, sel, held, clipboard, drag, born>>

NewSong ==
    /\ song.tracks # <<>>
    /\ Becomes([Copied(Now) EXCEPT !.song = [tracks |-> <<>>, tempo |-> <<>>, markers |-> <<>>]])
    /\ sel' = [sel EXCEPT !.track = 1]
    /\ UNCHANGED <<Rest, held>>

------------------------------------------------------------------------------
Trackwise ==
    \/ \E kind \in {"plain", "drum", "practice"} : AddTrack(kind)
    \/ \E i \in Tracks :
        \/ DeleteTrack(i) \/ FreezeTrack(i) \/ UnfreezeTrack(i)
        \/ \E j \in Tracks : MoveTrack(i, j)
        \/ \E at \in Places, opens \in BOOLEAN : StartTake(i, at, opens)
    \/ StopTake \/ NewSong

Mouse ==
    \/ \E t \in Tracks : \E i \in ClipsOn(t) :
        \/ \E mode \in Modes, grab \in {0, 1} : PressClip(t, i, mode, grab)
        \/ ShiftClickClip(t, i)
    \/ \E tick \in Places : DragTo(tick)
    \/ \E lane \in Tracks \cup {0} : Release(lane)
    \/ LetGo
    \/ \E t \in Tracks : \/ ClickEmpty(t)
                          \/ \E i \in DOMAIN song.tracks[t].clips : SelectMidi(t, i)
                          \/ \E c \in {0} \cup ClipsOn(t), a \in Places, b \in Places : SelectRange(t, c, a, b)

Clipwise ==
    \/ \E t \in Tracks : \E i \in ClipsOn(t) :
        \/ \E at \in Places : SplitTrackClip(t, i, at)
        \/ DeleteTrackClip(t, i) \/ ReverseClip(t, i) \/ MergeTrackClips(t, NextTo(t, i))
        \/ \E g \in Gains \cup {NormalizeGainFor(ClipAt(t, i))} : AdjustClip(t, i, [ClipAt(t, i) EXCEPT !.gain = g])
        \/ \E f \in Fades : \/ AdjustClip(t, i, [ClipAt(t, i) EXCEPT !.fadeIn = f])
                            \/ AdjustClip(t, i, [ClipAt(t, i) EXCEPT !.fadeOut = f])
    \/ \E t \in Tracks : \/ MergeTrackClips(t, ClipsOn(t))
                          \/ MergeTrackClips(t, {p[2] : p \in {q \in sel.many : q[1] = t}})
    \/ CopySelectedClip \/ CopyClipRange \/ DuplicateSelectedClips
    \/ \E t \in Tracks, at \in Places : PasteClipAt(t, at)
    \/ DeleteKey

Songwise ==
    \/ \E at \in Places : AddTempo(at) \/ AddMarker(at)
    \/ \E k \in DOMAIN song.tempo : RemoveTempo(k) \/ \E at \in Places : MoveTempo(k, at)
    \/ \E k \in DOMAIN song.markers : RemoveMarker(k) \/ \E at \in Places : MoveMarker(k, at)
    \/ \E t \in Tracks : ClearAutomation(t) \/ \E at \in Places, g \in Gains : DrawAutomation(t, at, g)
    \/ \E k \in Sections : \/ DuplicateSection(k) \/ DeleteSection(k)
                            \/ \E j \in Sections : MoveSection(k, j)
    \/ DoUndo \/ DoRedo \/ CheckinVersion
    \/ \E k \in DOMAIN Nodes : CheckoutVersion(k) \/ DeleteVersion(k)

Step(A) == steps < MaxSteps /\ steps' = steps + 1 /\ A

Next == Step(Trackwise \/ Mouse \/ Clipwise \/ Songwise)

Spec == Init /\ [][Next]_vars

------------------------------------------------------------------------------
(***************************************************************************)
(* Properties.                                                             *)
(***************************************************************************)
Pairs == Nat \X Nat
TypeOK ==
    /\ heap \in Seq(ClipSet) /\ song \in SongSet(Len(heap))
    /\ Len(history.undo) <= MaxDepth
    /\ sel \in [track : Nat \ {0}, clip : Pairs, midi : Pairs, many : SUBSET Pairs,
                range : [track : Nat, clip : Nat, from : Nat, to : Nat],
                marker : Nat, tempo : Nat]
    /\ held \in [asio : Nat, rec : Nat, at : Nat, vst : Nat, practice : Nat]
    /\ clipboard = NoClip \/ clipboard \in ClipSet
    /\ drag = NoDrag \/ drag \in [mode : Modes, track : Nat, clip : Nat, grab : {0, 1},
                                  down : BOOLEAN, from : ClipSet, target : Nat]
    /\ born \in Nat

\* Clip objects are shared with every copy of the song, yet what each copy would put
\* back is the song as it was when the copy was made, whatever was done to the
\* objects since (makeSongSnapshot, applySongSnapshot).
IsDeep(sn) == LET ids == ObjectsOf(sn.song)
              IN  \A k \in DOMAIN ids : PlacesApplied(sn, heap)[ids[k]] = sn.was[k]
CopiesAreDeep ==
    /\ TypeOK
    /\ \A k \in DOMAIN history.undo : IsDeep(history.undo[k])
    /\ \A k \in DOMAIN history.redo : IsDeep(history.redo[k])
    /\ \A k \in DOMAIN Nodes : IsDeep(Nodes[k].snap)

\* A track sounds as its audio clips and, unless it is frozen, its notes.  Cutting a clip,
\* joining clips and freezing a track leave every tick of every track sounding as it did;
\* cutting a stretch out of a clip without closing the gap silences that clip there and
\* nothing else (splitTrackClip, mergeTrackClips, freezeTrack, deleteClipRange).
NotesAt(t, tick) == IF t.frozen THEN 0 ELSE NoteWeight * Cardinality(SoundingIn(ExtractNotes(t), tick))
SongAt(s, h, t, tick) ==
    NotesAt(s.tracks[t], tick)
    + SumOf([k \in DOMAIN s.tracks[t].audio |-> h[s.tracks[t].audio[k]]], tick)
Heard(t, tick)  == SongAt(song, heap, t, tick)
Horizon == 0..Max({0} \cup {EndTick(heap[id]) : id \in DOMAIN heap}
                      \cup {LengthTicks(song.tracks[t]) : t \in Tracks})
EachOnce == IsInjective(ObjectsOf(song))

SameSound ==
    \A t \in Tracks : \A tick \in Horizon : SongAt(song', heap', t, tick) = Heard(t, tick)
OnlyTheRangeIsGone ==
    LET r == sel.range  c == ClipAt(r.track, r.clip)
    IN  \A t \in Tracks : \A tick \in Horizon :
            SongAt(song', heap', t, tick) =
                Heard(t, tick) - IF t = r.track /\ r.from <= tick /\ tick < r.to THEN SampleAt(c, tick) ELSE 0

EditsKeepTheSound ==
    [][EachOnce =>
        /\ (\E t \in Tracks : \E i \in ClipsOn(t) : \E at \in Places : SplitTrackClip(t, i, at)) => SameSound
        /\ (\E t \in Tracks : \E I \in SUBSET ClipsOn(t) : MergeTrackClips(t, I)) => SameSound
        /\ (\E t \in Tracks : FreezeTrack(t)) => SameSound
        /\ (DeleteClipRange(FALSE) /\ CanSplit(ClipAt(sel.range.track, sel.range.clip),
                                               PlayTicks(ClipAt(sel.range.track, sel.range.clip)) - 1))
              => OnlyTheRangeIsGone]_vars

\* When tracks are deleted or moved about, the selected track stays selected if it is still
\* there, and the selected clips, the stretch, the input, the take and the instrument's
\* window name the same track or nothing (deleteTrack, moveTrackTo).  So does the selected
\* MIDI clip after a deletion.  Not so after a move, where its index stays behind, nor the
\* practice track's, which neither remaps.
NameOf(s, x) == IF x \in DOMAIN s.tracks THEN s.tracks[x].id ELSE 0
NamesOf(s)   == {s.tracks[k].id : k \in DOMAIN s.tracks}
Follows(s, x, t, y) ==
    \/ NameOf(t, y) = NameOf(s, x)
    \/ y = 0 /\ NameOf(s, x) \notin NamesOf(t)
Remains(s, x, t, y) ==
    x \in DOMAIN s.tracks /\ s.tracks[x].id \in NamesOf(t) => NameOf(t, y) = s.tracks[x].id
IndicesFollowTheirTracks ==
    [][/\ (\E i \in Tracks : DeleteTrack(i) \/ \E j \in Tracks : MoveTrack(i, j)) =>
             /\ Remains(song, sel.track, song', sel'.track)
             /\ Follows(song, sel.clip[1], song', sel'.clip[1])
             /\ Follows(song, sel.range.track, song', sel'.range.track)
             /\ \A f \in {"asio", "rec", "vst"} : Follows(song, held[f], song', held'[f])
             /\ {NameOf(song', p[1]) : p \in sel'.many} \ {0} \subseteq {NameOf(song, p[1]) : p \in sel.many}
       /\ (\E i \in Tracks : DeleteTrack(i)) => Follows(song, sel.midi[1], song', sel'.midi[1])]_vars

\* Sections are put in a new order as a whole: every clip goes where its section
\* goes, once (PanelsArrange.cpp:7-9).
ArrangementMovesClips ==
    [][\A k \in Sections, j \in Sections : MoveSection(k, j) =>
        \A t \in Tracks : Len(song'.tracks[t].audio) = Len(song.tracks[t].audio)]_vars
==============================================================================

------------------------------ MODULE SongTools ------------------------------
(***************************************************************************)
(* What the tools of mcp/midipro-mcp.mjs write into a project, and the MIDI *)
(* files that the server and the program (sequencer/SmfFile.cpp) write and  *)
(* read.  A track of the project has a channel, a list of events, and a     *)
(* list of plug-in lines; `kit' gives notes of the drum channel a sample.   *)
(*                                                                          *)
(* A MIDI file is a sequence of chunks, a chunk a sequence of messages with *)
(* the ticks since the one before.  Bytes, lengths and names are left out,  *)
(* tempi are members of a small set, and what the file system may do is in  *)
(* McpServer.                                                               *)
(***************************************************************************)
EXTENDS Track

CONSTANTS Pitches, Starts, Lengths,   \* the notes that are asked for
          Tempi,
          Library,                    \* the samples of the drum kit
          Foreign,                    \* MIDI files from elsewhere
          Songs,                      \* projects that the tools begin with
          MaxTracks, MaxEdits         \* bounds

VARIABLES song, kit,
          asked,   \* for each track, the notes that the tools have put in
          midi,    \* the MIDI file, and what it was made of
          count

vars == <<song, kit, asked, midi, count>>

Drums == 9
NoTempi  == <<>>
NewTrack(channel)   == [channel |-> channel, events |-> <<>>, plugins |-> <<>>]
Indices == DOMAIN song.tracks

------------------------------------------------------------------------------
(***************************************************************************)
(* The order of a file's lines: by tick, and within a tick a Note Off       *)
(* before what is no Note Off.                                              *)
(***************************************************************************)
UnrankedLines(events) == ByTick(events)  \* (defect: within a tick the order is kept)

songToLines(events) ==
    LET Rank(off) == SelectSeq(events, LAMBDA e : (e.kind = "off") = off)
    IN  ByTick(Rank(TRUE) \o Rank(FALSE))

\* add_notes, add_chords and add_drums put pairs at the end of the list, in the order
\* of their arguments, and `replace' empties the list of its notes before.
PutNotes(events, notes, replace) ==
    LET Pair(n) == <<On(n.start, n.note, 100), Off(n.start + n.len, n.note)>>
    IN  (IF replace THEN SelectSeq(events, LAMBDA e : ~IsNote(e)) ELSE events) \o
            FlattenSeq([i \in DOMAIN notes |-> Pair(notes[i])])

Notes == [note : Pitches, start : Starts, len : Lengths]
\* A chord's notes start and end together, its bass below its root.
ChordsToAdd == {[i \in 1..Cardinality(Pitches) |->
                    [note |-> SetToSortSeq(Pitches, <)[i], start |-> s, len |-> d]] :
                s \in Starts, d \in Lengths}
\* A row of a pattern: each hit lasts half a step, and the row may be repeated.
DrumsToAdd  == {[i \in 1..2 |-> [note |-> p, start |-> s + (i - 1) * step,
                                 len |-> Max({1, step \div 2})]] :
                p \in Pitches, s \in Starts, step \in Lengths}

------------------------------------------------------------------------------
(***************************************************************************)
(* Kits.  A note of the drum channel asks for a kind of drum, or for a kind *)
(* that may stand for it; the samples of one family are preferred.          *)
(***************************************************************************)
Bucket(note)   == IF note % 2 = 0 THEN "snare" ELSE "rim"
Fallback(kind) == IF kind = "snare" THEN <<"snare", "rim">> ELSE <<"rim", "snare">>

candidatesFor(files, kind) ==
    LET Hits(k) == {f \in files : f.score[k] > 0}
        Best(k) == {f \in Hits(k) : \A g \in Hits(k) : g.score[k] <= f.score[k]}
        found   == {i \in 1..2 : Hits(Fallback(kind)[i]) # {}}
    IN  IF found = {} THEN <<>>
        ELSE SetToSortSeq(Best(Fallback(kind)[Min(found)]), LAMBDA f, g : f.rank < g.rank)

Families(files) == {f.family : f \in files} \ {0}
Of(files, family) == {f \in files : f.family = family}

\* The family that has most of the drums, then the most samples, then the first.
Better(files, kinds, a, b) ==
    LET Size(x) == Cardinality(Of(files, x))
        Has(x)  == Cardinality({k \in kinds : \E f \in Of(files, x) : f.score[k] > 0})
    IN  \/ Has(a) > Has(b)
        \/ Has(a) = Has(b) /\ (Size(a) > Size(b) \/ (Size(a) = Size(b) /\ a <= b))

\* A sample that has been given makes way for one that has not, if there is one.
Pick(cands, used, i) ==
    LET free == SelectSeq(cands, LAMBDA f : f \notin used)
    IN  IF cands[i] \notin used \/ free = <<>> THEN cands[i] ELSE free[Min({i, Len(free)})]

\* The samples for a kind of drum, out of the best family if it has one.
KitCandidates(files, notes, kind) ==
    LET kinds  == {Bucket(n) : n \in notes}
        family == {x \in Families(files) : \A y \in Families(files) : Better(files, kinds, x, y)}
        near   == candidatesFor(UNION {Of(files, x) : x \in family}, kind)
    IN  IF near # <<>> THEN near ELSE candidatesFor(files, kind)

assignKit(files, notes) ==
    LET Cands(kind) == KitCandidates(files, notes, kind)
        \* The notes of a kind are spread over its samples.
        Place(n) == LET same  == SetToSortSeq({m \in notes : Bucket(m) = Bucket(n)}, <)
                        last  == Len(Cands(Bucket(n))) - 1
                        i     == CHOOSE k \in DOMAIN same : same[k] = n
                    IN  IF Len(same) = 1 THEN 1
                        ELSE 1 + (2 * (i - 1) * last + Len(same) - 1) \div (2 * (Len(same) - 1))
        Give(given, n) ==
            LET cands == Cands(Bucket(n))
            IN  IF cands = <<>> THEN given
                ELSE given @@ (n :> Pick(cands, Range(given), Place(n)))
        \* Kind after kind, in the order of their lowest notes.
        First(n) == Min({m \in notes : Bucket(m) = Bucket(n)})
        order    == SetToSortSeq(notes, LAMBDA m, n : First(m) < First(n) \/
                                                      (First(m) = First(n) /\ m < n))
    IN  FoldLeft(Give, <<>>, order)

usedDrumNotes == UNION {{song.tracks[t].events[i].note :
                            i \in {j \in DOMAIN song.tracks[t].events :
                                      song.tracks[t].events[j].kind = "on"}} :
                        t \in {u \in Indices : song.tracks[u].channel = Drums}}

------------------------------------------------------------------------------
(***************************************************************************)
(* MIDI files.                                                              *)
(***************************************************************************)
Message(delta, what, value, channel) ==
    [delta |-> delta, what |-> what, value |-> value, channel |-> channel]
EndOfTrack == Message(0, "end", 0, 0)

Deltas(events) ==
    [i \in DOMAIN events |-> events[i].tick - (IF i = 1 THEN 0 ELSE events[i - 1].tick)]

TrackChunk(events, channel) ==
    Append([i \in DOMAIN events |-> Message(Deltas(events)[i], "voice", events[i], channel)],
           EndOfTrack)

TempoChunk(bpm, tempos) ==
    <<Message(0, "tempo", bpm, 0), Message(0, "signature", 0, 0)>> \o
        Append([i \in DOMAIN tempos |-> Message(Deltas(tempos)[i], "tempo", tempos[i].bpm, 0)],
               EndOfTrack)

\* smf::save: the tempo map, and each track sorted by tick.
save(s) ==
    [format |-> 1, smpte |-> FALSE,
     chunks |-> <<TempoChunk(s.bpm, ByTick(s.tempos))>> \o
                [t \in DOMAIN s.tracks |-> TrackChunk(ByTick(s.tracks[t].events), s.tracks[t].channel)]]

\* projectToSmf: the first tempo, and each of the tracks that were asked for.
projectToSmf(s, which) ==
    LET these == SetToSortSeq(which, <)
    IN  [format |-> 1, smpte |-> FALSE,
         chunks |-> <<TempoChunk(s.bpm, NoTempi)>> \o
                    [k \in DOMAIN these |-> LET t == s.tracks[these[k]]
                                            IN  TrackChunk(songToLines(t.events), t.channel)]]

\* The messages of a chunk at their ticks, up to its end.
Timed(chunk) ==
    LET stop == Min({i \in DOMAIN chunk : chunk[i].what = "end"} \cup {Len(chunk) + 1})
        tick[i \in 0..Len(chunk)] == IF i = 0 THEN 0 ELSE tick[i - 1] + chunk[i].delta
    IN  [i \in 1..stop - 1 |-> [tick |-> tick[i], m |-> chunk[i]]]

\* An event without a status byte has that of the last one, if none but voices came since.
Statusless(chunk) ==
    \E i \in DOMAIN chunk : /\ chunk[i].what = "bare"
                            /\ i = 1 \/ chunk[i - 1].what \notin {"voice", "bare"}

Voices(chunk) == SelectSeq(Timed(chunk), LAMBDA x : x.m.what \in {"voice", "bare"})
TempiOf(chunk) == SelectSeq(Timed(chunk), LAMBDA x : x.m.what = "tempo")
AtTicks(voices) == [i \in DOMAIN voices |-> [voices[i].m.value EXCEPT !.tick = voices[i].tick]]
\* What a chunk is cut into by its channels, each in the order of its first event.
ChannelsOf(chunk) == {Voices(chunk)[i].m.channel : i \in DOMAIN Voices(chunk)}

\* smf::load: a track for each chunk with an event, on the channel of the first one.
load(file) ==
    LET tempi == FlattenSeq([c \in DOMAIN file.chunks |-> TempiOf(file.chunks[c])])
        later == SelectSeq(tempi, LAMBDA x : x.tick > 0)
        full  == SelectSeq(file.chunks, LAMBDA c : Voices(c) # <<>>)
    IN  [bpm    |-> IF tempi = <<>> THEN 120 ELSE tempi[1].m.value,
         tempos |-> ByTick([i \in DOMAIN later |-> [tick |-> later[i].tick, bpm |-> later[i].m.value]]),
         tracks |-> [k \in DOMAIN full |-> [channel |-> Voices(full[k])[1].m.channel,
                                            events  |-> ByTick(AtTicks(Voices(full[k])))]]]

------------------------------------------------------------------------------
(***************************************************************************)
(* The tools.                                                               *)
(***************************************************************************)
Change(s, a) == /\ count < MaxEdits /\ count' = count + 1
                /\ song' = s /\ asked' = a

\* A new file with the tracks that were listed, on channel 1 or the drums'.
midipro_create_project ==
    \E bpm \in Tempi, channels \in {<<>>, <<0>>, <<0, Drums>>} :
        /\ Change([bpm |-> bpm, tempos |-> NoTempi, tracks |-> [t \in DOMAIN channels |-> NewTrack(channels[t])]],
                  [t \in DOMAIN channels |-> {}])
        /\ kit' = <<>> /\ UNCHANGED midi

\* makeTrackBlock, with the track's number for its channel, or the drums'.
midipro_add_track ==
    \E channel \in {Len(song.tracks) % 16, Drums} :
        /\ Len(song.tracks) < MaxTracks
        /\ Change([song EXCEPT !.tracks = Append(@, NewTrack(channel))], Append(asked, {}))
        /\ UNCHANGED <<kit, midi>>

midipro_add(kinds) ==
    \E t \in Indices, notes \in kinds, replace \in BOOLEAN :
        /\ Change([song EXCEPT !.tracks[t].events = songToLines(PutNotes(@, notes, replace))],
                  [asked EXCEPT ![t] = (IF replace THEN {} ELSE @) \cup ToSet(notes)])
        /\ UNCHANGED <<kit, midi>>

midipro_set_tempo ==
    \E bpm \in Tempi : Change([song EXCEPT !.bpm = bpm], asked) /\ UNCHANGED <<kit, midi>>

\* A track has one instrument; what was there goes, and the new one is put last.
midipro_set_instrument ==
    \E t \in Indices :
        /\ Change([song EXCEPT !.tracks[t].plugins =
                      Append(SelectSeq(@, LAMBDA p : p # "instrument"), "instrument")], asked)
        /\ UNCHANGED <<kit, midi>>

midipro_add_effect ==
    \E t \in Indices :
        /\ Change([song EXCEPT !.tracks[t].plugins = Append(@, "effect")], asked)
        /\ UNCHANGED <<kit, midi>>

midipro_set_drumkit ==
    /\ usedDrumNotes # {} /\ assignKit(Library, usedDrumNotes) # <<>>
    /\ kit' = assignKit(Library, usedDrumNotes)
    /\ Change(song, asked) /\ UNCHANGED midi

\* The file's tick becomes the project's, to the nearest; `half' is a file twice as fine.
Rescaled(tick, half) == IF half THEN (tick + 1) \div 2 ELSE tick

\* The events of a chunk on one channel, as they are put into a track at `from'.
Imported(chunk, channel, half, from) ==
    LET mine == SelectSeq(Voices(chunk), LAMBDA x : x.m.channel = channel)
        evs  == AtTicks(mine)
    IN  [i \in DOMAIN evs |-> [evs[i] EXCEPT !.tick = from + Rescaled(@, half)]]

\* Source chunk and channel, in the order in which they first appear.
Groups(file) ==
    FlattenSeq([c \in DOMAIN file.chunks |->
        LET First(ch) == Min({i \in DOMAIN Voices(file.chunks[c]) :
                                 Voices(file.chunks[c])[i].m.channel = ch})
            channels  == SetToSortSeq(ChannelsOf(file.chunks[c]), LAMBDA a, b : First(a) < First(b))
        IN  [k \in DOMAIN channels |-> [chunk |-> c, channel |-> channels[k]]]])

\* A note of the file counts as asked for at the length that is left of it, and one that
\* has no end there, or none left, is without length.
Wanted(chunk, channel, half, from) ==
    LET evs == AtTicks(SelectSeq(Voices(chunk), LAMBDA x : x.m.channel = channel))
        Ended(n) == \E i \in DOMAIN evs : evs[i] = Off(n.end, n.note)
        Left(n)  == IF Ended(n) THEN Rescaled(n.end, half) - Rescaled(n.start, half) ELSE 0
    IN  {[note |-> n.note, start |-> from + Rescaled(n.start, half), len |-> Left(n)] :
            n \in NoteSet([events |-> evs])}

FirstTempo(file) ==
    LET all == FlattenSeq([c \in DOMAIN file.chunks |-> TempiOf(file.chunks[c])])
    IN  IF all = <<>> THEN {} ELSE {ByTick([i \in DOMAIN all |->
                [tick |-> all[i].tick, bpm |-> all[i].m.value]])[1].bpm}

midipro_import_midi ==
    \E half \in BOOLEAN, from \in Starts, tempo \in {song.bpm} \cup FirstTempo(midi.file) :
        LET groups == Groups(midi.file)
            Part(k) == Imported(midi.file.chunks[groups[k].chunk], groups[k].channel, half, from)
            Want(k) == Wanted(midi.file.chunks[groups[k].chunk], groups[k].channel, half, from)
            all     == FlattenSeq([k \in DOMAIN groups |-> Part(k)])
        IN  /\ ~midi.file.smpte /\ groups # <<>>
            \* What the server makes of a chunk that has lost its status is left out.
            /\ ~\E c \in DOMAIN midi.file.chunks : Statusless(midi.file.chunks[c])
            /\ \/ \E t \in Indices :
                     Change([song EXCEPT !.bpm = tempo,
                                         !.tracks[t].events = songToLines(@ \o all)],
                            [asked EXCEPT ![t] = @ \cup UNION {Want(k) : k \in DOMAIN groups}])
               \/ /\ Len(song.tracks) + Len(groups) <= MaxTracks
                  /\ Change([song EXCEPT !.bpm = tempo,
                               !.tracks = @ \o [k \in DOMAIN groups |->
                                   [NewTrack(groups[k].channel) EXCEPT !.events = songToLines(Part(k))]]],
                            asked \o [k \in DOMAIN groups |-> Want(k)])
            /\ UNCHANGED <<kit, midi>>

Made(file, which) == [file |-> file, of |-> [k \in 1..Cardinality(which) |->
                                              song.tracks[SetToSortSeq(which, <)[k]]]]

midipro_export_midi ==
    \E which \in {Indices} \cup {{t} : t \in Indices} :
        midi' = Made(projectToSmf(song, which), which) /\ UNCHANGED <<song, kit, asked, count>>

\* The program opens the project and exports it.
ExportMidi == midi' = Made(save(song), Indices) /\ UNCHANGED <<song, kit, asked, count>>

\* The program opens a MIDI file in place of its song, and the song is saved.  A chunk
\* with several channels would keep them, which the events here cannot.
OpenMidi ==
    /\ midi.file.format <= 1 /\ ~midi.file.smpte
    /\ \A c \in DOMAIN midi.file.chunks : /\ ~Statusless(midi.file.chunks[c])
                                         /\ Cardinality(ChannelsOf(midi.file.chunks[c])) =< 1
    /\ LET new == load(midi.file)
           had == [t \in DOMAIN new.tracks |-> [channel |-> new.tracks[t].channel,
                                                events |-> new.tracks[t].events, plugins |-> <<>>]]
       IN  Change([new EXCEPT !.tracks = had], [t \in DOMAIN had |-> {}])
    /\ UNCHANGED <<kit, midi>>

TakeForeign ==
    \E file \in Foreign : midi' = [file |-> file, of |-> <<>>] /\ UNCHANGED <<song, kit, asked, count>>

------------------------------------------------------------------------------
Init ==
    /\ song \in Songs /\ asked = [t \in Indices |-> {}]
    /\ kit = <<>> /\ midi = [file |-> save(song), of |-> song.tracks] /\ count = 0

Next ==
    \/ midipro_create_project \/ midipro_add_track \/ midipro_add({<<n>> : n \in Notes}) \/ midipro_add(ChordsToAdd)
    \/ midipro_add(DrumsToAdd) \/ midipro_set_tempo \/ midipro_set_instrument
    \/ midipro_add_effect \/ midipro_set_drumkit \/ midipro_import_midi
    \/ midipro_export_midi \/ ExportMidi \/ OpenMidi \/ TakeForeign

Spec == Init /\ [][Next]_vars

------------------------------------------------------------------------------
(***************************************************************************)
(* Properties.                                                              *)
(***************************************************************************)
\* Whether a pitch sounds after everything up to a tick has been sent.
Sounds(events, note, tick) ==
    LET sent == {i \in DOMAIN events : events[i].tick <= tick /\ events[i].note = note /\ IsNote(events[i])}
    IN  sent # {} /\ events[Max(sent)].kind = "on"

Apart(n, m) == n.note # m.note \/ (m.len > 0 /\ (n.start + n.len <= m.start \/ m.start + m.len <= n.start))

\* A note that no other note of its pitch overlaps sounds for as long as was asked, in
\* whichever order the notes came.
NotesSoundAsAsked ==
    \A t \in Indices : \A n \in asked[t] :
        (n.len > 0 /\ \A m \in asked[t] \ {n} : Apart(n, m)) =>
            \A tick \in n.start..(n.start + n.len) :
                Sounds(song.tracks[t].events, n.note, tick) <=>
                    \/ tick < n.start + n.len
                    \/ \E m \in asked[t] : m.note = n.note /\ m.start = tick

\* The program reads out of a MIDI file what either of the two has put into it.
FilesCarryTheSong ==
    LET full == SelectSeq(midi.of, LAMBDA t : t.events # <<>>)
        back == load(midi.file).tracks
    IN  midi.of # <<>> =>
            /\ Len(back) = Len(full)
            /\ \A k \in DOMAIN full : /\ back[k].channel = full[k].channel
                                      /\ ByTick(back[k].events) = ByTick(full[k].events)

\* Two drums share a sample only where one of them has no other that is not in use.
DrumsHaveTheirOwnSample ==
    \A m, n \in DOMAIN kit : m # n /\ kit[m] = kit[n] =>
        \E x \in {m, n} : ToSet(KitCandidates(Library, DOMAIN kit, Bucket(x))) \subseteq Range(kit)
==============================================================================

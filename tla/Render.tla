-------------------------------- MODULE Render --------------------------------
(***************************************************************************)
(* What a sound passes on its way out: the fader of its channel, the       *)
(* effect chain of its bus, the master.  renderBlock mixes instruments,    *)
(* drum samples and audio clips onto the buses, runs the chains and sums.  *)
(* Freezing a track bakes its instrument into a clip that is played in its *)
(* place; an export renders the song, or each track's bus, off line.  The  *)
(* faders, the clip list and the frozen buses are what the GUI's last      *)
(* frame sent, and a bake changes them until the next.  A sound stands for *)
(* all of a track's notes, or for one clip.                                *)
(***************************************************************************)
EXTENDS Integers, FiniteSets

CONSTANTS Tracks,    \* positions in the track list
          Buses,     \* MIDI channels in use, each with its bus
          DrumBus,   \* channel 10
          Setups     \* what may be loaded: records of plays

RenderAssumption ==
    /\ Tracks \subseteq Nat /\ IsFiniteSet(Tracks) /\ {"none", "master"} \cap Buses = {}
    /\ Setups \subseteq [own : SUBSET Buses, global : {"none", "master"} \cup Buses,
                         samples : BOOLEAN, automated : BOOLEAN]

VARIABLES
    channel,         \* per track
    midi, audio,     \* tracks with notes, tracks with an imported clip
    plays,           \* who plays: buses with an instrument of their own, the global
                     \* instrument's place, whether drum samples are set, automation
    sends,           \* tracks whose send knob is up
    muted, frozen,   \* tracks
    bounce,          \* per track, what its frozen clip holds
    gain, m_busSend, m_busFrozen, m_mixClips,  \* the engine
    synced,          \* a frame has run since the last change
    files,           \* what the last step exported: the mix, the stems, the reverb's stem
    live             \* history: per track, how its notes sounded before it was frozen

song == <<channel, midi, audio, plays, sends>>
vars == <<song, muted, frozen, bounce, gain, m_busSend, m_busFrozen, m_mixClips, synced, files, live>>

Sound == [track : Tracks, kind : {"midi", "audio"}, fader : 0 .. 2, chain : 0 .. 2]
Raw(t, kind) == [track |-> t, kind |-> kind, fader |-> 0, chain |-> 0]
Faded(s) == [s EXCEPT !.fader = @ + 1]
Chained(s) == [s EXCEPT !.chain = @ + 1]

-----------------------------------------------------------------------------
(* What a frame of the GUI sends. *)

OnBus(b) == {t \in Tracks : channel[t] = b}
Last(S) == CHOOSE t \in S : \A u \in S : u <= t

\* Several tracks on one channel: the last one's fader and send win.
Fader(b, silent) == IF OnBus(b) = {} THEN "fader"
                    ELSE IF Last(OnBus(b)) \in silent THEN "off" ELSE "fader"
Send(b) == OnBus(b) # {} /\ Last(OnBus(b)) \in sends \ muted

\* rebuildAudioMix: every clip with its track's fader, and with its mute as a flag.
Clips == [sound : {Raw(t, "audio") : t \in audio} \cup UNION {bounce[t] : t \in Tracks},
          muted : BOOLEAN]
rebuildAudioMix == {c \in Clips : c.muted = (c.sound.track \in muted)}

\* A bus sleeps when it has tracks and every one of them is frozen.
Asleep(b) == OnBus(b) # {} /\ OnBus(b) \subseteq frozen

-----------------------------------------------------------------------------
(* renderBlock. *)

\* Where the notes of a track are played: its own instrument, the global one, the synthesizer.
Player(t) == IF channel[t] = DrumBus /\ plays.samples THEN "sample"
             ELSE IF channel[t] \in plays.own THEN "own"
             ELSE IF plays.global # "none" THEN "global" ELSE "synth"

PlaceOf(t) == IF Player(t) = "global" THEN plays.global ELSE channel[t]

\* An instrument is scaled by the gain of the bus, the synthesizer by its own of the channel;
\* a drum sample and an instrument that plays to the master directly are not.
Scaled(t, gains) ==
    LET g == IF Player(t) = "synth" THEN gains.synth[channel[t]] ELSE gains.bus[PlaceOf(t)]
    IN  IF Player(t) = "sample" \/ PlaceOf(t) \notin Buses \/ g = "unity" THEN {Raw(t, "midi")}
        ELSE IF g = "off" THEN {} ELSE {Faded(Raw(t, "midi"))}

NotesAt(place, notes, gains) ==
    UNION {Scaled(t, gains) : t \in {u \in notes :
        /\ PlaceOf(u) = place
        /\ ~(Player(u) = "own" /\ m_busFrozen[channel[u]])}}

ClipsAt(b, mix) == {Faded(c.sound) : c \in {d \in mix : ~d.muted /\ channel[d.sound.track] = b}}

\* The bus before its chain, and after it.
PreFx(b, notes, gains, mix) == NotesAt(b, notes, gains) \cup ClipsAt(b, mix)
PostFx(b, notes, gains, mix) == {Chained(s) : s \in PreFx(b, notes, gains, mix)}

\* sumBusesToMaster.
Master(notes, gains, mix) ==
    UNION {PostFx(b, notes, gains, mix) : b \in Buses} \cup NotesAt("master", notes, gains)

\* processSendReturn: what the shared reverb gets.
Return(notes, gains, mix) ==
    UNION {PostFx(b, notes, gains, mix) : b \in {c \in Buses : m_busSend[c]}}

-----------------------------------------------------------------------------
(* The GUI. *)

Nothing == [mix |-> {}, stems |-> [t \in Tracks |-> {}], reverb |-> {}]

Init == /\ channel \in [Tracks -> Buses]
        /\ midi \in SUBSET Tracks \ {{}} /\ audio \in SUBSET Tracks
        /\ plays \in Setups
        /\ sends \in {{}, Tracks}
        /\ muted = {} /\ frozen = {}
        /\ bounce = [t \in Tracks |-> {}]
        /\ gain = [b \in Buses |-> "fader"]
        /\ m_busSend = [b \in Buses |-> FALSE]
        /\ m_busFrozen = [b \in Buses |-> FALSE]
        /\ m_mixClips = {} /\ synced = FALSE
        /\ files = Nothing /\ live = [t \in Tracks |-> {}]

\* applyTransportState, in every frame.
Frame ==
    /\ ~synced
    /\ synced' = TRUE
    /\ gain' = [b \in Buses |-> IF OnBus(b) = {} THEN gain[b] ELSE Fader(b, muted)]
    /\ m_busSend' = [b \in Buses |-> Send(b)]
    /\ m_busFrozen' = [b \in Buses |-> Asleep(b)]
    /\ m_mixClips' = rebuildAudioMix
    /\ files' = Nothing
    /\ UNCHANGED <<song, muted, frozen, bounce, live>>

Mute(t) ==
    /\ synced
    /\ muted' = IF t \in muted THEN muted \ {t} ELSE muted \cup {t}
    /\ synced' = FALSE
    /\ files' = Nothing
    /\ UNCHANGED <<song, frozen, bounce, gain, m_busSend, m_busFrozen, m_mixClips, live>>

AllAre(g) == [b \in Buses |-> g]

\* The gains of an off-line render: beginOfflineRender has prepared the synthesizer, and
\* only a fader that differs from the last one sent is sent to it again.
Offline(g) == [bus |-> g, synth |-> [b \in Buses |-> IF g[b] = gain[b] THEN "unity" ELSE g[b]]]

\* How the notes of a track sound with its fader up.
Heard(t) == LET up == [bus |-> AllAre("fader"), synth |-> AllAre("fader")]
            IN  UNION {PostFx(b, {t}, up, {}) : b \in Buses} \cup NotesAt("master", {t}, up)

\* The bake takes the track's bus before its chain, at unity gain and without clips.
Baked(t) == PreFx(channel[t], {t}, Offline([gain EXCEPT ![channel[t]] = "unity"]), {})

freezeTrack(t) ==
    /\ synced /\ t \in midi \ frozen
    /\ bounce' = [bounce EXCEPT ![t] = Baked(t)]
    /\ live' = [live EXCEPT ![t] = Heard(t)]
    /\ frozen' = frozen \cup {t}
    /\ gain' = [gain EXCEPT ![channel[t]] = "unity"]
    /\ m_mixClips' = {} /\ synced' = FALSE
    /\ files' = Nothing
    /\ UNCHANGED <<song, muted, m_busSend, m_busFrozen>>

unfreezeTrack(t) ==
    /\ synced /\ t \in frozen
    /\ bounce' = [bounce EXCEPT ![t] = {}]
    /\ live' = [live EXCEPT ![t] = {}]
    /\ frozen' = frozen \ {t}
    /\ synced' = FALSE
    /\ files' = Nothing
    /\ UNCHANGED <<song, muted, gain, m_busSend, m_busFrozen, m_mixClips>>

Played == midi \ frozen

\* The faders of an export: those of the last frame, or, when a curve moves one, all of them
\* anew with the track that is rendered taken as not muted.
ExportGains(rendered) ==
    IF ~plays.automated THEN gain
    ELSE [b \in Buses |-> IF OnBus(b) = {} THEN gain[b] ELSE Fader(b, muted \ rendered)]

ExportMaster ==
    /\ synced /\ Played \cup audio \cup frozen # {}
    /\ files' = [Nothing EXCEPT !.mix = Master(Played \ muted, Offline(ExportGains({})), m_mixClips)]
    /\ gain' = ExportGains({}) /\ synced' = FALSE
    /\ UNCHANGED <<song, muted, frozen, bounce, m_busSend, m_busFrozen, m_mixClips, live>>

HasContent(t) == t \in Played \cup audio \/ bounce[t] # {}
\* (defect: an export of stems takes the MIDI of frozen tracks as well)
FrozenNotesToo(t) == PostFx(channel[t], {t} \cap midi, Offline(ExportGains({t})), m_mixClips)

Stem(t) == PostFx(channel[t], {t} \cap Played, Offline(ExportGains({t})), m_mixClips)

\* Every track that is not muted, one after another, and the reverb when one sends to it.
ExportStems ==
    LET rendered == {t \in Tracks \ muted : HasContent(t)}
    IN  /\ synced /\ rendered # {}
        /\ files' = [Nothing EXCEPT
               !.stems = [t \in Tracks |-> IF t \in rendered THEN Stem(t) ELSE {}],
               !.reverb = IF sends \subseteq muted THEN {}
                          ELSE Return(Played \ muted, Offline(ExportGains({})), m_mixClips)]
        /\ gain' = ExportGains({Last(rendered)}) /\ synced' = FALSE
        /\ UNCHANGED <<song, muted, frozen, bounce, m_busSend, m_busFrozen, m_mixClips, live>>

\* The selected track, muted or not.
ExportSelected(t) ==
    /\ synced /\ HasContent(t)
    /\ files' = [Nothing EXCEPT !.stems[t] = Stem(t)]
    /\ gain' = ExportGains({t}) /\ synced' = FALSE
    /\ UNCHANGED <<song, muted, frozen, bounce, m_busSend, m_busFrozen, m_mixClips, live>>

Next == \/ Frame \/ ExportMaster \/ ExportStems
        \/ \E t \in Tracks : Mute(t) \/ freezeTrack(t) \/ unfreezeTrack(t) \/ ExportSelected(t)

Spec == Init /\ [][Next]_vars

-----------------------------------------------------------------------------
(* Properties. *)

\* Every variable keeps its shape.
RenderTypeOK ==
    /\ muted \subseteq Tracks /\ frozen \subseteq midi
    /\ \A t \in Tracks : bounce[t] \subseteq Sound /\ (bounce[t] # {} => t \in frozen)
    /\ gain \in [Buses -> {"off", "fader", "unity"}]

\* A track that its own instrument or the synthesizer plays sounds the same frozen as it did
\* with its fader in force: through fader and chain once, not twice and not never.
FrozenSoundsTheSame ==
    \A t \in frozen \ muted : synced /\ Player(t) \in {"own", "synth"} =>
        LET clips == {s \in Master({}, Offline(gain), m_mixClips) : s.track = t /\ s.kind = "midi"}
        IN  clips = live[t] /\ clips # {}

\* With a channel for each track, and no global instrument, the stems hold what the mix
\* holds, every sound in one stem and at the same level.
StemsAreTheMix ==
    [][ExportStems /\ plays.global = "none" /\ Cardinality({channel[t] : t \in Tracks}) = Cardinality(Tracks)
          => /\ UNION {files.stems[t] : t \in Tracks}' = Master(Played \ muted, Offline(gain), m_mixClips)
             /\ \A t, u \in Tracks : t # u => (files.stems[t] \cap files.stems[u])' = {}]_vars

\* "The selected track is rendered even if it is muted", says the comment in runOfflineExport.
SelectedStemSounds ==
    [][\A t \in Tracks : ExportSelected(t) /\ t \in Played /\ Player(t) # "global"
          /\ OnBus(channel[t]) = {t} => \E s \in files'.stems[t] : s.track = t /\ s.kind = "midi"]_vars

\* "It takes the track's bus, so volume, EQ and FX apply", says IAudioClips.h of drum samples.
VolumeReachesSamples ==
    \A s \in files.mix : s.kind = "midi" /\ Player(s.track) = "sample" => s.fader = 1
===============================================================================

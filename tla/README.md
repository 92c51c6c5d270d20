# MidiPro: a formal model

MidiPro is a MIDI and audio workstation for Windows: a sequencer with piano roll, drum and string
editors, a built-in synthesizer, a VST3 host, audio recording and arranging, a practice mode, a
named pipe through which external tools drive the running program, and a server through which an
assistant edits its project files. These modules model the state the program keeps and every
operation that changes it, from the lock-free queue in front of the audio callback to an undo in
the middle of a drag. TLC checks them on small instances, and TLAPS proves the safety of
the queue, the pipe, the streams, the mixer, playback, everything that sounds or comes in, the
arranger's copies and indices, a session and its files, and the assistant's server for every
instance.

Paths below are relative to the application's source directory; `mcp/` is beside it.

## 1. Inventory

### Threads and processes

| who | what it runs | what it shares |
| --- | --- | --- |
| UI thread | every panel, `App::run`, `ControlServer::poll`, `RtAudioEngine`'s control functions, `Player::play`, `stop` and setters | everything below |
| playback thread | `Player::run`, from `play` to the end of the song | the player's atomics; `pushEvent` |
| MIDI driver callback | `RtMidiDevice` input: pushes what arrives into a queue of its own | that queue |
| audio callback | `rtCallback` (WASAPI output) or `asioCallback` (ASIO duplex): `renderBlock` | the event queue, synthesizer, plug-ins, clips, recording chunks, `m_inTap` |
| WASAPI input callback | recorder, pitch-detector tap, monitor ring | recording chunks, `m_inTap` |
| pipe thread | `ControlServer::threadMain` | the mailbox under `m_mutex`, `m_run` |
| `midipro-mcp` | one tool of the assistant at a time | project files, `session.lock`, `recent.txt`, the pipe |

### Components

**The engine's queue** (`core/SpscQueue`, `RtAudioEngine::pushEvent`). A ring with a power-of-two
number of slots, two atomic indices, one producer and one consumer. UI thread, playback thread and
driver callback are all producers, so `pushEvent` takes a mutex around `push` and counts what the
ring refuses. *Correct*: no race on a slot; what `pop` yields is what `push` accepted, in order,
once; a push fails only when no room is known.

**Control pipe** (`gui/ControlServer`). A mailbox of one request, `m_run`, the pipe. The thread
posts a line and waits five seconds; `poll` executes it in a frame of the UI thread; `stop` must get
the thread out of three blocking calls. *Correct*: an answer belongs to its request, a command
reported as failed does not run later, order is kept, a client is not left waiting, `stop` returns.

**Audio streams** (`audio/RtAudioEngine`). Which of three streams are open, rate and block size,
devices, what each plug-in was set up for. Every driver call may fail. *Correct*: one callback at a
time, plug-ins changed only while there is none and set up for the stream that runs them, what was
suspended restored.

**Mixer to synthesizer.** The GUI sends the mixer every frame; `setChannelMix` suppresses what did
not change; the queue may refuse; `Synth::prepare` resets. *Correct*: what is heard is shown.

**Sound in the callback.** The voice pool of `Synth`; `renderBlock`'s choice of who plays a note and
`Vst3Host`'s list of events and table of sounding notes; one-shot slots; the clips' position; buses,
faders, chains, freezing and exports. *Correct*: no hanging and no stolen-from-the-wrong note, blocks
that join, stems that hold what the mix holds.

**A plug-in and its host** (`vst/Vst3Host`). Seven places where building one may be refused, new
setups, an editor window, patches in files. *Correct*: every call finds the plug-in in a state that
allows it; what was built is taken down; a damaged patch never reaches it in part.

**Input.** Recording in chunks published ahead of the callback; the tap ring of the practice mode;
the driver's queue, soft thru, the computer keyboard and the output router; MIDI Learn, knobs and
presets; the words of MIDI 2.0. *Correct*: a take is what came in; a key that sounds has somebody
who will end it; the synthesizer has what the panel shows.

**Playback** (`sequencer/Player`, transport commands). A snapshot of the song, the position, the
loop and count-in, the metronome; audio clips and takes that follow from frame to frame. *Correct*:
what sounds fits the position, no event is skipped or repeated, playback ends, clips and takes lie
where the player is.

**Editing.** `Track` (a flat list of events, clips that own notes), the piano roll and note
commands, audio clips shared by every copy of the song, the arranger with sections, `UndoHistory`
and the version tree; the drum window with patterns and samples; the string editor with hints.
*Correct*: notes stay paired, an edit touches what it names, one undo takes back one gesture, copies
are deep, indices follow what they name.

**Song, plug-ins, files.** The song's plug-in lists against the engine's chains; a session with its
project file, side files, automatic copy and lock; MIDI files. *Correct*: chains follow lists, a
finished save gives back the work, whatever failed or died.

**Practice** (`gui/PanelsGuitarTab`). A judge and a calibration over the tap ring and the player's
head. *Correct*: every event that passed in time is judged, once; only a whole measurement counts. Scores
come in from a PDF or a pasted text, a practice track for each part, found again by a tag.
*Correct*: a part is in its track and on the strings it names, once, and nothing else is lost.

**`midipro-mcp`.** Reads, edits and replaces project files that the program may have open.
*Correct*: nothing is lost unseen, what a tool was asked for is what the file holds.

**Left out**: drawing, theme, dialogs, PDF recognition, codecs, signal processing, plug-in scanning
and vendored libraries; section 8 gives the reasons and PROJECT.json lists each.

### Interactions

`Player` -> `RtAudioEngine::send` -> `SpscQueue` -> `renderBlock` -> `Synth`, `Vst3Host`.
`RtMidiDevice` -> `Panels` -> `MidiOutputRouter` -> engine or port; the same messages -> recording.
`Panels` -> `setChannelMix` -> `SpscQueue` -> gains of synthesizer and buses.
Transport commands -> `Player`, `startAudio`/`seekAudio`, recorder; `applyTransportState` back.
`Panels`, `App` -> stream operations -> `reconfigurePlugins`, `Synth::prepare`, `Vst3Host`.
Editors -> `Track` -> `UndoHistory`; `App` -> `Project` -> files <- `midipro-mcp` -> pipe -> `App`.

What makes these hard: three threads at the queue and none allowed to block the fourth; a time-out
racing a late result; a shutdown that has to wake a thread blocked in the kernel; drivers and
plug-ins that refuse at any of several steps; state cached at one end and reset at the other; a
position that jumps back while something is scheduled at a later one; gestures that last over
frames in which anything else may happen; two programs writing one file; a crash between two
writes. `hazards` in PROJECT.json lists them at their lines.

## 2. Plan

| order | modules | question | status |
| --- | --- | --- | --- |
| 1 | `EventFifo`, `SpscQueue` | is the ring a bounded FIFO under three threads and stale loads? | checked, proved |
| 2 | `ControlServer` | time-outs, late results, shutdown | checked, safety proved |
| 3 | `AudioStreams` | sequences of device and plug-in operations with failures | checked, safety proved |
| 4 | `ChannelMix`, `Player` | cache against queue and reset; seek, loop, count-in, metronome | checked, safety proved |
| 5 | `Voices`, `PluginNotes`, `OneShots`, `ClipClock`, `Render`, `PluginHost` | the engine's sound | checked, safety proved |
| 6 | `Recording`, `InputTap`, `MidiIO`, `Knobs`, `Ump` | the engine's and the panels' input | checked, safety proved |
| 7 | `Track`, `NoteEditor`, `AudioClips`, `Arranger`, `UndoHistory` | editing and undo | checked; `Arranger`'s copies and indices, `NoteEditor`'s undo proved |
| 8 | `Transport`, `PluginChains`, `Session` | the application around engine and song | checked, safety proved |
| 9 | `McpServer`, `SongTools` | the assistant's server and MIDI files | checked; `McpServer` proved |
| 10 | `Drums`, `DrumSamples`, `StringEditor`, `Practice`, `TabImport` | the remaining windows | checked; undo of an import proved |
| 11 | `Drums`, `DrumSamples` | `DrumsPlayAsDrawn` for any values: `MCApp` needs constants of its own for them, as it has for the transport and the plug-ins | next |
| 12 | `UndoHistory`, `Track`, `AudioClips` | undo and redo are inverse for every depth; `NotesArePaired` and `EditsKeepTheSound`, whose folds `Recursion` brings within reach | next |

Compositions: `SpscQueue` implements `EventFifo`, and `ChannelMix` uses a bounded FIFO in its place;
`NoteEditor`, `Drums`, `StringEditor` and `TabImport` are built from `Track` and `UndoHistory`; `Arranger` from
`AudioClips`, `Track` and `UndoHistory`; the proofs about it instantiate `Recursion` once for each
loop; `Transport` uses what `Player` promises; `McpServer` puts
server and program over one disk.

## 3. Modules

Every module's header says which code it models. What follows is how its state and its actions
correspond to that code, and what was abstracted.

### Queue, pipe, streams, mixer

**EventFifo** is what users of the queue rely on: a bounded channel in which a producer spends a
credit for an event, credits come back some time after the consumer took one, and only a producer
without credit drops. **SpscQueue** is `push` and `pop` with one action per atomic or plain access
(`PushBegin`, `PushChecked`/`PushRefused`, `PushWrite`, `PushPublish`; `PopChecked`/`PopEmpty`,
`PopRead`, `PopPublish`) and `pushEvent`'s mutex and drop counter around them. An acquire load may
return any value of the other side's index between the newest this side has seen (`headSeen`,
`tailSeen`) and the newest there is (`MayLoad`): coherence and the mutex leave that open.
`accepted` and `delivered` are history.

**ControlServer** has one action per atomic section of `threadMain`, `poll` and `stop`; every
lock/unlock block is one action, every blocking call one with the guard that ends it. `pipe` is who
owns the pipe's name in the system, `peer` our pipe's other end. Clients connect, write lines
without waiting and leave at any time; another instance of the program may create the pipe whenever
the name is free. A line is a number; its result is the same number; `Busy` is the time-out's
answer. External: pipe semantics, as the code relies on them.

**AudioStreams** keeps the engine's fields in one record, and each C++ function is an operator from
an engine to the set of engines it may leave behind, because every call to a driver may fail and a
driver chooses its block size. Compositions are as in the code: `StartAsio` uses `StopAsio`,
`OpenAsio`, `OpenPort`, `ReconfigurePlugins`. A plug-in is what it was last set up for. `upc` is
"edit" or "render" between `suspendStreams` and `resumeStreams`. `Refusing` names drivers that may
be gone or refuse at every point the code tests; `Stubborn` plug-ins reject a new setup.

**ChannelMix**: `fader` is the mixer, `m_lastCh` the cache, `queue` the events under way (notes
included, for the room they take), `m_ch` the synthesizer's gains, `m_busGain` the buses'.
`SetChannelMix` compares, stores and pushes, as in the code, without looking at what `pushEvent`
answers. `Prepare` is called wherever the code does.

### Sound

**Voices** is the pool of `Synth`: note on with stealing, note off, bends per channel and per note,
percussion, voices that end. **PluginNotes** is the way of a note through `renderBlock`: `Route`
looks up who plays a channel, `addNote` fills a plug-in's list of limited size and its
`activeNote`, `Process` plays the lists of every plug-in whose bus is not frozen, `AllNotesOff`
empties what the tables know. **PluginHost** is the life of one plug-in: `Load`, `Instantiate` with
every refusal, `Reconfigure`, the editor, `SaveState` and `LoadState` with a file that may be
damaged between, `Process`. An operation is written as the calls it makes on the plug-in, and each
call is judged by what the VST3 life cycle allows then (`Allows`), as the SDK's comments put it: a
component that refused `initialize` is not initialised, and only an active one is stopped.
`teardownPlugin` makes its calls in each case; those on a plug-in that was refused which it does not
allow are collected in `spurned`, and the property names the three there can be. All others have to
be allowed. A patch is a number and a section of a file one byte; `getState` of the component is
taken to succeed, and so is `initialize` of a separate controller, whose answer the host does not
look at (`Vst3Host.cpp:246`). A second `initialize` of a component that is its own controller is
allowed, and the SDK's table of states for `setActive` and `activateBus` is not judged. The host drops what
the window reports (`performEdit`), so a turned knob reaches the component only where the two are one
object or connected (`Turn`).

**OneShots** is a set of slots for clicks or drum samples. **ClipClock** has the loads and stores of
`mixAudioClips` as steps of their own against `startAudio`, `stopAudio`, `seekAudio` and a new list
of clips. **Render** is which sounds pass which fader and which chain: a sound stands for all notes
of a track or for one clip, a mix is a set of sounds with the faders they passed; freezing, bounce
and the four exports compare such sets.

### Input

**Recording**: the callback's `BlockBegin`, the load of the count and the store per sample, against
`startRecording`, `pumpRecording`, `stopRecording`. A store into a freed chunk goes nowhere (in the
program it is undefined).

**InputTap**: the ring, its wrapping counter, and a copy sample by sample.
**MidiIO**: driver's queue and its poll, soft thru, computer keyboard, notes that end by
themselves, the router; each message's handling is one action with everything it calls. Times are
left out. **Knobs**: mapping, MIDI Learn, sliders, presets and files; a float is what six digits
show plus what they lose. **Ump**: the words of MIDI 2.0 and the bytes of MIDI 1.0 as operators,
without state; checked over all messages of a small set.

**Practice** is the guitar window's judge frame by frame: `Frame` (laps and seeks guessed from the
head, the stretch of input since the last frame, verdicts, the automatic offset), the choice of
loop, track and offset, and the calibration with its clicks. What `PitchDetect.h` hears is any time
in the stretch or nothing. A tick is a millisecond.

### Playback

**Player**: the UI thread's actions are `play`, `stop` and the setters; the playback thread's are the
steps of one iteration: `Tick`, the separate loads of the loop's ends, `Wrap` and `Rewind` or `Pass`,
`Send` per event, `EndIteration`, `Exit`. `setLoop` is three actions, for its three stores. An
iteration takes any number of `Steps`, which covers tempo, sleep jitter and overslept iterations;
positions saturate at `MaxTick`; the snapshot is a sorted list on one channel; a click is heard or
not; relaxed stores are taken in program order. `lap` is history.

**Transport** composes the user's commands (keys, buttons, timeline, pipe) with `Player` reduced to
what the GUI reads of it, the clips' position and the capture of a take. Handlers call one another,
so each is an operator on the transport. A frame is a tick, and a lap is seen only if it is longer
than the frame's jump.

### Editing

**Track** is `Track.cpp`: the list of events, adding, removing, sorting, pairing, ranges, clips and
the notes they own. **UndoHistory** is the two stacks with their depth. **NoteEditor** is one action
per command and per phase of a gesture (press, drag, release) over `Track` and `UndoHistory`, MIDI
recording and check-in and check-out of versions. **AudioClips** and **Arranger**: clip objects live in `heap` and a track
lists their numbers, because the song's copies share them; each command of the track view,
the arranger and the transport panel is an action. `born` is the last name given to a track, which
no field of the program holds. **Drums** and **StringEditor** have the same form
for their windows; where the mouse is, is an input. The drum window works on the notes of the frame's
start, which are the track's, because every edit there changes the stamp the cache compares.
**DrumSamples** keeps what the engine plays, what the song lists and what the disk has. What the
user assigns is a file of his own or the library's, none of which has the name of a package's
numbered copy (`DrumSamplesAssumption`; section 4 has what is lost otherwise).
**TabImport** is the list of practice tracks and the import window. `box` is the window's text and
the PDF behind it, `last` the range it remembers; `Import` is the button with all it calls, from the
choice of tracks (`WithTargets`) to the notes put into each (`Filled`), and `ParseAsciiTab` reads a
text character by character. What a PDF holds is given. `imported` is history: what came in.

### Application and server

**PluginChains** has both sides of a plug-in: the song's list and the engine's chain. **Session** is
saving text and sound file by sound file, opening, automatic copies, the lock, with a write that
fails or a crash between any two. A clip object that was read is known by its file, one that was
made by the edit that made it, where the program has addresses; `Names` is `buildClipNames`, by the
first place at which a clip lies, and `Loaded` is `load`. **McpServer** has each step of a tool (read, backup, temporary
file, rename) and of the program over the same files, and either's death. A text remembers whether
the server wrote it without a warning (`quiet`), and whether the program had come by the file between
the guard and the rename (`raced`): that race the code loses, and the property leaves it out by name
(section 4). **SongTools** is what the
tools write: notes, drums, plug-ins, tempi, and MIDI files of server and program.

## 4. Runs

A component that shares no state with another is checked beside it: an MC module instantiates the
parts, a behaviour chooses one at its start and takes only its steps, and each property names the
parts it is about. The state space is the sum of the parts, not their product.

| run | parts and bounds | what it shows |
| --- | --- | --- |
| `spsc_queue` | ring of 4 slots (3 usable), 2 producers, 6 pushes: fills, refuses, wraps, stale loads on both sides. 2 faders, 2 mixes, a queue of 2 with notes. 2 WASAPI outputs with different rates, 2 ASIO drivers, 2 block sizes, 2 plug-ins; one output and one driver refuse, one plug-in is stubborn | no race, `EventFifo` implemented, every accepted event delivered; a fader that rests reaches its bus; one callback, plug-ins fit and change at rest, suspended streams restored |
| `control_server` | 3 requests, 2 connections: one abandoned, one late, one next; stop and a second instance anywhere. 2 project files, 2 edits, 1 fault of server and program. 2 edits of a project by the tools | answers match, order, cancelled never runs, a waiting client is answered, `stop` returns once the thread listens; nothing is overwritten unseen; files hold what was asked |
| `player` | 6 events with a note across a loop's end and an instrument in the middle, 2 loops, counted in or not, steps of 1 and 3 ticks | what sounds and which instrument plays fit the position; nothing due is unsent; a rewound head is never seen without its count-in; playback ends |
| `engine` | 10 parts: 2 voices and 4 notes; lists of 2 events; takes through chunks of 2 samples; a counter of 16 positions over a ring of 4; 3 slots; blocks of 2 frames; 2 tracks in every setup; a driver's queue of 4 with 2 messages a frame; 2 parameters and knobs; one plug-in of 4 kinds | the properties of `Voices`, `PluginNotes`, `PluginHost`, `MidiIO`, `Knobs`, `Ump`, `Recording`, `InputTap`, `OneShots`, `ClipClock`, `Render` |
| `editors` | any 4 steps over stacked and clip-owned notes; any 3 commands over overlapping clips, a MIDI clip, markers and versions; any 4 commands over practice tracks with a score of 2 parts, one of 1 part and a text tab | pairing, edits that touch what they name, undo of whole gestures; deep copies, cutting, joining and freezing leave the sound, indices that follow; a score is in its tracks and on its strings however often it comes in |
| `app` | 8 parts: metronome; 4 transport commands, 2 loops; 4 edits of 2 tracks' plug-ins; 3 edits, 1 fault of a session; 4 steps in the drum window; 7 with samples; 4 in the string editor; a practice of 5 frames | clips and takes follow the player; chains follow lists; a finished save gives the work back; drums and strings play what is drawn; what passed in time is judged, once |
| `channel_mix_synth` | 1 channel, no notes | **violated**: mixer ignored after a stream reopens |
| `note_editor_shown` | any 4 steps on the track of `editors` | **violated**: undo inside a stroke makes the note cache stale |
| `arrangement` | as `editors`, 3 commands | **violated**: swapping sections takes a clip twice |
| `plugin_order` | as `app` | **violated**: undo of a changed order leaves the chain |
| `score_parts` | as `editors` | **violated**: two parts of a score come into one track |
| `practice_loop` | the practice part of `app` alone (`Parts`): a loop of one bar, two rounds | **violated**: a one-bar loop is judged once |

Why the bounds are enough. Index and slot arithmetic depends on distances only, so four slots meet
every relation, and the proofs cover the rest. `MaxSteps`, `MaxEdits` and `MaxCommands` are one more
than the shortest sequence in which the case a property is about can happen (set up, disturb, undo,
look), and the songs the runs start with are already disturbed: notes stacked, clips overlapping,
plug-ins that will not load. `MaxFaults` is one, a crash or a failed write at any step, since the
code's recovery reads the disk afresh. `MaxTakes` is two where a take may run into the next one.
Rings, queues and lists are smaller than what the behaviour puts in, so each is full at some time.

Deadlock is checked where the program runs for ever: `player` and `channel_mix_synth`. The other
runs stop at the bounds just named, or after `stop` with no client left.

### Findings

The six violated runs state what a comment or the manual says.

* `Synth::prepare` resets gains that the cache in `setChannelMix` then never sends again: after any
  plug-in load or device change a muted synthesizer track sounds until its fader moves.
* `cachedNotes` trusts a stamp that undo restores: a stroke undone while the button is down, then
  another, then a redo, and the track view draws other notes than the track has.
* `applyArrangement` tests clips it has already moved: swapping two sections lists one clip twice.
* Undoing a changed order of effects leaves the engine's chain in the new order.
* The first part of a score whose track is gone goes to the track in view, even if that is the
  second part's: import a score of two parts, delete the first track and import it again, and both
  parts come into one track, the second erasing the first.
* A lap is recognised by a jump of more than 1920 ticks, and the [this bar] loop is exactly that long.

Seen while modelling, each behaviour being in the model and excepted where a property would meet it:

* Streams: a block size set while no stream is open reaches the offline render but not the plug-ins;
  the WASAPI input stays open during an offline render, which reassigns the tap it writes;
  `startAsio` has one early return (no output channels) that skips the recovery the others have;
  `openPort` changes the engine's rate under an input that runs at the old one.
* Pipe: `stop` attaches once, and a thread between `while (m_run)` and `CreateNamedPipeW` is not
  woken by it; between two connections a second instance can take the pipe's name for good.
* Player: an iteration that oversleeps the loop's end skips the lap's last events; a second click
  within an eighth of a beat overwrites the only record of the first.
* Engine: a mix event or parameter the full queue refuses is not sent again; a full plug-in list
  loses a Note Off for which `activeNote` is already clear; a block that saw the flag of an
  earlier take goes on into the next; `pumpRecording` prepares the next two chunks and never the one
  being written, so a GUI thread two chunks late loses the rest of the take
  (`Recording.CurrentChunkKept` states its comment); a seek while the callback is inside a block is overwritten by
  it, against `IAudioClips.h` (`ClipClock.SeekIsKept` states the comment); the selected track's stem
  is silent if it is muted and not automated, against the comment in `runOfflineExport`
  (`Render.SelectedStemSounds`); a drum sample's fader is that of the channel and not of its track
  (`Render.VolumeReachesSamples`).
* Plug-ins: one that is its own controller is initialised and terminated twice, because
  `Vst3Host.cpp:246` compares pointers cast from different bases; a view whose attach was refused
  outlives its frame. A component that refuses `initialize` is deactivated and terminated
  (`Vst3Host.cpp:226` by way of 145-164), where `ipluginbase.h:42-44` has it released and never
  terminated; one that is refused later is told `setProcessing(false)` without ever having been
  active, against `ivstaudioprocessor.h:340`. `performEdit` does nothing (`Vst3Host.cpp:65`), where
  `ivsteditcontroller.h:212` has the host carry the edit to the processor: a plug-in whose window
  and component are not connected plays on as before while its knob shows another value.
* Track indices: the comments at `Panels.cpp:810` and 1012 say that every remembered index is
  remapped. `moveTrackTo` (1028-1037) leaves `selMidiClipTrack` where it was, so that the Delete key
  then removes a clip of another track, and neither it nor `deleteTrack` (841-858) touches
  `practiceTrack`: the practice window drops an index that is no practice track's any more
  (`PanelsGuitarTab.cpp:128`), and takes it for whichever practice track is there now otherwise.
  `IndicesFollowTheirTracks` leaves out those three.
* `midipro-mcp`: `guardProjectOpen` (`mcp/midipro-mcp.mjs:786`) takes a missing session for safe,
  but the rename comes later (198): a program that starts and opens the file in between, and saves
  afterwards, writes over an edit of which nobody was warned. `NoUnseenOverwrite` leaves out texts
  that were put in place after such an opening (`raced`), and claims all others.
* Practice: a seek forward by less than 1.5 s judges notes nobody heard, an edit that keeps the number
  of notes leaves old indices, leaving a calibration half way lets its clicks come in a burst.
* Drums: library paths are written relative to the program and read relative to the project
  (`PanelsDrums.cpp:216` and `App.cpp:655` against `App.cpp:855`). A file whose name is taken in a
  package is copied under one with the drum's number (`App.cpp:700-702`), over whatever has that
  name: export twice, open the package and save it as a project, give the drum another file and
  export again, and the project plays the new file. A file of the user's that is called
  `38_kick.wav` can be lost so within one export. `SamplesComeBack` leaves out numbered copies that
  a project names by absolute path, and `DrumSamplesAssumption` such names.
* Strings: an edit by mouse loses the selection and neither sorts nor adopts (`Track.h:168`); fitting
  octaves leaves the hints.
* Practice import: bare track indices survive the deletion or a move of their track; the range of
  the last import is emptied in every track of the next one, whichever of them it was of.
* Session: the automatic copy compares the project's text, which does not name a clip's sound or a
  plug-in's patch: turning a clip round is not copied, against `App.cpp:1864`
  (`Session.AutosaveTakesChanges` states the comment). A write that fails only when the file is
  flushed or closed is reported as saved (`Project.cpp:542`, `WavFile.cpp:142-143`): the model's
  writes fail where the code can see it, so `WorkIsKept` says nothing of a disk that fills there.
* Manual: `docs/사용법.md:123` says the backing track is not saved; it is.

## 5. Fairness

* `spsc_queue`: the audio callback keeps calling `pop`, and a store becomes visible in finite
  time (strong fairness of a pop that loads the newest tail, since stale loads may come between); a
  thread inside `push` finishes it. Nothing makes a producer push. For the mixer, frames keep coming
  and so do the callbacks of a running stream. Each assumption holds for the part that runs.
* `control_server`: the pipe thread runs, the five seconds elapse, a call of `stop` goes on.
  Nothing is assumed of the UI thread's frames: a modal dialog stops `poll`.
  `StopReturnsOnceListening` assumes that clients leave in the end, since `ReadFile` waits for them.
* `player`: the thread is scheduled, and its clock does not stand still for ever (strong fairness
  of an iteration with a positive step). The join returns once it may.
* The other parts state no liveness: their operations return in one step, fail, or wait for a user.

## 6. Proofs

Every theorem is for all values of the constants, from the named ASSUMEs of its module alone.

**SpscQueueProofs.** `IInv` places the four indices on the ring, from the head the producer has
seen over the real head and the tail the consumer has seen to the real tail (`ViewsInv`): a stale
view errs only on the safe side. It says that only the mutex's holder is inside `push`
(`ProducerInv`), that a consumer past its check has an event (`ConsumerInv`), and that the slots
between head and tail hold exactly what was accepted and not delivered (`RingInv`).
`DeliveredInOrder` alone is not inductive: a slot's content must be tied to `accepted` before it is
read. From it follow `TypeCorrect`, `SlotsNeverRace`, `DeliveryInOrder`, `PushesAccounted` and, step
by step, `RingImplementsFifo`. Lemmas on `Distance` and `Forward` carry the arithmetic.

The module has two more parts, each with an invariant of its own. Of the streams, `Good(e)` is what
every function of the engine keeps: exclusion, monitor, plug-ins that fit. One lemma per function
(`OpenPortGood`, `StopAsioGood`, `OpenAsioGood`, `StartAsioGood`, `SuspendGood`, ...) shows that all
its outcomes, failures included, are good, and those lemmas compose as the functions do.
`StreamsInv` adds that nothing is open between suspension and resumption, and that a remembered ASIO
stream has a driver. Theorems: `StreamsTypeCorrect`, `NeverTwoCallbacks`, `PluginsChangedAtRest`,
`PluginsSetUp`, `MonitorRight`, and `StreamsRestored`, for which `OpenPortOpens` and
`StartAsioStarts` show that what is opened on a driver that does not refuse is open. The mixer's
invariant is inductive as it stands: what a channel's fader was last sent is the newest event of
that channel in the queue (`Sent`, `WillArrive`), or, without one, what the bus has, unless the full
queue dropped it; and the synthesizer agrees with the bus unless `prepare` came between. Theorem:
`MixAlwaysOnItsWay`.

**ControlServerProofs.** `IInv` adds three parts to the properties. `PhaseInv` says who is where.
`MailboxInv` says what numbers mean: a result marked with the number waited for is that of the
line in hand, unless `stop` marked it, and then `m_run` is already false when the thread looks
again. `LinesInv` says that the lines of a connection are, in order, the answered ones, the one in
hand, the buffered and the unread. Theorems: `TypeCorrect`, `AnswersAlwaysMatch`,
`CommandsRunInOrder`, `CancelledCommandsNeverRun`.

The same module has the assistant's server over the project files. Neither side sees the other's memory. `McpInv` says that what the server asked at
the start of a call stays true, or is outdated in a way that the call records (`ToolHasAsked`), that
the program runs only with its lock (`SessionIsLocked`), that its file is on top of the list if it
listed it (`OpenIsOnTop`), that the server is at work on a call or waits for a command and never
both (`OneAtATime`), and that a file whose text was made without a warning, and without the program
having come by it meanwhile, has been read since by the program that has it (`SeesItsFile`). `FileSteps` says what one step may do to a file. The
assumption that `None` is no file's name is that an empty path is none. Theorem: `EditsAlwaysKept`.

**PlaybackProofs** has what a song is played with, the player and the chains of plug-ins. `PlayerInv` joins what is heard to where the last step left position, lap and
index. `CaughtUp` is not inductive without `AheadIsOfLap` (no event before the lap's start is still
to come) and `RewoundToStart`: after a wrap the index is set from the start of the lap, and the next
iteration has to find it right. `SoundingIsHeld` needs `CountInShown`, which holds only from the
clock's step to the end of the iteration, while the UI writes the loop's ends at any step.
`StepsHeard` sorts the steps into the seven that change what is heard and all others. The bound on
ticks is part of the invariant (`WithinBound`), so starts and loops are assumed to lie in it
(`TimesAssumption`): beyond it the model's clock would stand still. `CountsInv` follows the
count-in's beats: the last beat seen is the one the position lies in, and every beat before it was
struck, the first of a bar with its accent, also when the signature changes under way. Its
hypothesis `NoBeatSkipped` is the clock's: an iteration is shorter than half a beat, since a loop that
oversleeps a whole beat cannot strike it. Theorems: `TypeCorrect`, `SoundAlwaysFits`,
`AlwaysCaughtUp`, `ClickOffStaysNear`, `RewindIsShown`, `ClicksAlwaysHeard`.

That the chains are what the song lists (`ListsMatchChains`) is inductive only together with what the
histories mean: a channel that counts as together has one track at most (`Shared(tracks)` lies in
`parted`), a list has at most one instrument (`Lists`), and a file saved whole has in `kept` what its
lists name, with one patch file for each plug-in at its place (`Keeps`, `FileFits`), because the step
that opens it may come at any time. The counting of the panels is a question about sets of places:
`Nth` is the place with so many of the set before it, `NthNames` and `NamesAreNth` say that this
numbers the set in order and that nothing else does. A list fits a chain if its effects can be so
numbered (`RunsBy`, `RunsNames`), and each edit changes the numbering in its way: `EffectAdded`,
`EffectRemoved`, `EffectsSwapped`, `InstrumentAdded`, `RowChanged`, `KnobTurned`. What the tracks of a
channel list is a fold (`Listing`, an instance of `Recursion`); on a channel of one track it is that
track's list (`ListedIs`). `ChainsKeep` has one lemma per action, `OpenedWhole` says that a file
saved whole gives back every patch.

**EngineProofs** has the parts of the `engine` run, each with an invariant of its own. In the pool, a Note Off names a channel and a
key, not a voice. That it reaches the right one rests on `OrdersAreUnique`: each note has a number,
which no other active voice carries. `EnvelopeRuns` says that a melodic voice which plays is held or
released, so that a Note Off finds it. The newest keys sound because the voice that is stolen is
old: `OldestIsOld` counts, by the pigeonhole principle, the notes younger than all voices.
`RecorderInv` has a part that always holds, types and bounds, and a part for a take that no block of
an earlier one disturbs: what was handed over is in order (`CapturedInOrder`), the sample between the
callback's load and its store is the last one (`UnderWay`), the chunks up to the count hold what was
handed over (`TakeSoFar`), and the chunks that `pumpRecording` published reach two beyond where it
last saw the count (`Prepared`). `TapInv` says that the ring holds its newest samples (`RingHolds`),
that counter and remembered position name slots rightly although the counter wraps
(`CounterNamesSlots`, `RememberedIsNamed`; this is where the ring has to divide the word), and that a
trusted copy is as far from being overwritten as the guard leaves it (`CopyIsSafe`). The assumptions
are those the code's constants fulfil: the guard is between one and the ring, the word is a multiple
of the ring. Theorems: `PoolFollowsKeys`, `RecorderTypeCorrect`, `TakesAreKept`, `SpansAreIntact`,
`InputAlwaysKept`. `StepsOfParts` says that a step is one of the chosen part and leaves the others
alone. The other parts:

* PluginNotes: `HeardOnRoute` says that a key is heard where its channel plays now, unless the channel
  changed hands, so that its Note Off goes there. `EachIsActive` and `UpIsSilent` speak of what is
  about to sound (`N!Coming`: playing, then the list), because a Note Off may wait in the list; a
  plug-in that lost an event to a full list is excepted, as in the code's behaviour. `IdleSlots` says
  that an empty slot has nothing to play.
* PluginHost: between operations there is no plug-in and nothing of it (`Vacant`), or it runs as it
  was set up (`AtWork`), and a patch file has a patch of the component. The proof follows each
  operation call by call, through every point where it may give up. `TeardownOf` says
  what a teardown leaves of a component that was initialised, active or not, and which calls it did
  not allow; `NotBuiltOf` says so of one that refused. Nothing stays initialised, and no other call
  than the three named finds a plug-in in a state that does not allow it.
* MidiIO: `OnsAreFollowed` says that a Note On in the driver's queue is of a key that is down, or its
  Note Off is behind it, or was lost. `LiveHasEnder` names for each key that sounds who will end it
  (a key held, a Note Off under way, the screen), without soft thru only the screen: else switching
  it off could leave a key behind.
* Knobs: the newest parameters are the last in the queue or the synthesizer's own (`SynthHears`), and
  files hold a mapping that was one to one and parameters that were written (`FilesHold`).
* Ump: every word is taken apart into groups of four bits and put together again; the lemmas give the
  bounds, `MessagesAgree` the round trips.
* OneShots: each slot plays a note of its own, and a slot's position and the time its note began add
  up to now (`SlotsPlay`), so that the slot that is furthest is of the earliest block.
* ClipClock: the head is behind the last block unless the GUI has put it elsewhere, and a block under
  way stores its own end (`ClipInv`).
* Render: clips, sleeping buses and faders are what the GUI's last frame sent (`SentByFrame`), and a
  frozen clip holds the track's notes before the fader, heard through fader and chain once
  (`BouncesHold`).

Theorems: `PluginsAlwaysServed`, `InputsAlwaysReachTheSynth`, `SamplesAlwaysHeard`,
`RendersAreAlwaysTheMix`. So every property of the `engine` run is
proved for any voices, plug-ins, places, parameters, words, slots, clips, tracks and bounds.

**AppProofs** has the metronome, the transport, the plug-ins and the session of the `app` run. What a frame leaves (`Settled`) is
not inductive: between two frames commands and ticks fall in any order. `Follows` says what holds
then, wherever the song can play undisturbed: the clips are with the player (`Together`), or wait for
the end of a count-in (`Waiting`), or the player has gone back by a lap that the next frame will see
by the position it remembers (`Lapped`). `CountsIn` says that the count-in of a recording waits where
its take begins, and `TakesInv` that a capture is of the recording under way. There is a lemma per
handler that others call (`StopTransportKept`, `StartPlaybackKept`, `SeekToKept`,
`StartAudioRecordingKept`, ...); the frame is followed handler by handler, from `FollowedIsSeen` to
`LapEndedIsLanded`. The metronome's part is `ClicksAlwaysHeard` for a song without notes; that of the plug-ins is `ChainInv`.
Both come from an instance of `PlaybackProofs`, and `SamePlayer` and `SameChains` say that it is the
system which `MCApp` runs.

A finished save is only worth what opening it gives, so `SessionInv` says that about every file at all
times: what a file holds whole is the `Shape` of what `load` would make of it (`WholeIsWhole`), while
the next step may be a crash. A save under way has written the text of the work there is, and the
sound of every clip that is not left to write, under its name (`SaveGoesOn`). The step that finishes
the save needs `RoundTrip`: text and side files of a work give back its `Shape`. That rests on
`NamesAreDistinct`: two objects never have one name, which for the clips that only versions have
means counting (`CountsDiffer`: the counts of an order are different), and on the bookkeeping
of `WorkFits`: no list has an object twice, each version has a place for each of its clips, and an
object that an edit makes is not one there is (`NewClipIsNew`). `LoadedWork` shows that what is read
fits again, whatever side files are missing. There is a lemma per step (`BeginKept`,
`WriteClipKept`, `FinishKept`, `CheckoutKept`, ...).
Theorems: `SoundAlwaysFollows`, `PluginsAlwaysFollow`, `WorkAlwaysKept`.

**ArrangerProofs.** All copies of the song share its clip objects, and any command may move or trim
them. `CopiesOk` says why a copy is worth something all the same: it is of a song whose clips are all
in the heap, and for each of them it wrote down the place that the clip had, while what it did not
write down, the recorded sound and whether it is a bounce, is what the object has today (`Fits`).
The last part is inductive because a command only adds objects and leaves the sound of the old ones
alone (`Grows`): one that reverses or stretches a clip in place would break it. `CopiesOk` says this
of every step of undo and redo (`HistoryOk`) and of every version (`VersionsOk`), and also that no
two tracks of a copy have one name and that all names were given (`IdsDiffer`, `born`), without which
"the same track" means nothing. `EditorOk` is what selections, the clipboard, gestures and
remembered indices may be. Every command is a pass over a world of heap, song and history, and
`Leads` composes such passes: each lemma about one (`WithClipFits`, `InTrackFits`, `TrackRebased`,
`SongPut`, ...) says that it leads from a world that is in order to another one, and each command has a
lemma that puts them together (`MergeTrackClipsOk`, `DeleteClipRangeOk`, `CheckoutVersionOk`, ...).
The loops over tracks, clips, notes and sections (`applyArrangement`, `duplicateSection`, `mergeClips`)
are folds, and each is an instance of `Recursion`. From the invariant follow `TypeCorrect` and
`Deep`. `IndicesFollow` is about steps: `Closed` is where an index goes when a track is
deleted, `Carried` where it goes when one is moved, and `MapFollows` says that a map of indices that
agrees with the map of the tracks names the same tracks. The theorem is about the indices that the
code remaps; section 4 lists the three it leaves behind.

**NoteEditorProofs.** That one undo takes back a gesture is about its end, while what makes it true
happened at its start or in the middle. `UndoInv` says that at rest the song is `rest`, that a
gesture or a recording which took its copy has `rest` on top of the stack, unless something came
between, and that a note's drag, which takes its copy only when the button is let go, has changed
nothing until then. `StepSorted` sorts the actions into
the eight kinds that differ in this, and there is a lemma for each kind (`PressedKeeps`, `StrokedKeeps`,
`ReleasedKeeps`, ...). For the import of a score, `ImportInv` says that what is undone next is the song
from before the import with at most empty tracks behind (`Grown`): the tracks that an import adds each
take a copy on the way, and only the last of these copies is undone. Finding the tracks, tagging and
filling them are loops, each an instance of `Recursion` (`Targeting`, `Labelling`, `Filling`).
Theorems: `UndoIsWhole`, `ImportIsTakenBack`, and both together as the run has them,
`GesturesAreTakenBack`.

**Recursion** is induction over a fold. The library's induction theorems take an operator as a
parameter, which the provers cannot instantiate; a module with constant operators can be
instantiated. `Op` is an iteration, `Inv` says what holds after so many of them, and `FoldInvOf`
says that what holds at the start and is kept by each iteration holds of the result. `FoldExists` shows that
the recursive function behind the fold is there at all.

**What the proofs changed in the models.** `Recording`: a block of a stopped recording that finds
itself beyond the last chunk returns like any other; the model had it write. `McpServer`: a command
under way when the program ended was answered only if no save was in progress, and the server's
five seconds could not run out during one; the code's `readSync` fails and its deadline passes in
both cases (`PipeBreaks`, `TakeAnswer`). `MidiIO` folded over the messages of a call and `Knobs` kept its mappings in a list; both
are sets now (`LeftOn`, `m_mappings`), because no property depends on the order. `Session` numbered
its clip objects anew at each opening and found names in flattened lists; objects are known by their
file now, and names by places (`Precedes`). `ChannelMix` finds the events of a channel by their
positions in the queue (`Sent`). `Arranger` and `Track` went through their lists with tests of the
position; they go through the list of what the loop visits, as the loops of the code do (`Emitted`,
`ClipsLater`, `DoubledTrack`), and `Where` names the tracks a command is about. Joining takes two clips or more,
as its caller makes sure. `NoteEditor` took a gesture for undisturbed when a command came in while a note
was dragged and left a full undo stack as it was, all copies on it being alike; its history variable
sees that command now (`broken`). `TabImport` leaves empty parts out by going through them
(`PartNotes`). `PluginChains` took channels for together again when an undo brought two tracks back on
one of them, which the song's list does not show; `Undo` sees it now. Its loader leaves the slot of
an instrument empty when the last one to be loaded does not load (`LastInst`), as `loadTrackInstrument`
does. Constants that only
the instances had fixed got their assumptions: bounds are numbers, a song begins with clips and tracks that its lists name
(`SongsAssumption`), the values that stand
for the main mix and for nothing are no bus, and a transport's loop begins within the bound of its ticks;
`MCApp` got constants for its metronome, transport, plug-ins and practice, and `Parts`, and `MCEditor` for note
editing and the import, which share the depth of undo with `Arranger` as they do in the program.

**Only model-checked.** Liveness and ENABLED are out of the prover's reach: `AcceptedIsDelivered`,
`LineAnswered`, `StopReturnsOnceListening`, `MixArrives`, `PlaybackEnds`. Safety that has no proof yet:
`NotesArePaired`, `EditsArePointwise`, `ToolsWriteWhatIsAsked`, `PractisingIsJudged` and
`StringsPlayWhatIsDrawn` say what the folds of `Track`, `TabImport`, `SongTools`, `Practice` and
`StringEditor` compute, where `Recursion` gives the induction and what is missing is the invariant of
each loop; `EditsKeepTheSound` compares whole songs before and after;
`DrumsPlayAsDrawn` is next in section 2. No module needs a RECURSIVE
operator.

## 7. Reading the modules

Each property's mutation in PROJECT.json names an operator defined just before the one it
replaces and marked `(defect: ...)`: the bug the property would catch. `map` gives the lines each
definition stands for. MC modules hold the values of small instances, the choice of a part, and
the run's properties by name. A module that is only instantiated states its assumption about its
constants as a definition, and its MC module assumes it (`InstancesAreFit`).

## 8. Not modelled

* `sequencer/TimeBase`: ticks and seconds over real numbers; the models take any step instead.
* `sequencer/ChordFinder`, `pdf/PdfTab`: heuristics over one list or page, without state.
* Signal processing: oscillators and filters of `Synth`, `BuiltinFx`, stretching, resampling, meters.
* `WavFile`, `Mp3Writer`, `PitchDetect`: sample arithmetic; what a reading may give is an input.
* `PluginScanner`, `PluginCache`, `VstPreset`: directories and files read and written whole.
* The WASAPI monitor and the master capture, which nothing in the program switches on.
* Export dialogs and the backing track: dialogs that collect options and call what `Render` and
  `Arranger` model.
* Two running instances of the program over one `session.lock`; the practice lane's cap of 8192.
* Window, settings file, theme, skins, drawing, `CrashLog`, and third-party libraries.

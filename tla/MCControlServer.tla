--------------------------- MODULE MCControlServer ---------------------------
(***************************************************************************)
(* What reaches the program from outside: the control pipe, the assistant's *)
(* server over the project files, and what its tools write, checked side by *)
(* side; a behaviour chooses one of the three.                              *)
(*                                                                          *)
(* Three requests over two connections: enough for an abandoned request,    *)
(* the next one and a late result, and for a stop at every point of a       *)
(* session.                                                                 *)
(***************************************************************************)
EXTENDS ControlServer, McpServer

VARIABLES part, song, kit, asked, midi, written

\* Two samples that each may stand for both kinds, and one of no family.
Sample(rank, family, snare, rim) ==
    [rank |-> rank, family |-> family, score |-> [snare |-> snare, rim |-> rim]]
Library == {Sample(1, 0, 2, 0), Sample(2, 1, 1, 1), Sample(3, 1, 1, 1)}
E == INSTANCE Track
Message(delta, what, value, channel) ==
    [delta |-> delta, what |-> what, value |-> value, channel |-> channel]
\* A chunk with two channels and an event without a status, and one that has lost its
\* status; the first has a note that a coarser file makes as short as can be.
Foreign == {[format |-> 0, smpte |-> FALSE, chunks |-> <<chunk>>] : chunk \in
    {<<Message(0, "tempo", 90, 0), Message(0, "voice", E!On(0, 2, 9), 0),
       Message(1, "voice", E!On(0, 3, 9), 1), Message(0, "sysex", 0, 0),
       Message(1, "voice", E!Off(0, 2), 0), Message(0, "voice", E!Off(0, 3), 1),
       Message(1, "bare", E!Control(0, 7, 1), 1)>>,
     <<Message(0, "name", 0, 0), Message(0, "bare", E!On(0, 2, 9), 0)>>}}
Project == [bpm |-> 120, tempos |-> <<[tick |-> 2, bpm |-> 90]>>, tracks |->
    <<[channel |-> 9, events |-> <<E!Control(1, 7, 3)>>, plugins |-> <<"effect">>]>>]
K == INSTANCE SongTools WITH Pitches <- {2, 3}, Starts <- {0, 2}, Lengths <- {1, 2},
         Tempi <- {90}, Songs <- {Project}, MaxTracks <- 2, MaxEdits <- 2,
         count <- written

ASSUME McpIsFit == McpAssumption

kVars == <<song, kit, asked, midi, written>>

OutsideInit ==
    /\ part \in {"pipe", "server", "tools"} /\ Init /\ McpInit /\ K!Init
    /\ part # "server" => \A f \in DOMAIN disk : disk[f].main = NoText

OutsideNext ==
    \/ part = "pipe" /\ Next /\ UNCHANGED <<part, mcpVars, kVars>>
    \/ part = "server" /\ McpNext /\ UNCHANGED <<part, vars, kVars>>
    \/ part = "tools" /\ K!Next /\ UNCHANGED <<part, vars, mcpVars>>

\* The fairness of the pipe, where that is the part that runs.
OutsideSpec ==
    /\ OutsideInit /\ [][OutsideNext]_<<part, vars, mcpVars, kVars>>
    /\ WF_vars(part = "pipe" /\ ThreadStep) /\ WF_vars(part = "pipe" /\ StopSteps)

------------------------------------------------------------------------------

\* Tools: what the server is asked to write sounds so, drums have their own samples, and
\* a MIDI file gives back what was put into it.
ToolsWriteWhatIsAsked ==
    K!NotesSoundAsAsked /\ K!FilesCarryTheSong /\ K!DrumsHaveTheirOwnSample
==============================================================================

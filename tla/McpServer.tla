------------------------------ MODULE McpServer ------------------------------
(***************************************************************************)
(* The server through which an assistant edits project files               *)
(* (mcp/midipro-mcp.mjs), and the program that may have one of them open    *)
(* (gui/App.cpp).  The server reads a file, edits the text and replaces the *)
(* file; the program writes over it with what it has in memory.  What they  *)
(* know of each other is session.lock, the top of recent.txt, and answers   *)
(* that come over the pipe of ControlServer.                                *)
(*                                                                          *)
(* The server does one thing at a time, the program runs beside it, and     *)
(* either may die.  A text is known by the number of the edit that made it    *)
(* (what the tools write is in SongTools).  One instance of the program     *)
(* runs; what two do to the lock is not covered.                            *)
(***************************************************************************)
EXTENDS Integers

CONSTANTS Files,
          MaxEdits, MaxFaults   \* bounds

None == "none"
McpAssumption == {MaxEdits, MaxFaults} \subseteq Nat /\ None \notin Files

VARIABLES
    disk,     \* the project files, each with its .bak and its .tmp
    lock,     \* session.lock is there
    recent,   \* the top line of recent.txt
    app,      \* the program: what it has in memory, and for which file
    saving,   \* the file that the program is writing
    tool,     \* the call that the server works on
    command,  \* the control command under way
    count,    \* the edits so far
    faults

mcpVars == <<disk, lock, recent, app, saving, tool, command, count, faults>>

\* A text is the edit `stamp', whole or cut off, perhaps made without a warning (quiet) and
\* perhaps put in place when the program had come by the file since the warning was due (raced).
Text(stamp, cut, quiet, raced) == [stamp |-> stamp, cut |-> cut, quiet |-> quiet, raced |-> raced]
NoText   == Text(-1, FALSE, FALSE, FALSE)
NoEdit   == Text(0, FALSE, FALSE, FALSE)
\* `base' is the edit that the program has last read or written in its file.
Off      == [on |-> FALSE, path |-> None, base |-> -1, listed |-> TRUE]
Resting  == [pc |-> "idle"]
NoCommand == [pc |-> "none"]
NotSaving == [file |-> None, list |-> TRUE]

Exists(f) == disk[f].main # NoText

------------------------------------------------------------------------------
(* A call of a tool that edits.                                             *)

SameAsOpen(f) == recent = f

\* guardProjectOpen: without a session nothing is said; with one the file on top of the
\* recent list is refused unless forced, and any other is edited with a warning.
guardProjectOpen(f, force) == IF ~lock THEN "quiet"
                              ELSE IF SameAsOpen(f) /\ ~force THEN "refused" ELSE "warned"

Call(creates, f, force) ==
    /\ tool = Resting /\ command = NoCommand /\ count < MaxEdits
    /\ guardProjectOpen(f, force) # "refused"
    /\ tool' = [pc |-> IF creates THEN "write" ELSE "load", file |-> f, force |-> force,
                quiet |-> guardProjectOpen(f, force) = "quiet", opened |-> FALSE]
    /\ UNCHANGED <<disk, lock, recent, app, saving, command, count, faults>>

\* No such file or track, a bad argument: nothing is written.
Throw ==
    /\ tool.pc \in {"load", "write"} /\ tool' = Resting
    /\ UNCHANGED <<disk, lock, recent, app, saving, command, count, faults>>

\* A text that breaks off in the song is taken for a shorter song.
loadProjectFile ==
    /\ tool.pc = "load" /\ Exists(tool.file)
    /\ tool' = [tool EXCEPT !.pc = "backup"]
    /\ UNCHANGED <<disk, lock, recent, app, saving, command, count, faults>>

copyBackup ==
    /\ tool.pc = "backup"
    /\ disk' = [disk EXCEPT ![tool.file].bak = disk[tool.file].main.stamp]
    /\ tool' = [tool EXCEPT !.pc = "write"]
    /\ UNCHANGED <<lock, recent, app, saving, command, count, faults>>

writeInPlace ==  \* (defect: the file itself is written, not one beside it)
    /\ tool.pc = "write" /\ count < MaxEdits /\ count' = count + 1
    /\ disk' = [disk EXCEPT ![tool.file].main = Text(count', TRUE, tool.quiet, FALSE),
                            ![tool.file].tmp = count']
    /\ tool' = [tool EXCEPT !.pc = "rename"]
    /\ UNCHANGED <<lock, recent, app, saving, command, faults>>

writeTmp ==
    /\ tool.pc = "write" /\ count < MaxEdits /\ count' = count + 1
    /\ disk' = [disk EXCEPT ![tool.file].tmp = count']
    /\ tool' = [tool EXCEPT !.pc = "rename"]
    /\ UNCHANGED <<lock, recent, app, saving, command, faults>>

\* A file that the program is writing cannot be replaced; one that it has read meanwhile is,
\* and the guard is not asked again.
rename ==
    /\ tool.pc = "rename" /\ tool' = Resting
    /\ IF saving.file = tool.file THEN UNCHANGED disk
       ELSE disk' = [disk EXCEPT ![tool.file] =
                      [main |-> Text(@.tmp, FALSE, tool.quiet, tool.opened /\ app.path = tool.file),
                       bak |-> @.bak, tmp |-> -1]]
    /\ UNCHANGED <<lock, recent, app, saving, command, count, faults>>

\* The client ends the server, which starts anew; the tool's answer is never given.
ServerDies ==
    /\ tool # Resting /\ faults < MaxFaults /\ faults' = faults + 1
    /\ tool' = Resting
    /\ UNCHANGED <<disk, lock, recent, app, saving, command, count>>

------------------------------------------------------------------------------
(***************************************************************************)
(* The program.  It opens a file from a menu, the recent list, its command  *)
(* line (midipro_open starts it so), or for a control command.              *)
(***************************************************************************)
\* The call that is at work on the file asked before the program had it; nothing tells it.
CameBy(f) == tool' = IF tool # Resting /\ tool.file = f THEN [tool EXCEPT !.opened = TRUE] ELSE tool

Free == app.on /\ saving = NotSaving

Launch ==
    /\ ~app.on
    /\ app' = [Off EXCEPT !.on = TRUE] /\ lock' = TRUE
    /\ UNCHANGED <<disk, recent, saving, tool, command, count, faults>>

addRecentProject(f) == recent' = f

Holding(f) == [app EXCEPT !.path = f, !.base = disk[f].main.stamp, !.listed = TRUE]

OpenFile(f) ==
    /\ Free /\ Exists(f)
    /\ app' = Holding(f) /\ addRecentProject(f) /\ CameBy(f)
    /\ UNCHANGED <<disk, lock, saving, command, count, faults>>

\* saveProjectTo empties the file and writes it; then it is the program's file.  A new
\* song, and a MIDI file that is opened, leave the path as it is.
BeginSave(f, list) ==
    /\ count' = count + 1
    /\ disk' = [disk EXCEPT ![f].main = Text(count', TRUE, FALSE, FALSE)]
    /\ saving' = [file |-> f, list |-> list]
    /\ UNCHANGED <<recent, app>>

SaveAs(f) ==
    /\ Free /\ count < MaxEdits /\ BeginSave(f, TRUE) /\ CameBy(f)
    /\ UNCHANGED <<lock, command, faults>>

\* exportPackage saves beside its samples, and lists nothing.
ExportPackage(f) ==
    /\ Free /\ count < MaxEdits /\ BeginSave(f, FALSE) /\ CameBy(f)
    /\ UNCHANGED <<lock, command, faults>>

EndSave ==
    /\ saving # NotSaving /\ saving' = NotSaving
    /\ disk' = [disk EXCEPT ![saving.file].main.cut = FALSE]
    /\ app' = [app EXCEPT !.path = saving.file, !.base = disk[saving.file].main.stamp,
                          !.listed = saving.list]
    /\ IF saving.list THEN addRecentProject(saving.file) ELSE UNCHANGED recent
    /\ command' = IF command.pc = "saving" THEN [command EXCEPT !.pc = "answer", !.ok = TRUE] ELSE command
    /\ CameBy(saving.file)
    /\ UNCHANGED <<lock, count, faults>>

\* The disk is full: what has been written stays.
SaveFails ==
    /\ saving # NotSaving /\ faults < MaxFaults /\ faults' = faults + 1
    /\ saving' = NotSaving
    /\ command' = IF command.pc = "saving" THEN [command EXCEPT !.pc = "answer", !.ok = FALSE] ELSE command
    /\ UNCHANGED <<disk, lock, recent, app, tool, count>>

\* The pipe ends with the program: a command under way fails.
PipeBreaks == command' = IF command = NoCommand THEN command
                         ELSE [command EXCEPT !.pc = "answer", !.ok = FALSE]

Exit ==
    /\ Free /\ app' = Off /\ lock' = FALSE /\ PipeBreaks
    /\ UNCHANGED <<disk, recent, saving, tool, count, faults>>

Crash ==
    /\ app.on /\ faults < MaxFaults /\ faults' = faults + 1
    /\ app' = Off /\ saving' = NotSaving /\ PipeBreaks
    /\ UNCHANGED <<disk, lock, recent, tool, count>>

------------------------------------------------------------------------------
(***************************************************************************)
(* Control commands (midipro_transport, midipro_mix): sent by the server,   *)
(* which waits for the answer, and carried out between two frames.          *)
(***************************************************************************)
Commands == {"save", "reload", "open", "other"}

controlSend(what, f) ==
    /\ tool = Resting /\ command = NoCommand
    /\ what = "open" => Exists(f)
    /\ app.on   \* the pipe is there
    /\ command' = [pc |-> "sent", what |-> what, file |-> f, ok |-> FALSE]
    /\ UNCHANGED <<disk, lock, recent, app, saving, tool, count, faults>>

Answer(good) == command' = [command EXCEPT !.pc = "answer", !.ok = good]

Reload(f) ==
    IF f # None /\ Exists(f)
    THEN /\ app' = Holding(f) /\ addRecentProject(f) /\ Answer(TRUE)
         /\ UNCHANGED <<disk, saving, count, tool>>
    ELSE Answer(FALSE) /\ UNCHANGED <<disk, recent, app, saving, count, tool>>

Save ==
    IF app.path = None \/ count = MaxEdits
    THEN Answer(FALSE) /\ UNCHANGED <<disk, recent, app, saving, count, tool>>
    ELSE /\ BeginSave(app.path, TRUE) /\ command' = [command EXCEPT !.pc = "saving"] /\ UNCHANGED tool

handleControlCommand ==
    /\ Free /\ command.pc = "sent"
    /\ CASE command.what = "save"   -> Save
         [] command.what = "reload" -> Reload(app.path)
         [] command.what = "open"   -> Reload(command.file)
         \* status, playback, and the song's tempo and mixer
         [] OTHER -> Answer(TRUE) /\ UNCHANGED <<disk, recent, app, saving, count, tool>>
    /\ UNCHANGED <<lock, faults>>

\* The answer, or ControlServer's that the program is too late, or none; the program may
\* be writing the file still.
TakeAnswer ==
    /\ command # NoCommand /\ command' = NoCommand
    /\ UNCHANGED <<disk, lock, recent, app, saving, tool, count, faults>>

------------------------------------------------------------------------------
McpInit ==
    /\ disk \in [Files -> {[main |-> NoText, bak |-> -1, tmp |-> -1],
                           [main |-> NoEdit, bak |-> -1, tmp |-> -1]}]
    /\ lock = FALSE /\ recent = None /\ app = Off /\ saving = NotSaving
    /\ tool = Resting /\ command = NoCommand /\ count = 0 /\ faults = 0

McpNext ==
    \/ \E f \in Files, creates, force \in BOOLEAN : Call(creates, f, force)
    \/ Throw \/ loadProjectFile \/ copyBackup \/ writeTmp \/ rename \/ ServerDies
    \/ Launch \/ \E f \in Files : OpenFile(f) \/ SaveAs(f) \/ ExportPackage(f)
    \/ EndSave \/ SaveFails \/ Exit \/ Crash
    \/ \E what \in Commands, f \in Files : controlSend(what, f)
    \/ handleControlCommand \/ TakeAnswer

McpSpec == McpInit /\ [][McpNext]_mcpVars

------------------------------------------------------------------------------
(***************************************************************************)
(* Properties.                                                              *)
(***************************************************************************)
\* An edit that the server made without a warning is never written over by a program that has
\* not seen it, the race left out that the code loses: the program that opens the file after
\* guardProjectOpen has found no session, and before the rename, saves over an edit of which
\* nobody was warned.
NoUnseenOverwrite ==
    [][\A f \in Files :
          (/\ saving.file # f /\ saving'.file = f /\ app.path = f
           /\ disk[f].main.quiet /\ ~disk[f].main.raced) => app.base = disk[f].main.stamp]_mcpVars

\* Without `force' the server does not replace the file that the program has open, unless
\* the program came by it while the tool was at work, or by packing a project.
UnforcedSparesTheOpenProject ==
    [][\A f \in Files :
          (/\ disk[f].tmp # -1 /\ disk'[f].tmp = -1
           /\ app.path = f /\ app.listed /\ ~tool.opened) => tool.force]_mcpVars

\* Only a save of the program leaves a text that breaks off: whenever the server dies,
\* the file is the old one or the new one.
CutOnlyBySaves ==
    [][\A f \in Files : disk'[f].main.cut /\ ~disk[f].main.cut => saving'.file = f]_mcpVars

\* What the server writes without a warning is not lost to a program that opens the file after,
\* the open project is replaced when forced or overtaken only, and the server cuts nothing off.
EditsAreKept == NoUnseenOverwrite /\ UnforcedSparesTheOpenProject /\ CutOnlyBySaves
==============================================================================

----------------------------- MODULE UndoHistory -----------------------------
(***************************************************************************)
(* The two stacks behind Ctrl+Z and Ctrl+Y: core/UndoHistory.h.  The        *)
(* history keeps whatever copies the editor hands it, and knows nothing of  *)
(* what is in them.                                                        *)
(***************************************************************************)
EXTENDS Integers, Sequences

CONSTANT MaxDepth    \* how many copies the undo stack keeps (100 in the program)

UndoHistoryAssumption == MaxDepth \in Nat \ {0}

Empty == [undo |-> <<>>, redo |-> <<>>]

CanUndo(h) == h.undo # <<>>
CanRedo(h) == h.redo # <<>>

\* A copy goes on the stack before the edit; the oldest falls off at the end.
Record(h, current) ==
    [undo |-> IF Len(h.undo) = MaxDepth THEN Append(Tail(h.undo), current)
                                        ELSE Append(h.undo, current),
     redo |-> <<>>]

\* What Undo and Redo put in the place of the current song, and leave behind.
Undone(h) == h.undo[Len(h.undo)]
Redone(h) == h.redo[Len(h.redo)]

AfterUndo(h, current) == [undo |-> SubSeq(h.undo, 1, Len(h.undo) - 1),
                          redo |-> Append(h.redo, current)]
AfterRedo(h, current) == [undo |-> Append(h.undo, current),
                          redo |-> SubSeq(h.redo, 1, Len(h.redo) - 1)]
==============================================================================

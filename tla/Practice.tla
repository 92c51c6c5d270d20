------------------------------ MODULE Practice -------------------------------
(***************************************************************************)
(* Practising along a score: the judge and the calibration of the guitar    *)
(* window (gui/PanelsGuitarTab.cpp), frame by frame, over the input's tap   *)
(* ring and the player's position.                                         *)
(*                                                                         *)
(* Times are milliseconds of input and positions are ticks, at a tempo at   *)
(* which a tick takes a millisecond.  What the ear finds (audio/PitchDetect *)
(* .h) is any time within the stretch it is given, or nothing.              *)
(* `pass' is a history variable: what was judged since the cursor was last  *)
(* set back, and whether the frames came in time.                          *)
(***************************************************************************)
EXTENDS Integers, Sequences, SequencesExt, FiniteSets, FiniteSetsExt

CONSTANTS
    Scores,            \* the notes of each track, in order: sequences of [tick, note]
    Edits,             \* what the notes may be edited into
    Bar,               \* ticks of a bar
    Starts,            \* where playing may begin
    Frames, Patience,  \* how long a frame may take, and the longest that is in time
    Times, Offsets,    \* when, after its time, a note may be heard; offsets set by hand
    Bars,              \* bars a loop may be set to by number
    CountIn, Beats, Enough,  \* clicks before and in a calibration, and how many must be heard
    MaxFrames, MaxClicks     \* bounds: frames, and what the user does between them

PracticeAssumption ==
    /\ {Bar, Patience} \cup Frames \subseteq Nat \ {0} /\ Times \cup Offsets \subseteq Int
    /\ Starts \subseteq Nat /\ Bars \subseteq Nat \ {0}
    /\ {CountIn, Beats, Enough, MaxFrames, MaxClicks} \subseteq Nat /\ Enough <= Beats
    /\ \A s \in ToSet(Scores) \cup Edits : \A i, j \in DOMAIN s : i < j => s[i].tick <= s[j].tick

VARIABLES
    score,             \* the notes of the track that is practised
    track,             \* which one that is
    player,            \* playing or not, where, and the loop
    eng,               \* the statics of the judge; `judged' is a history variable
    cal,               \* those of the calibration
    frames, clicks,    \* bounds
    pass               \* history: see Followup

vars == <<score, track, player, eng, cal, frames, clicks, pass>>

------------------------------------------------------------------------------
Good   == 140          \* a note may be this much early or late
Late   == 450          \* a late one is looked for as far as this
Rest   == 128          \* what the ear needs before and after where it looks
Ring   == 2720         \* how far back the tap ring may be read
Beat   == 600          \* of the calibration
None   == 1000         \* not heard

Clip(x, low, high) == Max({low, Min({high, x})})
Abs(x)    == Max({x, -x})
Median(s) == SortSeq(s, <)[Len(s) \div 2 + 1]

Init ==
    /\ track = 1 /\ score = Scores[1]
    /\ player = [playing |-> FALSE, pos |-> 0, looping |-> FALSE, start |-> 0, end |-> 2 * Bar]
    /\ eng = [on |-> FALSE, input |-> FALSE, track |-> 0, count |-> 0, lastCur |-> 0, next |-> 1,
              active |-> <<>>, great |-> 0, good |-> 0, bad |-> 0, lane |-> <<>>,
              hist |-> <<>>, auto |-> 0, manual |-> 0, judged |-> <<>>]
    /\ cal = [open |-> FALSE, state |-> 0, now |-> 0, clicked |-> 0, marks |-> <<>>,
              found |-> <<>>]
    /\ frames = 0 /\ clicks = 0
    /\ pass = [from |-> 0, timely |-> FALSE, steady |-> TRUE, even |-> TRUE, laps |-> 0, lap |-> {}]

------------------------------------------------------------------------------
(***************************************************************************)
(* The judge.                                                              *)
(***************************************************************************)
ResetScores(e) == [e EXCEPT !.great = 0, !.good = 0, !.bad = 0, !.lane = <<>>]
ResetForgetsLane(e) ==  \* (defect: the lane keeps what was judged)
    [e EXCEPT !.great = 0, !.good = 0, !.bad = 0, !.hist = <<>>, !.next = 1, !.active = <<>>,
                             !.judged = <<>>]
PracReset(e) == [ResetScores(e) EXCEPT !.hist = <<>>, !.next = 1, !.active = <<>>,
                             !.judged = <<>>]

\* Another track, or another number of notes, begins anew.
Followed(e) ==
    IF e.track = track /\ e.count = Len(score) THEN e
    ELSE [PracReset(e) EXCEPT !.track = track, !.count = Len(score)]

FirstFrom(pos) == Cardinality({i \in DOMAIN score : score[i].tick < pos}) + 1

\* A step back of less than a bar is not noticed.
WentBack(e, pos) == pos + 1920 < e.lastCur
CursorOnly(e, pos) ==  \* (defect: what waits to be judged is not dropped)
    [e EXCEPT !.lastCur = pos,
              !.judged  = IF WentBack(e, pos) THEN <<>> ELSE @,
              !.next    = IF WentBack(e, pos) THEN FirstFrom(pos) ELSE @]
Rewound(e, pos) ==
    [e EXCEPT !.lastCur = pos,
              !.active  = IF WentBack(e, pos) THEN <<>> ELSE @,
              !.judged  = IF WentBack(e, pos) THEN <<>> ELSE @,
              !.next    = IF WentBack(e, pos) THEN FirstFrom(pos) ELSE @]

\* How long ago the input heard what belongs to a tick.
Age(e, pos, tick) == pos - tick - (e.manual + e.auto)

\* The notes of one tick are one event; one that is too old is passed over.
Activated(e, pos) ==
    LET due   == {i \in e.next..Len(score) : Age(e, pos, score[i].tick) >= Good + Rest}
        fresh == {score[i].tick : i \in {i \in due : Age(e, pos, score[i].tick) < 1500}}
        chord(t) == [tick |-> t, late |-> FALSE, notes |-> {i \in due : score[i].tick = t}]
        ticks == SetToSortSeq(fresh, <)
    IN  [e EXCEPT !.active = @ \o [k \in DOMAIN ticks |-> chord(ticks[k])],
                  !.next = e.next + Cardinality(due)]

ScanEnd(ev) == IF ev.late THEN Late ELSE Good
IsRecorded(e, pos, ev) == Age(e, pos, ev.tick) >= ScanEnd(ev) + Rest
IsReadable(e, pos, ev) == e.input /\ Age(e, pos, ev.tick) + Good + Rest <= Ring
IsDue(e, pos, ev)      == IsRecorded(e, pos, ev) /\ IsReadable(e, pos, ev)
Outcomes(ev) == {None} \cup {t \in Times : -Good <= t /\ t <= ScanEnd(ev)}

\* The times of the last hits, if most agree, move the offset.
FeedDelta(e, ms) ==
    LET hist  == LET h == Append(e.hist, ms) IN IF Len(h) > 12 THEN Tail(h) ELSE h
        med   == Median(hist)
        close == Cardinality({i \in DOMAIN hist : Abs(hist[i] - med) < 60})
        moved == [e EXCEPT !.hist = <<>>, !.auto = Clip(@ + med, -150, 400)]
    IN  IF Len(hist) < 4 \/ close * 4 < Len(hist) * 3 \/ Abs(med) <= 25
        THEN [e EXCEPT !.hist = hist]
        ELSE IF Abs(med) > 100 THEN ResetScores(moved) ELSE moved

Counted(e, verdict) ==
    CASE verdict = 2 -> [e EXCEPT !.great = @ + 1]
      [] verdict = 1 -> [e EXCEPT !.good = @ + 1]
      [] OTHER       -> [e EXCEPT !.bad = @ + 1]

\* One event of the list: kept, dropped, looked at again later, or judged.
Judged(e, pos, ofs, hear, ev) ==
    LET on     == {i \in ev.notes : hear[i] # None}
        times  == [k \in 1..Cardinality(on) |-> hear[SetToSortSeq(on, <)[k]]]
        passed == on # {} /\ 2 * Cardinality(on) >= Cardinality(ev.notes)
        med    == IF on = {} THEN 0 ELSE Median(times)
        verdict == IF ~passed \/ ev.late THEN 0 ELSE IF Abs(med) <= 60 THEN 2 ELSE 1
        shown  == [tick |-> ev.tick,
                   states |-> {IF i \in on THEN Max({1, verdict}) ELSE 0 : i \in ev.notes}]
        fed    == IF on = {} THEN e ELSE FeedDelta(e, med)
    IN  CASE ~IsRecorded(ofs, pos, ev) -> [e EXCEPT !.active = Append(@, ev)]
          [] IsRecorded(ofs, pos, ev) /\ ~IsReadable(ofs, pos, ev) -> e
          [] IsDue(ofs, pos, ev) /\ ~passed /\ ~ev.late ->
                [e EXCEPT !.active = Append(@, [ev EXCEPT !.late = TRUE])]
          [] OTHER -> Counted([fed EXCEPT !.lane = Append(@, shown),
                                           !.judged = Append(@, ev.tick)], verdict)

\* The offset is the one the frame began with.
Evaluated(e, pos, hear) ==
    FoldLeft(LAMBDA f, ev : Judged(f, pos, e, hear, ev), [e EXCEPT !.active = <<>>], e.active)

------------------------------------------------------------------------------
(***************************************************************************)
(* The calibration: clicks while the song stands, and what was heard after  *)
(* each of them.                                                           *)
(***************************************************************************)
Idle(c) == [c EXCEPT !.state = 0]

\* All the clicks that are due; those after the count-in mark where the input is.
Clicked(c) ==
    LET due == Cardinality({k \in c.clicked..(Beats - 1) : c.now >= Beat * k})
        to  == c.clicked + due
    IN  [c EXCEPT !.clicked = to,
                  !.marks = @ \o [k \in 1..(Max({to, 0}) - Max({c.clicked, 0})) |-> c.now],
                  !.state = IF c.clicked < 0 /\ to >= 0 THEN 2 ELSE @]

CanAnalyse(c) ==
    /\ c.state = 2 /\ Len(c.found) < c.clicked
    /\ c.now - c.marks[Len(c.found) + 1] >= 400 + Rest

Analysed(c, e, hear) ==
    LET heard == IF e.input /\ c.now - c.marks[Len(c.found) + 1] + 250 + Rest <= Ring
                 THEN hear ELSE None
    IN  [c EXCEPT !.found = Append(@, heard)]

Found(c) == SelectSeq(c.found, LAMBDA t : t # None)

EndAnyway(c, e) ==  \* (defect: too few are enough)
    IF Len(c.found) < Beats THEN [cal |-> c, eng |-> e]
    ELSE [cal |-> Idle(c),
          eng |-> IF Found(c) = <<>> THEN e
                  ELSE [e EXCEPT !.manual = Clip(Median(Found(c)), -100, 300), !.auto = 0,
                                 !.hist = <<>>]]

\* After the last one the offset is their median, if enough were heard.
Ended(c, e) ==
    IF Len(c.found) < Beats THEN [cal |-> c, eng |-> e]
    ELSE [cal |-> Idle(c),
          eng |-> IF Len(Found(c)) < Enough THEN e
                  ELSE [e EXCEPT !.manual = Clip(Median(Found(c)), -100, 300), !.auto = 0,
                                 !.hist = <<>>]]

Measured(c, e, hear) ==
    IF c.state = 0 \/ ~c.open THEN [cal |-> Idle(c), eng |-> e]
    ELSE IF CanAnalyse(Clicked(c)) THEN Ended(Analysed(Clicked(c), e, hear), e)
    ELSE [cal |-> Clicked(c), eng |-> e]

------------------------------------------------------------------------------
(***************************************************************************)
(* A frame: the song goes on, and the judge looks at what was heard.        *)
(***************************************************************************)
\* At the end of the loop the player starts over at its beginning.
Advanced(d) ==
    LET to == player.pos + d
    IN  IF player.looping /\ to >= player.end
        THEN Min({player.start + Max({0, to - Max({player.pos, player.end})}), player.end - 1})
        ELSE to

Later(c, d) == [c EXCEPT !.now = Min({@ + d, Beat * (Beats + 4)})]  \* the clock stops where nothing is due

PlayingFrame(d) ==
    LET pos   == Advanced(d)
        e     == Activated(Rewound(Followed(eng), pos), pos)
        asked == {ev \in ToSet(e.active) : IsDue(e, pos, ev)}
    IN  /\ player.playing /\ player' = [player EXCEPT !.pos = pos]
        /\ IF ~eng.on THEN eng' = eng /\ cal' = Later(cal, d)
           ELSE /\ cal' = Idle(Later(cal, d))
                /\ \E hear \in [UNION {ev.notes : ev \in asked} -> Times \cup {None}] :
                     /\ \A ev \in asked : \A i \in ev.notes : hear[i] \in Outcomes(ev)
                     /\ eng' = Evaluated(e, pos, hear)

RestingFrame(d) ==
    LET e == [Followed(eng) EXCEPT !.lastCur = player.pos]
    IN  /\ ~player.playing /\ UNCHANGED player
        /\ IF ~eng.on THEN eng' = eng /\ cal' = Later(cal, d)
           ELSE \E hear \in IF CanAnalyse(Clicked(Later(cal, d))) THEN Times \cup {None} ELSE {None} :
                LET m == Measured(Later(cal, d), e, hear) IN cal' = m.cal /\ eng' = m.eng

\* A pass begins where the judge begins anew, and is in time until something jumps.
Followup(d) ==
    LET wrapped == player.playing /\ player'.pos < player.pos
        anew    == eng.on /\ (Followed(eng) # eng \/ (player.playing /\ WentBack(eng, player'.pos)))
        judged  == IF Len(eng'.judged) >= Len(eng.judged) /\ ~anew
                   THEN SubSeq(eng'.judged, Len(eng.judged) + 1, Len(eng'.judged)) ELSE eng'.judged
    IN  pass' = [from   |-> IF anew \/ wrapped THEN player'.pos ELSE pass.from,
                 timely |-> /\ eng.on /\ d <= Patience /\ eng'.auto = eng.auto /\ eng'.manual = eng.manual
                            /\ anew \/ (pass.timely /\ ~wrapped),
                 steady |-> anew \/ pass.steady,
                 even   |-> pass.even /\ d <= Patience /\ eng.on,
                 laps   |-> IF ~eng.on THEN 0 ELSE IF wrapped THEN 1 ELSE pass.laps,
                 lap    |-> IF wrapped THEN {} ELSE pass.lap \cup ToSet(judged)]

Frame(d) ==
    /\ frames < MaxFrames /\ frames' = frames + 1 /\ UNCHANGED <<score, track, clicks>>
    /\ PlayingFrame(d) \/ RestingFrame(d)
    /\ Followup(d)

------------------------------------------------------------------------------
(***************************************************************************)
(* What the user does between two frames.                                  *)
(***************************************************************************)
Stays(untimely) == pass' = [pass EXCEPT !.timely = @ /\ ~untimely]

\* The input is opened, if it can be.
StartPractice ==
    /\ ~eng.on /\ UNCHANGED <<player, score, track, cal>> /\ Stays(TRUE)
    /\ \E input \in {TRUE, eng.input} : eng' = [PracReset(eng) EXCEPT !.on = TRUE, !.input = input]
EndPractice ==
    /\ eng.on /\ eng' = [eng EXCEPT !.on = FALSE] /\ Stays(TRUE)
    /\ UNCHANGED <<player, score, track, cal>>

\* Where the song stood while nothing plays is not told to the player before it starts.
Play(p) == /\ player' = [player EXCEPT !.playing = TRUE, !.pos = p] /\ Stays(TRUE)
           /\ UNCHANGED <<eng, score, track, cal>>
Stop    == /\ player.playing /\ player' = [player EXCEPT !.playing = FALSE] /\ Stays(TRUE)
           /\ UNCHANGED <<eng, score, track, cal>>

Loops(looping, start, end) ==
    /\ player' = [player EXCEPT !.looping = looping, !.start = start, !.end = end]
    /\ Stays(FALSE) /\ UNCHANGED <<eng, score, track, cal>>
LoopCurrentBar == LET b == player.pos \div Bar IN Loops(TRUE, b * Bar, (b + 1) * Bar)
GrowLoop       == Loops(TRUE, player.start, player.end + 2 * Bar)
SwitchLoop     == Loops(~player.looping, player.start, player.end)
LoopFrom(b)    == LET start == (b - 1) * Bar
                  IN  Loops(player.looping, start, Max({player.end, start + (IF player.end <= start THEN Bar ELSE 0)}))
LoopTo(b)      == LET end == b * Bar
                  IN  Loops(player.looping, player.start, IF end <= player.start THEN player.start + Bar ELSE end)

Choose(t) == /\ t \in DOMAIN Scores \ {track} /\ track' = t /\ score' = Scores[t]
             /\ pass' = [pass EXCEPT !.timely = FALSE] /\ UNCHANGED <<player, eng, cal>>
Edit(s)   == /\ s # score /\ score' = s
             /\ pass' = [pass EXCEPT !.timely = FALSE, !.steady = FALSE]
             /\ UNCHANGED <<track, player, eng, cal>>

\* The judge's offset, by hand.
Slide(x) == /\ eng' = [eng EXCEPT !.manual = x] /\ Stays(TRUE) /\ UNCHANGED <<player, score, track, cal>>

OpenCalibration  == /\ ~cal.open /\ cal' = [cal EXCEPT !.open = TRUE] /\ Stays(FALSE)
                    /\ UNCHANGED <<player, eng, score, track>>
StartMeasuring ==
    /\ cal.open /\ cal.state = 0 /\ eng.on
    /\ player' = [player EXCEPT !.playing = FALSE]
    /\ cal' = [open |-> TRUE, state |-> 1, now |-> -(CountIn * Beat + 250), clicked |-> -CountIn,
               marks |-> <<>>, found |-> <<>>]
    /\ pass' = [pass EXCEPT !.timely = FALSE, !.even = TRUE] /\ UNCHANGED <<eng, score, track>>
StopMeasuring    == /\ cal.open /\ cal.state > 0 /\ cal' = Idle(cal) /\ Stays(FALSE)
                    /\ UNCHANGED <<player, eng, score, track>>
CloseCalibration == /\ cal.open /\ cal' = [cal EXCEPT !.open = FALSE] /\ Stays(FALSE)
                    /\ UNCHANGED <<player, eng, score, track>>

Practising  == StartPractice \/ EndPractice
Transport   == Stop \/ \E p \in Starts : Play(p)
Looping     == LoopCurrentBar \/ GrowLoop \/ SwitchLoop \/ \E b \in Bars : LoopFrom(b) \/ LoopTo(b)
Scoring     == (\E t \in DOMAIN Scores : Choose(t)) \/ (\E s \in Edits : Edit(s)) \/ \E x \in Offsets : Slide(x)
Calibrating == OpenCalibration \/ StartMeasuring \/ StopMeasuring \/ CloseCalibration

Click ==
    /\ clicks < MaxClicks /\ clicks' = clicks + 1 /\ UNCHANGED frames
    /\ Practising \/ Transport \/ Looping \/ Scoring \/ Calibrating

Next == Click \/ \E d \in Frames : Frame(d)

Spec == Init /\ [][Next]_vars

------------------------------------------------------------------------------
(***************************************************************************)
(* The counters are those of the events on the lane, also after the judge   *)
(* began anew or corrected its offset.                                     *)
(***************************************************************************)
ScoreIsTheLane ==
    LET With(state) == Cardinality({i \in DOMAIN eng.lane : state \in eng.lane[i].states})
    IN  /\ Len(eng.lane) = eng.great + eng.good + eng.bad
        /\ eng.great = With(2) /\ eng.good <= With(1)

\* In one pass no event is judged twice, however late, early or often it is played.
EventsAreJudgedOnce == pass.steady => IsInjective(eng.judged)

(***************************************************************************)
(* Of the events that passed since the judge began, none is left out, if    *)
(* the frames came in time and the offset stayed.                          *)
(***************************************************************************)
PassedEventsAreJudged ==
    (eng.on /\ eng.input /\ pass.timely) =>
        \A i \in DOMAIN score :
            (score[i].tick >= pass.from /\ Age(eng, player.pos, score[i].tick) >= Good + Rest) =>
                \/ score[i].tick \in ToSet(eng.judged)
                \/ \E ev \in ToSet(eng.active) : i \in ev.notes

(***************************************************************************)
(* The clicks of a calibration come on the beat, each is looked at once,    *)
(* and the offset is moved only by one that came to its end, with enough    *)
(* heard.                                                                  *)
(***************************************************************************)
MeasurementsAreWhole ==
    /\ Len(cal.found) <= Len(cal.marks)
    /\ pass.even => \A k \in DOMAIN cal.marks : cal.marks[k] - Beat * (k - 1) \in 0..Patience

OffsetsAreMeasured ==
    [][(Calibrating \/ \E d \in Frames : RestingFrame(d)) =>
          \/ eng'.manual = eng.manual
          \/ Len(cal'.found) = Beats /\ Len(Found(cal')) >= Enough]_vars

(***************************************************************************)
(* The manual says the judging begins anew with each round of the loop:     *)
(* what passed in this round is judged in this round.                      *)
(***************************************************************************)
LoopsAreJudgedAgain ==
    (eng.on /\ eng.input /\ player.playing /\ pass.laps > 0) =>
        \A i \in DOMAIN score :
            (score[i].tick >= pass.from /\ player.pos - score[i].tick >= Late + Rest + 2 * Patience) =>
                score[i].tick \in pass.lap
==============================================================================

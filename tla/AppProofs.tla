------------------------------ MODULE AppProofs ------------------------------
(***************************************************************************)
(* What the metronome, the transport, the plug-ins and the session that     *)
(* MCApp composes promise, for every value of the constants.                *)
(***************************************************************************)
EXTENDS MCApp, FiniteSetTheorems, SequenceTheorems, TLAPS

-----------------------------------------------------------------------------
(* Transport: the inductive invariant, and the commands.                     *)

Regions == SongLoops \cup {T!NoLoop}
Take    == [at : 0..MaxTick, from : 0..MaxTick, disturbed : BOOLEAN]
Transports ==
    [playing : BOOLEAN, left : Nat, tick : 0..MaxTick, lap : Regions, lapCount : Nat,
     pos : 0..MaxTick, prev : 0..MaxTick, loop : Regions, countIn : CountIns \cup {0},
     recording : BOOLEAN, startPending : BOOLEAN, drag : {"none", "playing", "stopped"},
     clipsOn : BOOLEAN, clipsAt : 0..MaxTick, armed : BOOLEAN, pending : BOOLEAN,
     recAt : 0..MaxTick, capture : 0..T!NoTake, takes : Seq(Take), seam : BOOLEAN,
     disturbed : BOOLEAN]

\* A capture is of the recording under way, and of where that was asked for; what recording
\* has placed lies where it was captured.
TakesInv(w) ==
    /\ ~w.armed => w.capture = T!NoTake /\ ~w.pending
    /\ w.pending => w.capture = T!NoTake /\ w.countIn \in CountIns
    /\ w.capture # T!NoTake /\ ~w.disturbed => w.capture = w.recAt
    /\ Len(w.takes) <= MaxTakes + (IF w.armed THEN 0 ELSE 1)
    /\ \A k \in DOMAIN w.takes : w.takes[k].disturbed \/ w.takes[k].at = w.takes[k].from

\* While the count-in of a recording runs undisturbed the player waits where the take begins.
CountsIn(w) ==
    w.pending /\ ~w.disturbed => w.playing /\ w.tick = w.recAt /\ w.drag = "none" /\ ~w.clipsOn

\* The clips run with the player, or wait for the end of a count-in, or the player has just
\* begun a lap that the next frame will see.
Together(w) == w.clipsOn /\ w.left = 0 /\ w.clipsAt = w.tick /\ (w.pending => w.disturbed)
Waiting(w)  == ~w.clipsOn /\ (w.startPending \/ w.pending)
Lapped(w)   == /\ w.clipsOn /\ ~w.pending /\ ~w.startPending
               /\ w.pos = w.prev /\ w.tick + Jump < w.prev
Bound(w)    == w.playing /\ ~w.recording /\ ~w.seam
Follows(w)  == Bound(w) => Together(w) \/ Waiting(w) \/ Lapped(w)

\* What a frame leaves: nothing that has come to its end is still waited for.
Settled(w) ==
    /\ w.prev = w.pos /\ (w.playing => w.pos = w.tick)
    /\ w.playing /\ w.pending => w.left > 0
    /\ Bound(w) => \/ Together(w) /\ ~w.pending /\ ~w.startPending
                   \/ Waiting(w) /\ (w.startPending \/ w.left > 0)

Kept(w) == w \in Transports /\ TakesInv(w) /\ CountsIn(w) /\ Follows(w)
TransportInv == seen \in BOOLEAN /\ Kept(t) /\ (seen => Settled(t))

\* The bounds, without the sets.
LEMMA BoundsAreNat ==
    ASSUME T!TransportAssumption
    PROVE  /\ MaxTick \in Nat /\ Jump \in Nat /\ SongBar \in Nat \ {0}
           /\ MaxTakes \in Nat /\ MaxCommands \in Nat
BY DEF T!TransportAssumption

LEMMA CountInsAreNat ==
    ASSUME T!TransportAssumption, NEW n \in CountIns \cup {0}
    PROVE  n \in Nat
BY DEF T!TransportAssumption

LEMMA StartIsTick ==
    ASSUME T!TransportAssumption, NEW w \in Transports
    PROVE  T!Start(w) \in 0..MaxTick
BY DEF T!TransportAssumption, T!Start, T!Looping, Transports, Regions, T!NoLoop

\* stopTransport
LEMMA StopTransportKept ==
    ASSUME T!TransportAssumption, NEW w, w \in Transports, TakesInv(w)
    PROVE  Kept(T!StopTransport(w)) /\ ~T!StopTransport(w).playing
<1> DEFINE r == T!StopTransport(w)
<1>2. /\ r \in Transports /\ ~r.playing /\ r.capture = w.capture /\ r.recAt = w.recAt
      /\ r.armed = w.armed /\ r.pending = w.pending /\ r.takes = w.takes /\ r.countIn = w.countIn
      /\ r.disturbed = (w.disturbed \/ (w.armed /\ w.pending))
  BY DEF T!StopTransport, T!StopAudio, T!StopPlayer, T!Disturbed, Transports
<1> HIDE DEF r
<1>3. TakesInv(r)  BY <1>2 DEF TakesInv
<1>4. CountsIn(r)  BY <1>2 DEF TakesInv, CountsIn
<1> QED  BY <1>2, <1>3, <1>4 DEF Kept, Follows, Bound, r

\* startPlayback, where no count-in of a recording runs undisturbed
LEMMA StartPlaybackKept ==
    ASSUME T!TransportAssumption, NEW w, w \in Transports, TakesInv(w), w.pending => w.disturbed
    PROVE  Kept(T!StartPlayback(w))
<1> DEFINE r == T!StartPlayback(w)
<1>1. T!Start(w) \in 0..MaxTick  BY StartIsTick
<1>2. /\ r \in Transports /\ r.capture = w.capture /\ r.recAt = w.recAt
      /\ r.armed = w.armed /\ r.pending = w.pending /\ r.takes = w.takes /\ r.countIn = w.countIn
      /\ r.disturbed = w.disturbed
      /\ \/ ~r.clipsOn /\ r.startPending
         \/ r.clipsOn /\ r.left = 0 /\ r.clipsAt = r.tick
  <2> DEFINE s == T!Start(w)
             p == T!Play(w, s, w.countIn)
  <2>1. s \in 0..MaxTick /\ w.countIn \in CountIns \cup {0}  BY <1>1 DEF Transports
  <2>2. w.countIn \in Nat  BY <2>1, CountInsAreNat
  <2> HIDE DEF s
  <2>3. /\ p \in Transports /\ p.capture = w.capture /\ p.recAt = w.recAt
        /\ p.armed = w.armed /\ p.pending = w.pending /\ p.takes = w.takes /\ p.countIn = w.countIn
        /\ p.disturbed = w.disturbed /\ p.left = w.countIn /\ p.tick = s
    BY <2>1, <2>2 DEF T!Play, Transports
  <2>4. r = IF w.countIn > 0 THEN [T!StopAudio(T!SeekAudio(p, s)) EXCEPT !.startPending = TRUE]
                             ELSE T!StartAudio(p, s)
    BY DEF s, T!StartPlayback
  <2> HIDE DEF p, r
  <2>5. CASE w.countIn > 0
    <3>1. r = [T!StopAudio(T!SeekAudio(p, s)) EXCEPT !.startPending = TRUE]  BY <2>4, <2>5
    <3> QED  BY <2>1, <2>3, <3>1 DEF T!StopAudio, T!SeekAudio, Transports
  <2>6. CASE ~(w.countIn > 0)
    <3>1. r = T!StartAudio(p, s) /\ p.left = 0  BY <2>2, <2>3, <2>4, <2>6
    <3>2. s \in 0..MaxTick  BY <2>1
    <3>3. /\ r \in Transports /\ r.capture = p.capture /\ r.recAt = p.recAt
          /\ r.armed = p.armed /\ r.pending = p.pending /\ r.takes = p.takes /\ r.countIn = p.countIn
          /\ r.disturbed = p.disturbed /\ r.left = p.left /\ r.tick = p.tick
          /\ r.clipsOn /\ r.clipsAt = s
      <4>1. p \in Transports /\ r = T!StartAudio(p, s)  BY <2>3, <3>1
      <4> QED  BY ONLY <4>1, <3>2 DEF T!StartAudio, Transports
    <3> QED  BY <2>3, <3>1, <3>3
  <2> QED  BY <2>5, <2>6
<1> HIDE DEF r
<1>3. TakesInv(r)  BY <1>2 DEF TakesInv
<1>4. CountsIn(r)  BY <1>2 DEF CountsIn
<1>5. Follows(r)  BY <1>2 DEF Follows, Together, Waiting
<1> QED  BY <1>2, <1>3, <1>4, <1>5 DEF Kept, r

\* seekTo
LEMMA SeekToKept ==
    ASSUME T!TransportAssumption, NEW w, Kept(w), NEW tick \in 0..MaxTick
    PROVE  Kept(T!SeekTo(w, tick)) /\ T!SeekTo(w, tick).playing = w.playing
<1> DEFINE r == T!SeekTo(w, tick)
<1>1. w \in Transports  BY DEF Kept
<1>2. /\ r \in Transports /\ r.playing = w.playing /\ r.recording = w.recording
      /\ r.capture = w.capture /\ r.recAt = w.recAt
      /\ r.armed = w.armed /\ r.pending = w.pending /\ r.takes = w.takes /\ r.countIn = w.countIn
      /\ r.disturbed = (w.disturbed \/ (w.armed /\ w.pending))
      /\ w.playing /\ ~w.recording => r.clipsOn /\ r.left = 0 /\ r.clipsAt = r.tick
  BY <1>1 DEF T!SeekTo, T!SeekAudio, T!StartAudio, T!Play, T!Disturbed, Transports
<1> HIDE DEF r
<1>3. TakesInv(r)  BY <1>2 DEF Kept, TakesInv
<1>4. r.pending => r.disturbed  BY <1>2 DEF Kept, TakesInv
<1>5. CountsIn(r)  BY <1>4 DEF CountsIn
<1>6. Follows(r)  BY <1>2, <1>4 DEF Follows, Bound, Together
<1> QED  BY <1>2, <1>3, <1>5, <1>6 DEF Kept, r

\* refreshPlaybackIfPlaying
LEMMA RefreshKept ==
    ASSUME T!TransportAssumption, NEW w, Kept(w)
    PROVE  Kept(T!RefreshPlayback(w))
<1> DEFINE r == T!RefreshPlayback(w)
<1>1. w \in Transports  BY DEF Kept
<1>a. CASE ~(w.playing /\ ~w.recording)  BY <1>a DEF T!RefreshPlayback
<1>b. CASE w.playing /\ ~w.recording
  <2>2. /\ r \in Transports /\ r.playing /\ r.capture = w.capture /\ r.recAt = w.recAt
        /\ r.armed = w.armed /\ r.pending = w.pending /\ r.takes = w.takes /\ r.countIn = w.countIn
        /\ r.disturbed = (w.disturbed \/ (w.armed /\ w.pending))
        /\ r.left = 0 /\ r.tick = w.pos /\ r.clipsOn = w.clipsOn /\ r.clipsAt = w.clipsAt
        /\ r.startPending = w.startPending
        /\ r.seam = (w.seam \/ (w.clipsOn /\ w.pos # w.tick))
    BY <1>1, <1>b DEF T!RefreshPlayback, T!Play, T!Disturbed, Transports
  <2> HIDE DEF r
  <2>3. TakesInv(r)  BY <2>2 DEF Kept, TakesInv
  <2>4. r.pending => r.disturbed  BY <2>2 DEF Kept, TakesInv
  <2>5. CountsIn(r)  BY <2>4 DEF CountsIn
  <2>6. Follows(r)
    <3> SUFFICES ASSUME Bound(r)  PROVE Together(r) \/ Waiting(r)  BY DEF Follows
    <3>1. Bound(w) /\ (w.clipsOn => w.pos = w.tick)  BY <1>b, <2>2 DEF Bound
    <3>2. CASE Together(w)  BY <2>2, <2>4, <3>1, <3>2 DEF Together
    <3>3. CASE Waiting(w)  BY <2>2, <3>3 DEF Waiting
    <3>4. ~Lapped(w)  BY <1>1, <3>1, BoundsAreNat DEF Lapped, Transports
    <3> QED  BY <3>1, <3>2, <3>3, <3>4 DEF Kept, Follows
  <2> QED  BY <2>2, <2>3, <2>5, <2>6 DEF Kept, r
<1> QED  BY <1>a, <1>b

\* A take that is placed now will lie right.
Placeable(w) ==
    /\ Len(w.takes) <= MaxTakes
    /\ w.capture # T!NoTake /\ ~w.disturbed => w.capture = w.recAt
    /\ \A k \in DOMAIN w.takes : w.takes[k].disturbed \/ w.takes[k].at = w.takes[k].from

\* stopRecording's take is placed: what remains is a recording without a capture.
LEMMA PlaceTakeKept ==
    ASSUME T!TransportAssumption, NEW w, w \in Transports, Placeable(w)
    PROVE  LET r == T!PlaceTake(w)
           IN  /\ r \in Transports /\ r.capture = T!NoTake
               /\ Len(r.takes) <= MaxTakes + 1
               /\ w.takes = r.takes \/ Len(r.takes) = Len(w.takes) + 1
               /\ \A k \in DOMAIN r.takes : r.takes[k].disturbed \/ r.takes[k].at = r.takes[k].from
               /\ r = [w EXCEPT !.capture = T!NoTake, !.takes = r.takes]
<1> DEFINE r == T!PlaceTake(w)
           take == [at |-> w.recAt, from |-> w.capture, disturbed |-> w.disturbed]
<1>1. /\ w.takes \in Seq(Take) /\ Len(w.takes) <= MaxTakes
      /\ \A k \in DOMAIN w.takes : w.takes[k].disturbed \/ w.takes[k].at = w.takes[k].from
  BY BoundsAreNat DEF Placeable, Transports
<1>2. CASE w.capture = T!NoTake
  <2>1. r = w /\ w = [w EXCEPT !.capture = T!NoTake, !.takes = w.takes]
    BY <1>2 DEF T!PlaceTake, Transports
  <2>2. Len(w.takes) \in Nat /\ MaxTakes \in Nat  BY <1>1, BoundsAreNat
  <2> QED  BY <1>1, <1>2, <2>1, <2>2
<1>3. CASE w.capture # T!NoTake
  <2> DEFINE s == Append(w.takes, take)
  <2>1. take \in Take /\ (take.disturbed \/ take.at = take.from)
    BY <1>3, BoundsAreNat DEF Placeable, Transports, Take, T!NoTake
  <2>2. r = [w EXCEPT !.capture = T!NoTake, !.takes = s]
    BY <1>3 DEF T!PlaceTake
  <2> HIDE DEF take, r
  <2>3. /\ s \in Seq(Take) /\ Len(s) = Len(w.takes) + 1 /\ DOMAIN s = 1 .. Len(w.takes) + 1
        /\ DOMAIN w.takes = 1 .. Len(w.takes) /\ Len(w.takes) \in Nat
        /\ s[Len(w.takes) + 1] = take
        /\ \A k \in 1 .. Len(w.takes) : s[k] = w.takes[k]
    BY <1>1, <2>1, AppendProperties
  <2>4. \A k \in DOMAIN s : s[k].disturbed \/ s[k].at = s[k].from
    <3> HIDE DEF s
    <3> SUFFICES ASSUME NEW k \in DOMAIN s  PROVE s[k].disturbed \/ s[k].at = s[k].from
      OBVIOUS
    <3>1. k \in 1 .. Len(w.takes) \/ k = Len(w.takes) + 1  BY <2>3
    <3> QED  BY <1>1, <2>1, <2>3, <3>1
  <2> HIDE DEF s
  <2>5. r \in Transports /\ r.capture = T!NoTake /\ r.takes = s
    <3>1. MaxTick + 1 \in 0..(MaxTick + 1)  BY BoundsAreNat
    <3> QED  BY <2>2, <2>3, <3>1 DEF Transports, T!NoTake
  <2>6. Len(r.takes) <= MaxTakes + 1  BY <1>1, <2>3, <2>5, BoundsAreNat
  <2> QED  BY <2>2, <2>3, <2>4, <2>5, <2>6 DEF r
<1> QED  BY <1>2, <1>3

\* The recording is over: its take is placed and nothing of it is left.
LEMMA UnarmedKept ==
    ASSUME T!TransportAssumption, NEW w, Kept(w), w.armed, ~w.pending
    PROVE  LET r == T!PlaceTake([w EXCEPT !.armed = FALSE])
           IN  /\ Kept(r) /\ ~r.armed /\ ~r.pending
               /\ r.playing = w.playing /\ r.recording = w.recording /\ r.seam = w.seam
               /\ r.clipsOn = w.clipsOn /\ r.clipsAt = w.clipsAt /\ r.left = w.left
               /\ r.tick = w.tick /\ r.startPending = w.startPending /\ r.pos = w.pos
<1> DEFINE x == [w EXCEPT !.armed = FALSE]
           r == T!PlaceTake(x)
<1>1. w \in Transports /\ TakesInv(w)  BY DEF Kept
<1>2. /\ x \in Transports /\ ~x.armed /\ ~x.pending /\ x.capture = w.capture /\ x.recAt = w.recAt
      /\ x.takes = w.takes /\ x.disturbed = w.disturbed
      /\ x.playing = w.playing /\ x.recording = w.recording /\ x.seam = w.seam
      /\ x.clipsOn = w.clipsOn /\ x.clipsAt = w.clipsAt /\ x.left = w.left /\ x.tick = w.tick
      /\ x.startPending = w.startPending /\ x.pos = w.pos /\ x.prev = w.prev
  BY <1>1 DEF Transports
<1>3. Placeable(x)  BY <1>1, <1>2, BoundsAreNat DEF Placeable, TakesInv
<1> HIDE DEF x
<1>4. /\ r \in Transports /\ r.capture = T!NoTake /\ Len(r.takes) <= MaxTakes + 1
      /\ \A k \in DOMAIN r.takes : r.takes[k].disturbed \/ r.takes[k].at = r.takes[k].from
      /\ r = [x EXCEPT !.capture = T!NoTake, !.takes = r.takes]
  BY <1>2, <1>3, PlaceTakeKept
<1> DEFINE took == r.takes
<1>5. r = [x EXCEPT !.capture = T!NoTake, !.takes = took]  BY <1>4
<1> HIDE DEF r, took
<1>6. /\ r.armed = x.armed /\ r.pending = x.pending
      /\ r.playing = x.playing /\ r.recording = x.recording /\ r.seam = x.seam
      /\ r.clipsOn = x.clipsOn /\ r.clipsAt = x.clipsAt /\ r.left = x.left /\ r.tick = x.tick
      /\ r.startPending = x.startPending /\ r.pos = x.pos /\ r.prev = x.prev
  BY <1>2, <1>5 DEF Transports
<1>7. TakesInv(r)  BY <1>2, <1>4, <1>6, BoundsAreNat DEF TakesInv
<1>8. CountsIn(r)  BY <1>2, <1>6 DEF CountsIn
<1>9. Follows(w)  BY DEF Kept
<1>10. Follows(r)  BY <1>2, <1>6, <1>9 DEF Follows, Bound, Together, Waiting, Lapped
<1> QED  BY <1>2, <1>4, <1>6, <1>7, <1>8, <1>10 DEF Kept, r, x

\* stopAudioRecording
LEMMA StopAudioRecordingKept ==
    ASSUME T!TransportAssumption, NEW w, Kept(w), NEW also \in BOOLEAN
    PROVE  Kept(T!StopAudioRecording(w, also))
<1>1. w \in Transports /\ TakesInv(w)  BY DEF Kept
<1> DEFINE u == [w EXCEPT !.armed = FALSE, !.pending = FALSE]
           p == T!PlaceTake([w EXCEPT !.armed = FALSE])
<1>2. CASE ~w.armed  BY <1>2 DEF T!StopAudioRecording
<1>3. CASE w.armed /\ w.pending
  <2>1. T!StopAudioRecording(w, also) = T!StopTransport(u)  BY <1>3 DEF T!StopAudioRecording
  <2>2. u \in Transports /\ ~u.armed /\ ~u.pending /\ u.capture = w.capture /\ u.takes = w.takes
        /\ u.disturbed = w.disturbed /\ u.recAt = w.recAt
    BY <1>1 DEF Transports
  <2> HIDE DEF u
  <2>3. Len(w.takes) \in Nat  BY <1>1 DEF Transports
  <2>4. TakesInv(u)  BY <1>1, <1>3, <2>2, <2>3, BoundsAreNat DEF TakesInv
  <2> QED  BY <2>1, <2>2, <2>4, StopTransportKept
<1>4. CASE w.armed /\ ~w.pending
  <2>1. Kept(p)  BY <1>4, UnarmedKept
  <2>2. T!StopAudioRecording(w, also) = IF also THEN T!StopTransport(p) ELSE T!RefreshPlayback(p)
    BY <1>4 DEF T!StopAudioRecording
  <2> HIDE DEF p
  <2>3. Kept(T!StopTransport(p))  BY <2>1, StopTransportKept DEF Kept
  <2>4. Kept(T!RefreshPlayback(p))  BY <2>1, RefreshKept
  <2> QED  BY <2>2, <2>3, <2>4
<1> QED  BY <1>2, <1>3, <1>4

\* A recording under way is finished before another: nothing is armed, and what the clips do
\* has not changed.
LEMMA FinishedFirst ==
    ASSUME T!TransportAssumption, NEW w, Kept(w), Len(w.takes) < MaxTakes
    PROVE  LET f == IF w.armed THEN T!Disarmed(T!PlaceTake(w)) ELSE w
           IN  /\ f \in Transports /\ TakesInv(f) /\ ~f.armed /\ ~f.pending
               /\ f.capture = T!NoTake /\ Len(f.takes) <= MaxTakes /\ f.drag = w.drag /\ f.countIn = w.countIn
               /\ ~w.pending => Follows(f)
<1>1. w \in Transports /\ TakesInv(w) /\ Follows(w)  BY DEF Kept
<1>2. Len(w.takes) \in Nat  BY <1>1 DEF Transports
<1>3. CASE ~w.armed  BY <1>1, <1>2, <1>3, BoundsAreNat DEF TakesInv
<1>4. CASE w.armed
  <2> DEFINE p == T!PlaceTake(w)
             took == p.takes
             f == T!Disarmed(p)
  <2>1. Placeable(w)  BY <1>1, <1>2, <1>4, BoundsAreNat DEF Placeable, TakesInv
  <2>2. /\ p \in Transports /\ p.capture = T!NoTake /\ Len(p.takes) <= MaxTakes + 1
        /\ w.takes = p.takes \/ Len(p.takes) = Len(w.takes) + 1
        /\ \A k \in DOMAIN p.takes : p.takes[k].disturbed \/ p.takes[k].at = p.takes[k].from
        /\ p = [w EXCEPT !.capture = T!NoTake, !.takes = p.takes]
    BY <1>1, <2>1, PlaceTakeKept
  <2>3. p = [w EXCEPT !.capture = T!NoTake, !.takes = took]  BY <2>2
  <2>4. Len(took) <= MaxTakes  BY <1>2, <2>2, BoundsAreNat
  <2> HIDE DEF took, p
  <2>5. /\ p.drag = w.drag /\ p.countIn = w.countIn
        /\ p.playing = w.playing /\ p.recording = w.recording /\ p.seam = w.seam
        /\ p.clipsOn = w.clipsOn /\ p.clipsAt = w.clipsAt /\ p.left = w.left /\ p.tick = w.tick
        /\ p.startPending = w.startPending /\ p.pos = w.pos /\ p.prev = w.prev
    BY <1>1, <2>3 DEF Transports
  <2>6. /\ f \in Transports /\ ~f.armed /\ ~f.pending /\ f.capture = p.capture /\ f.takes = p.takes
        /\ f.drag = p.drag /\ f.countIn = p.countIn
        /\ f.playing = p.playing /\ f.recording = p.recording /\ f.seam = p.seam
        /\ f.clipsOn = p.clipsOn /\ f.clipsAt = p.clipsAt /\ f.left = p.left /\ f.tick = p.tick
        /\ f.startPending = p.startPending /\ f.pos = p.pos /\ f.prev = p.prev
    BY <2>2 DEF Transports, T!Disarmed
  <2> HIDE DEF f
  <2>7. Len(f.takes) <= MaxTakes  BY <2>4, <2>6 DEF took
  <2>8. TakesInv(f)  BY <2>2, <2>6, BoundsAreNat DEF TakesInv
  <2>9. ~w.pending => Follows(f)
    BY <1>1, <2>5, <2>6 DEF Follows, Bound, Together, Waiting, Lapped
  <2> QED  BY <1>4, <2>2, <2>5, <2>6, <2>7, <2>8, <2>9 DEF f, p
<1> QED  BY <1>3, <1>4

\* startAudioRecording
LEMMA StartAudioRecordingKept ==
    ASSUME T!TransportAssumption, NEW w, Kept(w), Len(w.takes) < MaxTakes, w.drag = "none",
           NEW ready \in BOOLEAN
    PROVE  Kept(T!StartAudioRecording(w, ready))
<1> DEFINE f == IF w.armed THEN T!Disarmed(T!PlaceTake(w)) ELSE w
           a == T!Armed(f)
           r == T!StartAudioRecording(w, ready)
<1>1. w \in Transports  BY DEF Kept
<1>2. /\ f \in Transports /\ TakesInv(f) /\ ~f.armed /\ ~f.pending
      /\ f.capture = T!NoTake /\ Len(f.takes) <= MaxTakes /\ f.drag = w.drag /\ f.countIn = w.countIn
      /\ ~w.pending => Follows(f)
  BY FinishedFirst
<1>3. r = IF ~ready THEN [f EXCEPT !.seam = @ \/ w.pending]
          ELSE IF w.countIn > 0
               THEN [T!Play(T!SeekAudio(T!StopAudio(a), a.pos), a.pos, w.countIn) EXCEPT !.pending = TRUE]
               ELSE T!StartPlayback([a EXCEPT !.capture = a.pos])
  BY DEF T!StartAudioRecording
<1> HIDE DEF f, r
<1>4. CASE ~ready
  <2>1. r = [f EXCEPT !.seam = @ \/ w.pending]  BY <1>3, <1>4
  <2>2. /\ r \in Transports /\ r.armed = f.armed /\ r.pending = f.pending /\ r.capture = f.capture
        /\ r.takes = f.takes /\ r.drag = f.drag
        /\ r.playing = f.playing /\ r.recording = f.recording /\ r.seam = (f.seam \/ w.pending)
        /\ r.clipsOn = f.clipsOn /\ r.clipsAt = f.clipsAt /\ r.left = f.left /\ r.tick = f.tick
        /\ r.startPending = f.startPending /\ r.pos = f.pos /\ r.prev = f.prev
    BY ONLY <1>1, <1>2, <2>1 DEF Transports
  <2>3. TakesInv(r)  BY <1>2, <2>2, BoundsAreNat DEF TakesInv
  <2>4. CountsIn(r)  BY <1>2, <2>2 DEF CountsIn
  <2>5. Follows(r)  BY <1>2, <2>2 DEF Follows, Bound, Together, Waiting, Lapped
  <2> QED  BY <2>2, <2>3, <2>4, <2>5 DEF Kept, r
<1>5. CASE ready
  <2> DEFINE s == T!Start(f)
  <2>1. s \in 0..MaxTick  BY <1>2, StartIsTick
  <2>2. a = [f EXCEPT !.armed = TRUE, !.disturbed = FALSE, !.recAt = s, !.pos = s]
    BY DEF T!Armed
  <2> HIDE DEF a, s
  <2>3. /\ a \in Transports /\ a.armed /\ ~a.pending /\ ~a.disturbed /\ a.recAt = s /\ a.pos = s
        /\ a.capture = f.capture /\ a.takes = f.takes /\ a.drag = f.drag /\ a.countIn = f.countIn
    BY ONLY <1>2, <2>1, <2>2 DEF Transports
  <2>4. w.countIn \in CountIns \cup {0}  BY <1>1 DEF Transports
  <2>5. w.countIn \in Nat  BY <2>4, CountInsAreNat
  <2>6. a.countIn = w.countIn  BY <1>2, <2>3
  <2>7. CASE w.countIn > 0
    <3>1. r = [T!Play(T!SeekAudio(T!StopAudio(a), s), s, w.countIn) EXCEPT !.pending = TRUE]
      BY <1>3, <1>5, <2>3, <2>7
    <3>2. /\ r \in Transports /\ r.armed = a.armed /\ r.pending /\ r.disturbed = a.disturbed
          /\ r.recAt = a.recAt /\ r.tick = s /\ r.playing /\ ~r.clipsOn /\ r.capture = a.capture
          /\ r.takes = a.takes /\ r.drag = a.drag /\ r.countIn = a.countIn
      BY ONLY <2>1, <2>3, <2>5, <3>1 DEF Transports, T!Play, T!SeekAudio, T!StopAudio
    <3>3. w.countIn \in CountIns  BY <2>4, <2>7
    <3>4. TakesInv(r)  BY <1>2, <2>3, <2>6, <3>2, <3>3, BoundsAreNat DEF TakesInv
    <3>5. CountsIn(r)  BY <1>2, <2>3, <3>2 DEF CountsIn
    <3>6. Follows(r)  BY <3>2 DEF Follows, Waiting
    <3> QED  BY <3>2, <3>4, <3>5, <3>6 DEF Kept, r
  <2>8. CASE ~(w.countIn > 0)
    <3> DEFINE c == [a EXCEPT !.capture = a.pos]
    <3>1. r = T!StartPlayback(c)  BY <1>3, <1>5, <2>8
    <3>2. s \in 0..T!NoTake  BY <2>1, BoundsAreNat DEF T!NoTake
    <3>3. /\ c \in Transports /\ c.armed = a.armed /\ c.pending = a.pending /\ c.disturbed = a.disturbed
          /\ c.recAt = a.recAt /\ c.capture = s /\ c.takes = a.takes
      BY ONLY <2>3, <3>2 DEF Transports
    <3> HIDE DEF c
    <3>4. TakesInv(c)  BY <1>2, <2>3, <3>3, BoundsAreNat DEF TakesInv
    <3> QED  BY <2>3, <3>1, <3>3, <3>4, StartPlaybackKept DEF r
  <2> QED  BY <2>7, <2>8
<1> QED  BY <1>4, <1>5

\* The start of the bar is at or before the position, and that of the bar before it too.
LEMMA BarStartIsTick ==
    ASSUME T!TransportAssumption, t \in Transports
    PROVE  /\ T!BarStart \in 0..MaxTick
           /\ T!BarStart >= SongBar => T!BarStart - SongBar \in 0..MaxTick
<1>1. \A x \in Nat, b \in Nat \ {0} : (x \div b) * b \in Nat /\ (x \div b) * b <= x
  OBVIOUS
<1>2. t.pos \in 0..MaxTick /\ SongBar \in Nat \ {0} /\ MaxTick \in Nat
  BY BoundsAreNat DEF Transports
<1> QED  BY <1>1, <1>2 DEF T!BarStart

LEMMA CommandKept ==
    ASSUME NEW w, T!Command(w), Kept(w)
    PROVE  TransportInv'
<1>1. t' = w /\ seen' = FALSE  BY DEF T!Command
<1>2. Kept(t')  BY <1>1
<1> QED  BY <1>1, <1>2 DEF TransportInv

\* A setting changed, or MIDI recording started.
LEMMA SettingsKept ==
    ASSUME T!TransportAssumption, Kept(t)
    PROVE  /\ \A l \in Regions : Kept([t EXCEPT !.loop = l])
           /\ \A n \in CountIns : Kept([t EXCEPT !.countIn = n])
           /\ Kept(T!Play([T!Disturbed(t) EXCEPT !.recording = TRUE], 0, t.countIn))
<1>1. t \in Transports /\ TakesInv(t) /\ CountsIn(t) /\ Follows(t)  BY DEF Kept
<1>2. ASSUME NEW l \in Regions  PROVE Kept([t EXCEPT !.loop = l])
  <2> DEFINE r == [t EXCEPT !.loop = l]
  <2>1. /\ r \in Transports /\ r.armed = t.armed /\ r.pending = t.pending /\ r.capture = t.capture
        /\ r.takes = t.takes /\ r.drag = t.drag /\ r.disturbed = t.disturbed /\ r.recAt = t.recAt
        /\ r.countIn = t.countIn
        /\ r.playing = t.playing /\ r.recording = t.recording /\ r.seam = t.seam
        /\ r.clipsOn = t.clipsOn /\ r.clipsAt = t.clipsAt /\ r.left = t.left /\ r.tick = t.tick
        /\ r.startPending = t.startPending /\ r.pos = t.pos /\ r.prev = t.prev
    BY ONLY <1>1, <1>2 DEF Transports
  <2> HIDE DEF r
  <2>2. TakesInv(r)  BY <1>1, <2>1 DEF TakesInv
  <2>3. CountsIn(r)  BY <1>1, <2>1 DEF CountsIn
  <2>4. Follows(r)  BY <1>1, <2>1 DEF Follows, Bound, Together, Waiting, Lapped
  <2> QED  BY <2>1, <2>2, <2>3, <2>4 DEF Kept, r
<1>3. ASSUME NEW n \in CountIns  PROVE Kept([t EXCEPT !.countIn = n])
  <2> DEFINE r == [t EXCEPT !.countIn = n]
  <2>1. /\ r \in Transports /\ r.armed = t.armed /\ r.pending = t.pending /\ r.capture = t.capture
        /\ r.takes = t.takes /\ r.drag = t.drag /\ r.disturbed = t.disturbed /\ r.recAt = t.recAt
        /\ r.countIn = n
        /\ r.playing = t.playing /\ r.recording = t.recording /\ r.seam = t.seam
        /\ r.clipsOn = t.clipsOn /\ r.clipsAt = t.clipsAt /\ r.left = t.left /\ r.tick = t.tick
        /\ r.startPending = t.startPending /\ r.pos = t.pos /\ r.prev = t.prev
    BY ONLY <1>1, <1>3 DEF Transports
  <2> HIDE DEF r
  <2>2. TakesInv(r)  BY <1>1, <1>3, <2>1 DEF TakesInv
  <2>3. CountsIn(r)  BY <1>1, <2>1 DEF CountsIn
  <2>4. Follows(r)  BY <1>1, <2>1 DEF Follows, Bound, Together, Waiting, Lapped
  <2> QED  BY <2>1, <2>2, <2>3, <2>4 DEF Kept, r
<1>4. Kept(T!Play([T!Disturbed(t) EXCEPT !.recording = TRUE], 0, t.countIn))
  <2> DEFINE d == T!Disturbed(t)
             n == t.countIn
             u == [d EXCEPT !.recording = TRUE]
             z == 0
             r == T!Play(u, z, n)
  <2>1. t.countIn \in CountIns \cup {0}  BY <1>1 DEF Transports
  <2>2. n \in Nat /\ z \in 0..MaxTick  BY <2>1, CountInsAreNat, BoundsAreNat
  <2> HIDE DEF n, z
  <2>3. /\ d \in Transports /\ d.armed = t.armed /\ d.pending = t.pending /\ d.capture = t.capture
        /\ d.takes = t.takes /\ d.disturbed = (t.disturbed \/ (t.armed /\ t.pending))
        /\ d.recAt = t.recAt /\ d.countIn = t.countIn
    BY ONLY <1>1 DEF Transports, T!Disturbed
  <2> HIDE DEF d
  <2>4. /\ r \in Transports /\ r.armed = d.armed /\ r.pending = d.pending /\ r.capture = d.capture
        /\ r.takes = d.takes /\ r.disturbed = d.disturbed /\ r.recAt = d.recAt
        /\ r.countIn = d.countIn /\ r.recording
    BY ONLY <2>2, <2>3 DEF Transports, T!Play
  <2> HIDE DEF r
  <2>5. TakesInv(r)  BY <1>1, <2>3, <2>4 DEF TakesInv
  <2>6. CountsIn(r)  BY <1>1, <2>3, <2>4 DEF CountsIn, TakesInv
  <2>7. Follows(r)  BY <2>4 DEF Follows, Bound
  <2>8. Kept(r)  BY <2>4, <2>5, <2>6, <2>7 DEF Kept
  <2> QED  BY <2>8 DEF r, u, d, n, z
<1> QED  BY <1>2, <1>3, <1>4

\* The scrubber: taken, moved and let go.
LEMMA ScrubberKept ==
    ASSUME T!TransportAssumption, Kept(t)
    PROVE  /\ t.playing => Kept([T!StopAudio(T!StopPlayer(T!Disturbed(t))) EXCEPT !.drag = "playing"])
           /\ ~t.playing => Kept([t EXCEPT !.drag = "stopped"])
           /\ \A tick \in 0..MaxTick :
                Kept([T!SeekAudio(T!Disturbed(t), tick) EXCEPT !.pos = tick, !.seam = @ \/ t.playing])
           /\ t.drag # "none" =>
                LET d == [t EXCEPT !.drag = "none"]
                IN  Kept(d) /\ Kept(T!StartPlayback(d))
<1>1. t \in Transports /\ TakesInv(t) /\ CountsIn(t) /\ Follows(t)  BY DEF Kept
<1> DEFINE v == T!Disturbed(t)
<1>2. /\ v \in Transports /\ v.armed = t.armed /\ v.pending = t.pending /\ v.capture = t.capture
      /\ v.takes = t.takes /\ v.disturbed = (t.disturbed \/ (t.armed /\ t.pending))
      /\ v.recAt = t.recAt /\ v.countIn = t.countIn /\ v.playing = t.playing /\ v.seam = t.seam
  BY ONLY <1>1 DEF Transports, T!Disturbed
<1> HIDE DEF v
<1>3. ASSUME t.playing
      PROVE Kept([T!StopAudio(T!StopPlayer(v)) EXCEPT !.drag = "playing"])
  <2> DEFINE r == [T!StopAudio(T!StopPlayer(v)) EXCEPT !.drag = "playing"]
  <2>1. /\ r \in Transports /\ r.armed = v.armed /\ r.pending = v.pending /\ r.capture = v.capture
        /\ r.takes = v.takes /\ r.disturbed = v.disturbed /\ r.recAt = v.recAt
        /\ r.countIn = v.countIn /\ ~r.playing
    BY ONLY <1>2 DEF Transports, T!StopAudio, T!StopPlayer
  <2> HIDE DEF r
  <2>2. TakesInv(r)  BY <1>1, <1>2, <2>1 DEF TakesInv
  <2>3. CountsIn(r)  BY <1>1, <1>2, <2>1 DEF CountsIn, TakesInv
  <2>4. Follows(r)  BY <2>1 DEF Follows, Bound
  <2> QED  BY <2>1, <2>2, <2>3, <2>4 DEF Kept, r
<1>4. ASSUME ~t.playing  PROVE Kept([t EXCEPT !.drag = "stopped"])
  <2> DEFINE r == [t EXCEPT !.drag = "stopped"]
  <2>1. /\ r \in Transports /\ r.armed = t.armed /\ r.pending = t.pending /\ r.capture = t.capture
        /\ r.takes = t.takes /\ r.disturbed = t.disturbed /\ r.recAt = t.recAt
        /\ r.countIn = t.countIn /\ r.playing = t.playing
    BY ONLY <1>1 DEF Transports
  <2> HIDE DEF r
  <2>2. TakesInv(r)  BY <1>1, <2>1 DEF TakesInv
  <2>3. CountsIn(r)  BY <1>1, <1>4, <2>1 DEF CountsIn
  <2>4. Follows(r)  BY <1>4, <2>1 DEF Follows, Bound
  <2> QED  BY <2>1, <2>2, <2>3, <2>4 DEF Kept, r
<1>5. ASSUME NEW tick \in 0..MaxTick
      PROVE Kept([T!SeekAudio(v, tick) EXCEPT !.pos = tick, !.seam = @ \/ t.playing])
  <2> DEFINE r == [T!SeekAudio(v, tick) EXCEPT !.pos = tick, !.seam = @ \/ t.playing]
  <2>1. /\ r \in Transports /\ r.armed = v.armed /\ r.pending = v.pending /\ r.capture = v.capture
        /\ r.takes = v.takes /\ r.disturbed = v.disturbed /\ r.recAt = v.recAt
        /\ r.countIn = v.countIn /\ r.playing = v.playing /\ r.seam = (v.seam \/ t.playing)
    BY ONLY <1>1, <1>2, <1>5 DEF Transports, T!SeekAudio
  <2> HIDE DEF r
  <2>2. TakesInv(r)  BY <1>1, <1>2, <2>1 DEF TakesInv
  <2>3. CountsIn(r)  BY <1>1, <1>2, <2>1 DEF CountsIn, TakesInv
  <2>4. Follows(r)  BY <1>2, <2>1 DEF Follows, Bound
  <2> QED  BY <2>1, <2>2, <2>3, <2>4 DEF Kept, r
<1>6. ASSUME t.drag # "none"
      PROVE LET d == [t EXCEPT !.drag = "none"]
            IN  Kept(d) /\ Kept(T!StartPlayback(d))
  <2> DEFINE r == [t EXCEPT !.drag = "none"]
  <2>1. /\ r \in Transports /\ r.armed = t.armed /\ r.pending = t.pending /\ r.capture = t.capture
        /\ r.takes = t.takes /\ r.disturbed = t.disturbed /\ r.recAt = t.recAt
        /\ r.countIn = t.countIn
        /\ r.playing = t.playing /\ r.recording = t.recording /\ r.seam = t.seam
        /\ r.clipsOn = t.clipsOn /\ r.clipsAt = t.clipsAt /\ r.left = t.left /\ r.tick = t.tick
        /\ r.startPending = t.startPending /\ r.pos = t.pos /\ r.prev = t.prev
    BY ONLY <1>1 DEF Transports
  <2> HIDE DEF r
  <2>2. TakesInv(r)  BY <1>1, <2>1 DEF TakesInv
  <2>3. t.pending => t.disturbed  BY <1>1, <1>6 DEF CountsIn
  <2>4. CountsIn(r)  BY <2>1, <2>3 DEF CountsIn
  <2>5. Follows(r)  BY <1>1, <2>1 DEF Follows, Bound, Together, Waiting, Lapped
  <2>6. Kept(r)  BY <2>1, <2>2, <2>4, <2>5 DEF Kept
  <2>7. Kept(T!StartPlayback(r))  BY <2>1, <2>2, <2>3, StartPlaybackKept
  <2> QED  BY <2>6, <2>7 DEF r
<1> QED  BY <1>3, <1>4, <1>5, <1>6 DEF v

\* Every command of the user and of the control channel.
LEMMA CommandsKept ==
    ASSUME T!TransportAssumption, TransportInv,
           \/ T!SpaceKey \/ T!StopButton \/ T!RewindButton \/ T!PlayFromBar \/ T!PreviousBar
           \/ T!Edit \/ T!RecordButton
           \/ \E tick \in Spots : T!Seek(tick) \/ T!Drag(tick) \/ T!RemoteSeek(tick)
           \/ \E l \in SongLoops \cup {T!NoLoop} : T!SetLoop(l)
           \/ \E n \in CountIns : T!SetCountIn(n)
           \/ \E ready \in BOOLEAN : T!RecordKey(ready) \/ T!RecordTrack(ready)
           \/ T!Grab \/ T!Drop \/ T!RemotePlay \/ T!RemoteStop
    PROVE  TransportInv'
<1>1. Kept(t) /\ t \in Transports /\ TakesInv(t) /\ CountsIn(t)  BY DEF TransportInv, Kept
<1>2. ~t.armed \/ ~t.playing => (t.pending => t.disturbed)  BY <1>1 DEF TakesInv, CountsIn
<1> DEFINE s == T!StopTransport(t)
<1>3. /\ Kept(s) /\ s \in Transports /\ TakesInv(s) /\ ~s.playing
  BY <1>1, StopTransportKept DEF Kept
<1> HIDE DEF s
<1>4. \A tick \in Spots : tick \in 0..MaxTick  BY DEF T!TransportAssumption
<1>5. 0 \in 0..MaxTick  BY BoundsAreNat
<1>6. CASE T!SpaceKey
  <2> DEFINE w == IF t.armed THEN T!StopAudioRecording(t, TRUE) ELSE T!TogglePlayback(t)
  <2>1. T!Command(w)  BY <1>6 DEF T!SpaceKey
  <2>2. TRUE \in BOOLEAN  OBVIOUS
  <2>3. CASE t.armed
    <3>1. w = T!StopAudioRecording(t, TRUE)  BY <2>3
    <3> QED  BY <1>1, <2>1, <2>2, <3>1, StopAudioRecordingKept, CommandKept
  <2>4. CASE ~t.armed
    <3>1. w = IF t.playing THEN s ELSE T!StartPlayback(t)  BY <2>4 DEF T!TogglePlayback, s
    <3>2. Kept(T!StartPlayback(t))  BY <1>1, <1>2, <2>4, StartPlaybackKept
    <3> QED  BY <1>3, <2>1, <3>1, <3>2, CommandKept
  <2> QED  BY <2>3, <2>4
<1>7. CASE T!StopButton \/ T!RemoteStop
  <2>1. T!Command(s)  BY <1>7 DEF T!StopButton, T!RemoteStop, s
  <2> QED  BY <1>3, <2>1, CommandKept
<1>8. CASE T!RewindButton
  <2>1. T!Command(T!SeekTo(s, 0))  BY <1>8 DEF T!RewindButton, s
  <2> QED  BY <1>3, <1>5, <2>1, SeekToKept, CommandKept
<1>9. CASE T!PlayFromBar
  <2> DEFINE m == T!SeekTo(s, T!BarStart)
  <2>1. T!Command(T!StartPlayback(m))  BY <1>9 DEF T!PlayFromBar, s
  <2>2. T!BarStart \in 0..MaxTick  BY <1>1, BarStartIsTick
  <2>3. Kept(m) /\ ~m.playing  BY <1>3, <2>2, SeekToKept
  <2> HIDE DEF m
  <2>4. Kept(T!StartPlayback(m))  BY <2>3, StartPlaybackKept DEF Kept, CountsIn
  <2> QED  BY <2>1, <2>4, CommandKept
<1>10. CASE T!PreviousBar
  <2> DEFINE x == IF t.pos > T!BarStart THEN T!BarStart
                  ELSE IF T!BarStart >= SongBar THEN T!BarStart - SongBar ELSE 0
  <2>1. x \in 0..MaxTick  BY <1>1, <1>5, BarStartIsTick
  <2>2. T!Command(T!SeekTo(t, x))  BY <1>10 DEF T!PreviousBar
  <2> HIDE DEF x
  <2> QED  BY <1>1, <2>1, <2>2, SeekToKept, CommandKept
<1>11. CASE T!Edit
  BY <1>1, <1>11, RefreshKept, CommandKept DEF T!Edit
<1>12. CASE T!RecordButton
  <2> DEFINE p == T!Play([T!Disturbed(t) EXCEPT !.recording = TRUE], 0, t.countIn)
  <2>1. Kept(p)  BY <1>1, SettingsKept
  <2>2. T!Command(IF t.recording THEN s ELSE p)  BY <1>12 DEF T!RecordButton, s
  <2> HIDE DEF p
  <2> QED  BY <1>3, <2>1, <2>2, CommandKept
<1>13. ASSUME NEW tick \in Spots, T!Seek(tick) \/ T!RemoteSeek(tick)  PROVE TransportInv'
  <2>1. T!Command(T!SeekTo(t, tick))  BY <1>13 DEF T!Seek, T!RemoteSeek
  <2> QED  BY <1>1, <1>4, <2>1, SeekToKept, CommandKept
<1>14. ASSUME NEW tick \in Spots, T!Drag(tick)  PROVE TransportInv'
  <2> DEFINE d == [T!SeekAudio(T!Disturbed(t), tick) EXCEPT !.pos = tick, !.seam = @ \/ t.playing]
  <2>1. T!Command(d)  BY <1>14 DEF T!Drag
  <2>2. Kept(d)  BY <1>1, <1>4, ScrubberKept
  <2> HIDE DEF d
  <2> QED  BY <2>1, <2>2, CommandKept
<1>15. ASSUME NEW l \in SongLoops \cup {T!NoLoop}, T!SetLoop(l)  PROVE TransportInv'
  <2>1. T!Command([t EXCEPT !.loop = l])  BY <1>15 DEF T!SetLoop
  <2>2. Kept([t EXCEPT !.loop = l])  BY <1>1, SettingsKept DEF Regions
  <2> QED  BY <2>1, <2>2, CommandKept
<1>16. ASSUME NEW n \in CountIns, T!SetCountIn(n)  PROVE TransportInv'
  <2>1. T!Command([t EXCEPT !.countIn = n])  BY <1>16 DEF T!SetCountIn
  <2>2. Kept([t EXCEPT !.countIn = n])  BY <1>1, SettingsKept
  <2> QED  BY <2>1, <2>2, CommandKept
<1>17. ASSUME NEW ready \in BOOLEAN, T!RecordKey(ready) \/ T!RecordTrack(ready)  PROVE TransportInv'
  <2>1. t.drag = "none" /\ Len(t.takes) < MaxTakes
    BY <1>17 DEF T!RecordKey, T!RecordTrack, T!Free, T!Fits
  <2>2. Kept(T!StartAudioRecording(t, ready))  BY <1>1, <2>1, StartAudioRecordingKept
  <2>3. TRUE \in BOOLEAN  OBVIOUS
  <2>4. Kept(T!StopAudioRecording(t, TRUE))  BY <1>1, <2>3, StopAudioRecordingKept
  <2>5. T!Command(T!StopAudioRecording(t, TRUE)) \/ T!Command(T!StartAudioRecording(t, ready))
    <3>1. CASE t.armed  BY <1>17, <3>1 DEF T!RecordKey, T!RecordTrack
    <3>2. CASE ~t.armed  BY <1>17, <3>2 DEF T!RecordKey, T!RecordTrack
    <3> QED  BY <3>1, <3>2
  <2> QED  BY <2>2, <2>4, <2>5, CommandKept
<1>18. CASE T!Grab
  <2> DEFINE g == [T!StopAudio(T!StopPlayer(T!Disturbed(t))) EXCEPT !.drag = "playing"]
             h == [t EXCEPT !.drag = "stopped"]
  <2>1. T!Command(IF t.playing THEN g ELSE h)  BY <1>18 DEF T!Grab
  <2>2. (t.playing => Kept(g)) /\ (~t.playing => Kept(h))  BY <1>1, ScrubberKept
  <2> HIDE DEF g, h
  <2> QED  BY <2>1, <2>2, CommandKept
<1>19. CASE T!Drop
  <2> DEFINE d == [t EXCEPT !.drag = "none"]
  <2>1. t.drag # "none" /\ T!Command(IF t.drag = "playing" THEN T!StartPlayback(d) ELSE d)
    BY <1>19 DEF T!Drop, T!Free
  <2>2. Kept(d) /\ Kept(T!StartPlayback(d))  BY <1>1, <2>1, ScrubberKept
  <2> HIDE DEF d
  <2> QED  BY <2>1, <2>2, CommandKept
<1>20. CASE T!RemotePlay
  <2>1. ~t.playing /\ T!Command(T!StartPlayback(t))  BY <1>20 DEF T!RemotePlay
  <2> QED  BY <1>1, <1>2, <2>1, StartPlaybackKept, CommandKept
<1> QED
  BY <1>6, <1>7, <1>8, <1>9, <1>10, <1>11, <1>12, <1>13, <1>14, <1>15, <1>16, <1>17, <1>18, <1>19, <1>20

\* A tick between two frames: the clips go on with the player, and a lap that begins is one
\* the next frame will see.
LEMMA TimeKept ==
    ASSUME T!TransportAssumption, TransportInv, T!Time
    PROVE  TransportInv'
<1> DEFINE a == T!Ahead(t)
           n == IF t.clipsOn THEN t.clipsAt + 1 ELSE t.clipsAt
           r == [a EXCEPT !.clipsAt = n]
<1>1. t \in Transports /\ TakesInv(t) /\ CountsIn(t) /\ Settled(t)
  BY DEF TransportInv, Kept, T!Time
<1>2. t.tick < MaxTick /\ t.clipsAt < MaxTick /\ seen' = FALSE  BY DEF T!Time
<1>3. n \in 0..MaxTick  BY <1>1, <1>2, BoundsAreNat DEF Transports
<1>4. a \in Transports /\ a.clipsAt = t.clipsAt => t' = r
  <2>1. t' = [a EXCEPT !.clipsAt = IF t.clipsOn THEN @ + 1 ELSE @]  BY DEF T!Time
  <2> HIDE DEF a
  <2> QED  BY <2>1 DEF Transports
<1> HIDE DEF n
<1>5. ASSUME a \in Transports, a.clipsAt = t.clipsAt, a.takes = t.takes, a.armed = t.armed,
             a.pending = t.pending, a.capture = t.capture, a.recAt = t.recAt,
             a.disturbed = t.disturbed, a.countIn = t.countIn, a.drag = t.drag,
             a.playing = t.playing, a.clipsOn = t.clipsOn, a.recording = t.recording, a.seam = t.seam,
             a.startPending = t.startPending, a.pos = t.pos, a.prev = t.prev,
             t.pending => a.tick = t.tick,
             Bound(t) => \/ t.clipsOn /\ a.left = 0 /\ n = a.tick /\ ~t.pending
                         \/ Waiting(t)
                         \/ t.clipsOn /\ ~t.pending /\ ~t.startPending /\ a.tick + Jump < t.prev
      PROVE  TransportInv'
  <2> HIDE DEF a
  <2>1. /\ r \in Transports /\ r.armed = t.armed /\ r.pending = t.pending /\ r.capture = t.capture
        /\ r.takes = t.takes /\ r.drag = t.drag /\ r.disturbed = t.disturbed /\ r.recAt = t.recAt
        /\ r.countIn = t.countIn
        /\ r.playing = t.playing /\ r.recording = t.recording /\ r.seam = t.seam
        /\ r.clipsOn = t.clipsOn /\ r.clipsAt = n /\ r.left = a.left /\ r.tick = a.tick
        /\ r.startPending = t.startPending /\ r.pos = t.pos /\ r.prev = t.prev
    BY <1>3, <1>5 DEF Transports
  <2>2. t' = r  BY <1>4, <1>5
  <2> HIDE DEF r
  <2>3. TakesInv(r)  BY <1>1, <2>1 DEF TakesInv
  <2>4. CountsIn(r)  BY <1>1, <1>5, <2>1 DEF CountsIn
  <2>5. Follows(r)
    <3>1. Bound(r) => Bound(t)  BY <2>1 DEF Bound
    <3>2. t.pos = t.prev  BY <1>1 DEF Settled
    <3> QED  BY <1>5, <2>1, <3>1, <3>2 DEF Follows, Together, Waiting, Lapped
  <2>6. Kept(r)  BY <2>1, <2>3, <2>4, <2>5 DEF Kept
  <2>7. Kept(t')  BY <2>2, <2>6
  <2> QED  BY <1>2, <2>7 DEF TransportInv
<1>6. CASE ~t.playing
  <2>1. a = t  BY <1>6 DEF T!Ahead
  <2> HIDE DEF a
  <2> QED  BY <1>1, <1>5, <1>6, <2>1 DEF Bound
<1>7. CASE t.playing /\ t.left > 0
  <2> DEFINE m == t.left - 1
  <2>1. a = [t EXCEPT !.left = m]  BY <1>7 DEF T!Ahead
  <2>2. m \in Nat  BY <1>1, <1>7 DEF Transports
  <2>3. Bound(t) => Waiting(t)  BY <1>1, <1>7 DEF Settled, Together
  <2> HIDE DEF a, m
  <2>4. /\ a \in Transports /\ a.armed = t.armed /\ a.pending = t.pending /\ a.capture = t.capture
        /\ a.takes = t.takes /\ a.drag = t.drag /\ a.disturbed = t.disturbed /\ a.recAt = t.recAt
        /\ a.countIn = t.countIn
        /\ a.playing = t.playing /\ a.recording = t.recording /\ a.seam = t.seam
        /\ a.clipsOn = t.clipsOn /\ a.clipsAt = t.clipsAt /\ a.tick = t.tick
        /\ a.startPending = t.startPending /\ a.pos = t.pos /\ a.prev = t.prev
    BY ONLY <1>1, <2>1, <2>2 DEF Transports
  <2> QED  BY <1>5, <2>3, <2>4
<1>8. CASE t.playing /\ ~(t.left > 0)
  <2>1. t.left = 0 /\ ~t.pending  BY <1>1, <1>8 DEF Transports, Settled
  <2>2. Bound(t) => \/ t.clipsOn /\ t.clipsAt = t.tick /\ ~t.startPending
                    \/ Waiting(t)
    BY <1>1 DEF Settled, Together
  <2>3. t.tick = t.prev  BY <1>1, <1>8 DEF Settled
  <2>4. CASE T!Looping(t.lap) /\ t.tick + 1 >= t.lap[2]
    <3> DEFINE k == t.lap[1]
               c == t.lapCount
    <3>1. a = [t EXCEPT !.tick = k, !.left = c]  BY <1>8, <2>4 DEF T!Ahead
    <3>2. t.lap \in SongLoops  BY <1>1, <2>4 DEF Transports, Regions, T!Looping
    <3>3. k \in 0..MaxTick /\ t.lap[2] \in Nat /\ k + Jump + 1 < t.lap[2]
      BY <3>2 DEF T!TransportAssumption
    <3>4. k + Jump < t.prev  BY <1>1, <2>3, <2>4, <3>3, BoundsAreNat DEF Transports
    <3>5. c \in Nat  BY <1>1 DEF Transports
    <3> HIDE DEF a, k, c
    <3>6. /\ a \in Transports /\ a.armed = t.armed /\ a.pending = t.pending /\ a.capture = t.capture
          /\ a.takes = t.takes /\ a.drag = t.drag /\ a.disturbed = t.disturbed /\ a.recAt = t.recAt
          /\ a.countIn = t.countIn
          /\ a.playing = t.playing /\ a.recording = t.recording /\ a.seam = t.seam
          /\ a.clipsOn = t.clipsOn /\ a.clipsAt = t.clipsAt /\ a.tick = k
          /\ a.startPending = t.startPending /\ a.pos = t.pos /\ a.prev = t.prev
      BY ONLY <1>1, <3>1, <3>3, <3>5 DEF Transports
    <3> QED  BY <1>5, <2>1, <2>2, <3>4, <3>6
  <2>5. CASE ~(T!Looping(t.lap) /\ t.tick + 1 >= t.lap[2])
    <3> DEFINE k == t.tick + 1
    <3>1. a = [t EXCEPT !.tick = k]  BY <1>8, <2>5 DEF T!Ahead
    <3>2. k \in 0..MaxTick  BY <1>1, <1>2, BoundsAreNat DEF Transports
    <3>3. t.clipsOn /\ t.clipsAt = t.tick => n = k  BY DEF n
    <3> HIDE DEF a, k
    <3>4. /\ a \in Transports /\ a.armed = t.armed /\ a.pending = t.pending /\ a.capture = t.capture
          /\ a.takes = t.takes /\ a.drag = t.drag /\ a.disturbed = t.disturbed /\ a.recAt = t.recAt
          /\ a.countIn = t.countIn
          /\ a.playing = t.playing /\ a.recording = t.recording /\ a.seam = t.seam
          /\ a.clipsOn = t.clipsOn /\ a.clipsAt = t.clipsAt /\ a.tick = k /\ a.left = t.left
          /\ a.startPending = t.startPending /\ a.pos = t.pos /\ a.prev = t.prev
      BY ONLY <1>1, <3>1, <3>2 DEF Transports
    <3> QED  BY <1>5, <2>1, <2>2, <3>3, <3>4
  <2> QED  BY <2>4, <2>5
<1> QED  BY <1>6, <1>7, <1>8

-----------------------------------------------------------------------------
(* Transport: the frame, handler by handler.                                 *)

\* What applyTransportState has reached: the position is the player's, and the clips are with
\* it, or wait for a count-in, or the player has gone back by a lap.
Back(w)   == w.clipsOn /\ ~w.pending /\ ~w.startPending /\ w.pos + Jump < w.prev
Level(w)  == w \in Transports /\ TakesInv(w) /\ CountsIn(w) /\ (w.playing => w.pos = w.tick)
SeenBy(w) == Level(w) /\ (Bound(w) => Together(w) \/ Waiting(w) \/ Back(w))
Started(w) == w.playing /\ w.left = 0 => ~w.pending /\ ~w.startPending
Landed(w) ==
    /\ Level(w)
    /\ w.playing /\ w.pending => w.left > 0
    /\ Bound(w) => \/ Together(w) /\ ~w.pending /\ ~w.startPending
                   \/ Waiting(w) /\ (w.startPending \/ w.left > 0)

\* The settings go to the player, its position comes back.
LEMMA FollowedIsSeen ==
    ASSUME T!TransportAssumption, NEW w, Kept(w)
    PROVE  SeenBy(T!Followed(w))
<1> DEFINE p == IF w.playing THEN w.tick ELSE w.pos
           l == w.loop
           n == w.countIn
           r == [w EXCEPT !.lap = l, !.lapCount = n, !.pos = p]
<1>1. w \in Transports /\ TakesInv(w) /\ CountsIn(w) /\ Follows(w)  BY DEF Kept
<1>2. p \in 0..MaxTick /\ l \in Regions /\ n \in CountIns \cup {0}  BY <1>1 DEF Transports
<1>3. n \in Nat  BY <1>2, CountInsAreNat
<1>4. T!Followed(w) = r  BY <1>1 DEF T!Followed, Transports
<1>5. w.playing => p = w.tick  OBVIOUS
<1> HIDE DEF p, l, n
<1>6. /\ r \in Transports /\ r.armed = w.armed /\ r.pending = w.pending /\ r.capture = w.capture
      /\ r.takes = w.takes /\ r.drag = w.drag /\ r.disturbed = w.disturbed /\ r.recAt = w.recAt
      /\ r.countIn = w.countIn
      /\ r.playing = w.playing /\ r.recording = w.recording /\ r.seam = w.seam
      /\ r.clipsOn = w.clipsOn /\ r.clipsAt = w.clipsAt /\ r.left = w.left /\ r.tick = w.tick
      /\ r.startPending = w.startPending /\ r.pos = p /\ r.prev = w.prev
  BY ONLY <1>1, <1>2, <1>3 DEF Transports
<1> HIDE DEF r
<1>7. TakesInv(r)  BY <1>1, <1>6 DEF TakesInv
<1>8. CountsIn(r)  BY <1>1, <1>6 DEF CountsIn
<1>9. Bound(r) => Together(r) \/ Waiting(r) \/ Back(r)
  BY <1>1, <1>5, <1>6 DEF Follows, Bound, Together, Waiting, Lapped, Back
<1> QED  BY <1>4, <1>5, <1>6, <1>7, <1>8, <1>9 DEF SeenBy, Level

\* The count-in of a recording is over: the take begins where it was asked for, with the clips.
LEMMA CapturedIsSeen ==
    ASSUME T!TransportAssumption, NEW w, SeenBy(w)
    PROVE  LET r == T!Captured(w)
           IN  SeenBy(r) /\ (r.playing /\ r.left = 0 => ~r.pending)
<1>1. w \in Transports /\ TakesInv(w) /\ CountsIn(w) /\ (w.playing => w.pos = w.tick)
  BY DEF SeenBy, Level
<1>2. CASE ~(w.pending /\ T!CountedIn(w))
  <2>1. T!Captured(w) = w  BY <1>2 DEF T!Captured
  <2> QED  BY <1>2, <2>1 DEF T!CountedIn
<1>3. CASE w.pending /\ T!CountedIn(w)
  <2> DEFINE k == w.tick
             m == w.recAt
             d == w.disturbed
             c == [w EXCEPT !.pending = FALSE, !.capture = k]
             s == T!StartAudio(c, m)
             r == [s EXCEPT !.seam = d]
  <2>1. T!Captured(w) = r  BY <1>3 DEF T!Captured
  <2>2. w.playing /\ w.left = 0 /\ w.armed  BY <1>1, <1>3 DEF T!CountedIn, TakesInv
  <2>3. ~d => k = m  BY <1>1, <1>3 DEF CountsIn
  <2>4. k \in 0..MaxTick /\ m \in 0..MaxTick /\ d \in BOOLEAN  BY <1>1 DEF Transports
  <2>5. k \in 0..T!NoTake  BY <2>4, BoundsAreNat DEF T!NoTake
  <2>6. d = w.disturbed /\ m = w.recAt /\ k = w.tick  OBVIOUS
  <2> HIDE DEF k, m, d
  <2>7. /\ c \in Transports /\ c.armed = w.armed /\ ~c.pending /\ c.capture = k
        /\ c.takes = w.takes /\ c.disturbed = w.disturbed /\ c.recAt = w.recAt
        /\ c.playing = w.playing /\ c.left = w.left /\ c.tick = w.tick /\ c.pos = w.pos
        /\ c.recording = w.recording
    BY ONLY <1>1, <2>5 DEF Transports
  <2> HIDE DEF c
  <2>8. /\ s \in Transports /\ s.armed = c.armed /\ s.pending = c.pending /\ s.capture = c.capture
        /\ s.takes = c.takes /\ s.disturbed = c.disturbed /\ s.recAt = c.recAt
        /\ s.playing = c.playing /\ s.left = c.left /\ s.tick = c.tick /\ s.pos = c.pos
        /\ s.recording = c.recording /\ s.clipsOn /\ s.clipsAt = m
    BY ONLY <2>4, <2>7 DEF Transports, T!StartAudio
  <2> HIDE DEF s
  <2>9. /\ r \in Transports /\ r.armed = s.armed /\ r.pending = s.pending /\ r.capture = s.capture
        /\ r.takes = s.takes /\ r.disturbed = s.disturbed /\ r.recAt = s.recAt
        /\ r.playing = s.playing /\ r.left = s.left /\ r.tick = s.tick /\ r.pos = s.pos
        /\ r.recording = s.recording /\ r.clipsOn = s.clipsOn /\ r.clipsAt = s.clipsAt /\ r.seam = d
    BY ONLY <2>4, <2>8 DEF Transports
  <2> HIDE DEF r
  <2>10. TakesInv(r)  BY <1>1, <2>2, <2>3, <2>6, <2>7, <2>8, <2>9 DEF TakesInv
  <2>11. CountsIn(r)  BY <2>7, <2>8, <2>9 DEF CountsIn
  <2>12. Bound(r) => Together(r)
    BY <2>2, <2>3, <2>6, <2>7, <2>8, <2>9 DEF Bound, Together
  <2>13. SeenBy(r) /\ ~r.pending
    BY <1>1, <2>7, <2>8, <2>9, <2>10, <2>11, <2>12 DEF SeenBy, Level
  <2> QED  BY <2>1, <2>13
<1> QED  BY <1>2, <1>3

\* The count-in of playback or of a lap is over: the clips start where the player is.
LEMMA ResumedIsSeen ==
    ASSUME T!TransportAssumption, NEW w, SeenBy(w), w.playing /\ w.left = 0 => ~w.pending
    PROVE  SeenBy(T!Resumed(w)) /\ Started(T!Resumed(w))
<1>1. w \in Transports /\ TakesInv(w) /\ CountsIn(w) /\ (w.playing => w.pos = w.tick)
  BY DEF SeenBy, Level
<1>2. CASE ~(w.startPending /\ T!CountedIn(w))
  <2>1. T!Resumed(w) = w  BY <1>2 DEF T!Resumed
  <2> QED  BY <1>2, <2>1 DEF T!CountedIn, Started
<1>3. CASE w.startPending /\ T!CountedIn(w)
  <2> DEFINE k == w.pos
             c == [w EXCEPT !.startPending = FALSE]
             r == T!StartAudio(c, k)
  <2>1. T!Resumed(w) = r  BY <1>3 DEF T!Resumed
  <2>2. w.playing /\ w.left = 0 /\ ~w.pending  BY <1>3 DEF T!CountedIn
  <2>3. k \in 0..MaxTick  BY <1>1 DEF Transports
  <2>4. k = w.tick  BY <1>1, <2>2
  <2> HIDE DEF k
  <2>5. /\ c \in Transports /\ c.armed = w.armed /\ c.pending = w.pending /\ c.capture = w.capture
        /\ c.takes = w.takes /\ c.disturbed = w.disturbed /\ c.recAt = w.recAt
        /\ c.countIn = w.countIn /\ ~c.startPending
        /\ c.playing = w.playing /\ c.left = w.left /\ c.tick = w.tick /\ c.pos = w.pos
    BY ONLY <1>1 DEF Transports
  <2> HIDE DEF c
  <2>6. /\ r \in Transports /\ r.armed = c.armed /\ r.pending = c.pending /\ r.capture = c.capture
        /\ r.takes = c.takes /\ r.disturbed = c.disturbed /\ r.recAt = c.recAt
        /\ r.countIn = c.countIn /\ r.startPending = c.startPending
        /\ r.playing = c.playing /\ r.left = c.left /\ r.tick = c.tick /\ r.pos = c.pos
        /\ r.clipsOn /\ r.clipsAt = k
    BY ONLY <2>3, <2>5 DEF Transports, T!StartAudio
  <2> HIDE DEF r
  <2>7. TakesInv(r)  BY <1>1, <2>5, <2>6 DEF TakesInv
  <2>8. CountsIn(r)  BY <2>2, <2>5, <2>6 DEF CountsIn
  <2>9. Together(r)  BY <2>2, <2>4, <2>5, <2>6 DEF Together
  <2>10. SeenBy(r) /\ Started(r)
    BY <1>1, <2>2, <2>5, <2>6, <2>7, <2>8, <2>9 DEF SeenBy, Level, Started
  <2> QED  BY <2>1, <2>10
<1> QED  BY <1>2, <1>3

\* A looped recording is over after its first lap: the song starts again with the take in it,
\* where the player is.
LEMMA LapRecorded ==
    ASSUME T!TransportAssumption, NEW w, Landed(w), w.armed, ~w.pending, w.playing
    PROVE  Landed(T!StopAudioRecording(w, FALSE))
<1> DEFINE x == T!PlaceTake([w EXCEPT !.armed = FALSE])
           r == T!RefreshPlayback(x)
<1>1. w \in Transports /\ TakesInv(w) /\ CountsIn(w) /\ w.pos = w.tick  BY DEF Landed, Level
<1>2. Kept(w)  BY <1>1 DEF Landed, Kept, Follows
<1>3. T!StopAudioRecording(w, FALSE) = r  BY DEF T!StopAudioRecording
<1>4. /\ Kept(x) /\ ~x.armed /\ ~x.pending
      /\ x.playing = w.playing /\ x.recording = w.recording /\ x.seam = w.seam
      /\ x.clipsOn = w.clipsOn /\ x.clipsAt = w.clipsAt /\ x.left = w.left
      /\ x.tick = w.tick /\ x.startPending = w.startPending /\ x.pos = w.pos
  BY <1>2, UnarmedKept
<1> HIDE DEF x
<1>5. x \in Transports /\ TakesInv(x) /\ CountsIn(x)  BY <1>4 DEF Kept
<1>6. CASE w.recording
  <2>1. r = x  BY <1>4, <1>6 DEF T!RefreshPlayback
  <2>2. Landed(x)  BY <1>1, <1>4, <1>5, <1>6 DEF Landed, Level, Bound
  <2> QED  BY <1>3, <2>1, <2>2
<1>7. CASE ~w.recording
  <2>1. Kept(r)  BY <1>4, RefreshKept
  <2>2. /\ r.playing /\ ~r.pending /\ r.left = 0 /\ r.tick = x.pos /\ r.pos = x.pos
        /\ r.clipsOn = x.clipsOn /\ r.clipsAt = x.clipsAt /\ r.startPending = x.startPending
        /\ r.recording = x.recording
        /\ r.seam = (x.seam \/ (x.clipsOn /\ x.pos # x.tick))
    BY <1>4, <1>5, <1>7 DEF T!RefreshPlayback, T!Play, T!Disturbed, Transports
  <2> HIDE DEF r
  <2>3. Bound(r) => Bound(w)  BY <1>4, <2>2 DEF Bound
  <2>4. Bound(w) => \/ w.clipsOn /\ w.clipsAt = w.tick /\ ~w.startPending
                    \/ ~w.clipsOn /\ w.startPending
    <3>1. Bound(w) => \/ Together(w) /\ ~w.startPending
                      \/ Waiting(w)
      BY DEF Landed
    <3> QED  BY <3>1 DEF Together, Waiting
  <2>5. Bound(r) => \/ Together(r) /\ ~r.pending /\ ~r.startPending
                    \/ Waiting(r) /\ r.startPending
    BY <1>1, <1>4, <2>2, <2>3, <2>4 DEF Together, Waiting
  <2>6. Level(r)  BY <2>1, <2>2 DEF Level, Kept
  <2> QED  BY <1>3, <2>2, <2>5, <2>6 DEF Landed
<1> QED  BY <1>6, <1>7

\* A lap ends: the clips follow the player back.
LEMMA LapEndedIsLanded ==
    ASSUME T!TransportAssumption, NEW w, SeenBy(w), Started(w)
    PROVE  Landed(T!LapEnded(w))
<1> DEFINE b == T!FollowedBack(w)
<1>1. w \in Transports /\ TakesInv(w) /\ CountsIn(w) /\ (w.playing => w.pos = w.tick) /\ Level(w)
  BY DEF SeenBy, Level
<1>2. w.left \in Nat  BY <1>1 DEF Transports
<1>3. w.playing /\ w.pending => w.left > 0  BY <1>2 DEF Started
<1>4. CASE ~T!Rewound(w)
  <2>1. T!LapEnded(w) = w  BY <1>4 DEF T!LapEnded
  <2>2. Bound(w) => Together(w) \/ Waiting(w)
    BY <1>4 DEF SeenBy, Back, Bound, T!Rewound
  <2>3. Bound(w) /\ Together(w) => ~w.pending /\ ~w.startPending
    BY DEF Bound, Together, Started
  <2>4. Bound(w) /\ Waiting(w) => w.startPending \/ w.left > 0
    BY <1>3 DEF Bound, Waiting
  <2> QED  BY <1>1, <1>3, <2>1, <2>2, <2>3, <2>4 DEF Landed
<1>5. CASE T!Rewound(w)
  <2>1. w.playing /\ ~w.pending /\ w.pos = w.tick /\ w.pos + Jump < w.prev
    BY <1>1, <1>5 DEF T!Rewound
  <2> DEFINE k == w.pos
             s == T!SeekAudio(w, k)
  <2>2. k \in 0..MaxTick  BY <1>1 DEF Transports
  <2>3. k = w.pos  OBVIOUS
  <2> HIDE DEF k
  <2>4. /\ s \in Transports /\ s.armed = w.armed /\ s.pending = w.pending /\ s.capture = w.capture
        /\ s.takes = w.takes /\ s.disturbed = w.disturbed /\ s.recAt = w.recAt
        /\ s.countIn = w.countIn /\ s.startPending = w.startPending /\ s.drag = w.drag
        /\ s.playing = w.playing /\ s.left = w.left /\ s.tick = w.tick /\ s.pos = w.pos
        /\ s.recording = w.recording /\ s.seam = w.seam /\ s.clipsOn = w.clipsOn /\ s.clipsAt = k
    BY ONLY <1>1, <2>2 DEF Transports, T!SeekAudio
  <2>5. T!FollowedBack(w) =
          IF w.left > 0 THEN [T!StopAudio(s) EXCEPT !.startPending = TRUE]
                        ELSE [s EXCEPT !.seam = @ /\ ~w.clipsOn]
    BY DEF T!FollowedBack, k
  <2> HIDE DEF s, b
  <2>6. /\ b \in Transports /\ b.armed = w.armed /\ ~b.pending /\ b.capture = w.capture
        /\ b.takes = w.takes /\ b.disturbed = w.disturbed /\ b.recAt = w.recAt
        /\ b.playing /\ b.tick = b.pos
        /\ Bound(b) => \/ Together(b) /\ ~b.startPending
                       \/ Waiting(b) /\ b.startPending
    <3>1. CASE w.left > 0
      <4>1. b = [T!StopAudio(s) EXCEPT !.startPending = TRUE]  BY <2>5, <3>1 DEF b
      <4>2. /\ b \in Transports /\ b.armed = s.armed /\ b.pending = s.pending /\ b.capture = s.capture
            /\ b.takes = s.takes /\ b.disturbed = s.disturbed /\ b.recAt = s.recAt
            /\ b.playing = s.playing /\ b.tick = s.tick /\ b.pos = s.pos
            /\ ~b.clipsOn /\ b.startPending
        BY ONLY <2>4, <4>1 DEF Transports, T!StopAudio
      <4> QED  BY <2>1, <2>4, <4>2 DEF Waiting
    <3>2. CASE ~(w.left > 0)
      <4>1. b = [s EXCEPT !.seam = @ /\ ~w.clipsOn]  BY <2>5, <3>2 DEF b
      <4>2. w.clipsOn \in BOOLEAN  BY <1>1 DEF Transports
      <4>3. /\ b \in Transports /\ b.armed = s.armed /\ b.pending = s.pending /\ b.capture = s.capture
            /\ b.takes = s.takes /\ b.disturbed = s.disturbed /\ b.recAt = s.recAt
            /\ b.playing = s.playing /\ b.tick = s.tick /\ b.pos = s.pos /\ b.left = s.left
            /\ b.clipsOn = s.clipsOn /\ b.clipsAt = s.clipsAt /\ b.startPending = s.startPending
            /\ b.recording = s.recording /\ b.seam = (s.seam /\ ~w.clipsOn)
        BY ONLY <2>4, <4>1, <4>2 DEF Transports
      <4>4. w.left = 0 /\ ~w.startPending  BY <1>2, <2>1, <3>2 DEF Started
      <4>5. ~w.clipsOn => ~Bound(w)
        BY <2>1, <4>4 DEF SeenBy, Together, Waiting, Back
      <4>6. Bound(b) => b.clipsOn
        BY <2>4, <4>3, <4>5 DEF Bound
      <4> QED  BY <2>1, <2>3, <2>4, <4>3, <4>4, <4>6 DEF Together
    <3> QED  BY <3>1, <3>2
  <2>7. TakesInv(b)  BY <1>1, <2>1, <2>6 DEF TakesInv
  <2>8. CountsIn(b)  BY <2>6 DEF CountsIn
  <2>9. Landed(b)  BY <2>6, <2>7, <2>8 DEF Landed, Level
  <2>10. T!LapEnded(w) = IF b.armed /\ T!Looping(b.loop) THEN T!StopAudioRecording(b, FALSE) ELSE b
    BY <1>5 DEF T!LapEnded, b
  <2>11. b.armed => Landed(T!StopAudioRecording(b, FALSE))  BY <2>6, <2>9, LapRecorded
  <2> QED  BY <2>9, <2>10, <2>11
<1> QED  BY <1>4, <1>5

LEMMA FrameKept ==
    ASSUME T!TransportAssumption, TransportInv, T!Frame
    PROVE  TransportInv'
<1> DEFINE c == T!Captured(T!Followed(t))
           e == T!LapEnded(T!Resumed(c))
           k == e.pos
           r == [e EXCEPT !.prev = k]
<1>1. SeenBy(T!Followed(t))  BY FollowedIsSeen DEF TransportInv
<1>2. SeenBy(c) /\ (c.playing /\ c.left = 0 => ~c.pending)  BY <1>1, CapturedIsSeen
<1>3. t' = r /\ seen' = TRUE  BY DEF T!Frame, T!Applied
<1> HIDE DEF c
<1>4. SeenBy(T!Resumed(c)) /\ Started(T!Resumed(c))  BY <1>2, ResumedIsSeen
<1>5. Landed(e)  BY <1>4, LapEndedIsLanded
<1> HIDE DEF e
<1>6. e \in Transports /\ TakesInv(e) /\ CountsIn(e) /\ (e.playing => e.pos = e.tick)
  BY <1>5 DEF Landed, Level
<1>7. k \in 0..MaxTick /\ k = e.pos  BY <1>6 DEF Transports
<1> HIDE DEF k
<1>8. /\ r \in Transports /\ r.armed = e.armed /\ r.pending = e.pending /\ r.capture = e.capture
      /\ r.takes = e.takes /\ r.drag = e.drag /\ r.disturbed = e.disturbed /\ r.recAt = e.recAt
      /\ r.countIn = e.countIn
      /\ r.playing = e.playing /\ r.recording = e.recording /\ r.seam = e.seam
      /\ r.clipsOn = e.clipsOn /\ r.clipsAt = e.clipsAt /\ r.left = e.left /\ r.tick = e.tick
      /\ r.startPending = e.startPending /\ r.pos = e.pos /\ r.prev = k
  BY ONLY <1>6, <1>7 DEF Transports
<1> HIDE DEF r
<1>9. TakesInv(r)  BY <1>6, <1>8 DEF TakesInv
<1>10. CountsIn(r)  BY <1>6, <1>8 DEF CountsIn
<1>11. Settled(r)
  BY <1>5, <1>6, <1>7, <1>8 DEF Landed, Settled, Bound, Together, Waiting
<1>12. Kept(r)  BY <1>8, <1>9, <1>10, <1>11 DEF Kept, Follows, Settled
<1>13. Kept(t') /\ Settled(t')  BY <1>3, <1>11, <1>12
<1> QED  BY <1>3, <1>13 DEF TransportInv

LEMMA TransportStarts ==
    ASSUME T!TransportAssumption, T!Init
    PROVE  TransportInv
<1> DEFINE none == <<>>
<1>1. none \in Seq(Take) /\ Len(none) = 0 /\ DOMAIN none = {}  OBVIOUS
<1>2. T!NoTake \in 0..T!NoTake /\ T!NoTake \in Nat /\ 0 \in 0..MaxTick
  BY BoundsAreNat DEF T!NoTake
<1>3. /\ seen = FALSE
      /\ t = [playing |-> FALSE, left |-> 0, tick |-> 0, lap |-> T!NoLoop, lapCount |-> 0,
              pos |-> 0, prev |-> 0, loop |-> T!NoLoop, countIn |-> 0, recording |-> FALSE,
              startPending |-> FALSE, drag |-> "none", clipsOn |-> FALSE, clipsAt |-> 0,
              armed |-> FALSE, pending |-> FALSE, recAt |-> 0, capture |-> T!NoTake,
              takes |-> none, seam |-> FALSE, disturbed |-> FALSE]
  BY DEF T!Init
<1> HIDE DEF none
<1>4. T!NoLoop \in Regions  BY DEF Regions
<1>5. t \in Transports  BY <1>1, <1>2, <1>3, <1>4 DEF Transports
<1>6. ~t.playing /\ ~t.armed /\ ~t.pending /\ t.capture = T!NoTake /\ t.takes = none  BY <1>3
<1>7. TakesInv(t)  BY <1>1, <1>6, BoundsAreNat DEF TakesInv
<1>8. CountsIn(t) /\ Follows(t)  BY <1>6 DEF CountsIn, Follows, Bound
<1> QED  BY <1>3, <1>5, <1>7, <1>8 DEF TransportInv, Kept

LEMMA TransportStep ==
    ASSUME T!TransportAssumption, TransportInv, T!Next
    PROVE  TransportInv'
<1>1. CASE T!Frame  BY <1>1, FrameKept
<1>2. CASE T!Time  BY <1>2, TimeKept
<1>3. CASE \/ T!SpaceKey \/ T!StopButton \/ T!RewindButton \/ T!PlayFromBar \/ T!PreviousBar
           \/ T!Edit \/ T!RecordButton
           \/ \E tick \in Spots : T!Seek(tick) \/ T!Drag(tick) \/ T!RemoteSeek(tick)
           \/ \E l \in SongLoops \cup {T!NoLoop} : T!SetLoop(l)
           \/ \E n \in CountIns : T!SetCountIn(n)
           \/ \E ready \in BOOLEAN : T!RecordKey(ready) \/ T!RecordTrack(ready)
           \/ T!Grab \/ T!Drop \/ T!RemotePlay \/ T!RemoteStop
  BY <1>3, CommandsKept
<1> QED  BY <1>1, <1>2, <1>3 DEF T!Next

\* What the invariant says of the frames and of the takes.
LEMMA TransportIsSound ==
    ASSUME T!TransportAssumption, TransportInv
    PROVE  T!TransportTypeOK /\ T!ClipsFollowThePlayer /\ T!UndisturbedTakesLieRight
<1>1. t \in Transports /\ TakesInv(t) /\ seen \in BOOLEAN /\ (seen => Settled(t))
  BY DEF TransportInv, Kept
<1>2. T!TransportTypeOK
  <2>1. Len(t.takes) <= MaxTakes + 1
    <3>1. Len(t.takes) \in Nat  BY <1>1 DEF Transports
    <3> QED  BY <1>1, <3>1, BoundsAreNat DEF TakesInv
  <2>2. t.pending => t.countIn \in CountIns  BY <1>1 DEF TakesInv
  <2> QED  BY <1>1, <2>1, <2>2 DEF T!TransportTypeOK, Transports, Regions
<1>3. T!ClipsFollowThePlayer
  <2> SUFFICES ASSUME seen, t.playing, ~t.recording, ~t.seam
               PROVE  (t.clipsOn <=> (t.left = 0 /\ ~t.startPending)) /\ (t.clipsOn => t.clipsAt = t.tick)
    BY DEF T!ClipsFollowThePlayer
  <2>1. \/ Together(t) /\ ~t.pending /\ ~t.startPending
        \/ Waiting(t) /\ (t.startPending \/ t.left > 0)
    BY <1>1 DEF Settled, Bound
  <2>2. t.left \in Nat  BY <1>1 DEF Transports
  <2> QED  BY <1>1, <2>1, <2>2 DEF Together, Waiting, Settled, Transports
<1>4. T!UndisturbedTakesLieRight  BY <1>1 DEF TakesInv, T!UndisturbedTakesLieRight
<1> QED  BY <1>2, <1>3, <1>4

-----------------------------------------------------------------------------
(* Metronome: the invariant is that of PlaybackProofs.                       *)

PP == INSTANCE PlaybackProofs WITH Songs <- {<<>>}, Notes <- {}, Programs <- {},
          Starts <- ClickStarts, PreRolls <- ClickCountIns, KeepAlives <- {TRUE},
          Loops <- ClickLoops, Metros <- Metronomes, MaxTick <- MaxClickTick,
          MaxEdits <- MaxChainEdits, edits <- changes

ClicksInv == PP!NoBeatSkipped /\ PP!PlayerInv /\ PP!CountsInv

LEMMA SamePlayer ==
    /\ P!Init => PP!Init
    /\ P!Next => PP!Next
    /\ PP!ClicksAreHeard => P!ClicksAreHeard
    /\ P!NoBeatSkipped => PP!NoBeatSkipped
<1>1. P!Init => PP!Init
  BY DEF P!Init, PP!Init, P!Silent, PP!Silent, P!NoBeat, PP!NoBeat, P!Lap, PP!Lap, P!None, PP!None
<1>2. PP!ClicksAreHeard => P!ClicksAreHeard
  BY DEF P!ClicksAreHeard, PP!ClicksAreHeard, P!CountInHeard, PP!CountInHeard, P!ClickOffIsNear,
         PP!ClickOffIsNear, P!ClickTicks, PP!ClickTicks, P!Running, PP!Running
<1>3. P!NoBeatSkipped => PP!NoBeatSkipped
  BY DEF P!NoBeatSkipped, PP!NoBeatSkipped
<1>4. P!Next => PP!Next
  BY DEF P!Next, PP!Next,
     P!flags, P!head, P!snapshot, P!loop, P!locals, P!output, P!ui,
     PP!flags, PP!head, PP!snapshot, PP!loop, PP!locals, PP!output, PP!ui,
     P!None, P!NoBeat, P!Silent, P!Lap, P!NonNegative, P!ClickTicks, P!Beat, P!Accent, P!MetroOn,
     P!Strike, P!Struck, P!OffDue, P!IsFirstFrom, P!ProgramsBefore, P!LastPrograms, P!SeekProgram,
     P!SeekTo, PP!None, PP!NoBeat, PP!Silent, PP!Lap, PP!NonNegative, PP!ClickTicks, PP!Beat,
     PP!Accent, PP!MetroOn, PP!Strike, PP!Struck, PP!OffDue, PP!IsFirstFrom, PP!ProgramsBefore,
     PP!LastPrograms, PP!SeekProgram, PP!SeekTo,
     P!Play, P!RequestStop, P!Join, P!SetLoop, P!SetLoopEnd, P!SetLoopEnabled, P!SetLoopCountIn,
     P!SetMetro, P!Tick, P!LoadLoopStart, P!LoadLoopEnd, P!Looping, P!AtLoopEnd, P!LapBeat,
     P!AllNotesOff, P!ClickAtWrap, P!LapCountsIn, P!Wrap, P!Rewind, P!Playhead, P!Pass, P!Reached,
     P!Send, P!SongOver, P!EndIteration, P!Exit,
     PP!Play, PP!RequestStop, PP!Join, PP!SetLoop, PP!SetLoopEnd, PP!SetLoopEnabled, PP!SetLoopCountIn,
     PP!SetMetro, PP!Tick, PP!LoadLoopStart, PP!LoadLoopEnd, PP!Looping, PP!AtLoopEnd, PP!LapBeat,
     PP!AllNotesOff, PP!ClickAtWrap, PP!LapCountsIn, PP!Wrap, PP!Rewind, PP!Playhead, PP!Pass, PP!Reached,
     PP!Send, PP!SongOver, PP!EndIteration, PP!Exit
<1> QED BY <1>1, <1>2, <1>3, <1>4

\* The assumptions of Player, for the metronome's constants.
MetronomeFits == PP!SongsAssumption /\ PP!TimesAssumption /\ PP!MetronomeAssumption

LEMMA ClicksInit ==
    ASSUME MetronomeFits, P!Init, P!NoBeatSkipped
    PROVE  ClicksInv
<1> USE DEF MetronomeFits, PP!SongsAssumption, PP!TimesAssumption, PP!MetronomeAssumption
<1>1. PP!PlayerInv  BY SamePlayer, PP!PlayerInit
<1>2. PP!CountsInv  BY SamePlayer, PP!CountsInit
<1> QED  BY <1>1, <1>2, SamePlayer DEF ClicksInv

LEMMA ClicksStep ==
    ASSUME MetronomeFits, ClicksInv, P!Next
    PROVE  ClicksInv'
<1> USE DEF MetronomeFits, PP!SongsAssumption, PP!TimesAssumption, PP!MetronomeAssumption
<1>1. [PP!Next]_PP!vars  BY SamePlayer
<1>2. PP!PlayerInv'  BY <1>1, PP!PlayerNext DEF ClicksInv
<1>3. PP!TypeOK /\ PP!TypeOK' /\ PP!WithinBound /\ PP!WithinBound'
  BY <1>2 DEF ClicksInv, PP!PlayerInv, PP!SoundingIsHeld
<1>4. PP!CountsInv'  BY <1>1, <1>3, PP!CountsNext DEF ClicksInv
<1> QED  BY <1>2, <1>4 DEF ClicksInv, PP!NoBeatSkipped

LEMMA ClicksAreSound ==
    ASSUME MetronomeFits, ClicksInv
    PROVE  P!ClicksAreHeard
<1> USE DEF MetronomeFits, PP!SongsAssumption, PP!TimesAssumption, PP!MetronomeAssumption
<1> QED  BY SamePlayer, PP!CountsAreHeard DEF ClicksInv

-----------------------------------------------------------------------------
(* Session: the inductive invariant.                                         *)

Distinct(s) == \A i, j \in DOMAIN s : s[i] = s[j] => i = j

\* Objects that were read are named after their file.
FileName == {"track", "vclip"} \X Nat
ObjectId == {"track", "vclip", "new"} \X Nat

\* A list has no object twice, a version has a place for each of its clips, and its number is
\* below the next one's.
Version(ids) == [id : Int, parent : Int, notes : Int, clips : Seq(ids), places : Seq(Int)]
Work(ids)    == [notes : Int, clips : Seq(ids), versions : Seq(Version(ids)), current : Int, nextId : Int]
HeapFits(h)  == DOMAIN h \subseteq ObjectId /\ h \in [DOMAIN h -> [sound : Sounds, at : Int]]
WorkFits(w, h) ==
    /\ w \in Work(DOMAIN h) /\ HeapFits(h)
    /\ Distinct(w.clips)
    /\ \A v \in DOMAIN w.versions : /\ Distinct(w.versions[v].clips)
                                    /\ Len(w.versions[v].places) = Len(w.versions[v].clips)
                                    /\ w.versions[v].id < w.nextId
    /\ w.versions = <<>> => w.current = -1

\* A file has been written from such a work, whole or not.
Ref  == [file : FileName, at : Int]
Text == [notes : Int, clips : Seq(Ref), current : Int, nextId : Int,
         versions : Seq([id : Int, parent : Int, notes : Int, clips : Seq(Ref)])]
TextFits(x) ==
    /\ x \in Text /\ Distinct(S!Objects(x.clips))
    /\ \A v \in DOMAIN x.versions : Distinct(S!Objects(x.versions[v].clips)) /\ x.versions[v].id < x.nextId
    /\ x.versions = <<>> => x.current = -1
DiskFits ==
    /\ disk = [p \in S!Files |-> [text |-> disk[p].text, side |-> disk[p].side]]
    /\ \A p \in S!Files : /\ disk[p].text = S!NoText \/ TextFits(disk[p].text)
                          /\ disk[p].side \in [DOMAIN disk[p].side -> Sounds]

\* What a finished save has put in a file is what opening it would give.
WholeIsWhole ==
    /\ whole = [p \in S!Files |-> whole[p]]
    /\ \A p \in S!Files : whole[p] # S!NotWhole =>
          S!Shape(S!Loaded(disk[p]).work, S!Loaded(disk[p]).heap) = whole[p]

\* A save under way is of the work there is; what is not left to write has been written.
SaveGoesOn ==
    saving # S!NoSave =>
        /\ saving = [path |-> saving.path, text |-> saving.text, left |-> saving.left, names |-> saving.names]
        /\ S!Running /\ saving.path \in S!Files /\ read = S!NoPath /\ whole[saving.path] = S!NotWhole
        /\ saving.text \in BOOLEAN /\ saving.names = S!Names(work) /\ saving.left \subseteq DOMAIN saving.names
        /\ saving.text => saving.left = DOMAIN saving.names
        /\ ~saving.text => disk[saving.path].text = S!Serialized(work)
        /\ \A id \in DOMAIN saving.names \ saving.left :
              /\ saving.names[id] \in DOMAIN disk[saving.path].side
              /\ disk[saving.path].side[saving.names[id]] = heap[id].sound

SessionInv ==
    /\ S!Running => WorkFits(work, heap)
    /\ S!Running => \A id \in DOMAIN heap : id[1] = "new" => id[2] < edits
    /\ edits \in Nat /\ projectPath \in {SongFile, S!NoPath}
    /\ DiskFits /\ WholeIsWhole /\ SaveGoesOn
    /\ read # S!NoPath => read \in S!Files /\ (whole[read] # S!NotWhole => S!Shape(work, heap) = whole[read])

-----------------------------------------------------------------------------
(* Session: least numbers, finite lists, and the rank in a set of numbers.   *)

LEMMA LeastNatural ==
    ASSUME NEW N \in SUBSET Nat, N # {}
    PROVE  \E x \in N : \A y \in N : x =< y
<1> DEFINE R == {p \in Nat \X Nat : p[1] < p[2]}
<1>1. IsWellFoundedOn(R, Nat)
  <2>1. OpToRel(<, Nat) = R  BY DEF OpToRel
  <2> QED  BY <2>1, NatLessThanWellFounded
<1>2. PICK x \in N : \A y \in N : <<y, x>> \notin R
  <2> HIDE DEF R
  <2> QED  BY <1>1, WFMin
<1>3. ASSUME NEW y \in N  PROVE x =< y
  <2>1. x \in Nat /\ y \in Nat  OBVIOUS
  <2>2. y < x => <<y, x>> \in R  BY <2>1
  <2> HIDE DEF R
  <2> QED  BY <1>2, <2>1, <2>2
<1> QED  BY <1>3

LEMMA MinIsLeast ==
    ASSUME NEW N \in SUBSET Nat, N # {}
    PROVE  S!Min(N) \in N /\ \A y \in N : S!Min(N) =< y
BY LeastNatural DEF S!Min

LEMMA RangeIsFinite ==
    ASSUME NEW s, NEW n \in Nat, DOMAIN s = 1..n
    PROVE  IsFiniteSet({s[k] : k \in DOMAIN s})
<1> DEFINE V == {s[k] : k \in DOMAIN s}
           f == [k \in 1..n |-> s[k]]
<1>1. f \in Surjection(1..n, V)  BY DEF Surjection
<1>2. IsFiniteSet(1..n)  BY FS_Interval
<1> HIDE DEF f
<1> QED  BY <1>1, <1>2, FS_Surjection

\* The rank of a number in a set of numbers counts from one to the set's size.
Rank(K, j) == Cardinality({i \in K : i =< j})

LEMMA RankIsOnto ==
    ASSUME NEW n \in Nat, NEW K \in SUBSET (1..n)
    PROVE  /\ Cardinality(K) \in Nat
           /\ \A m \in 1..Cardinality(K) : \E j \in K : Rank(K, j) = m
           /\ K = 1..n => Cardinality(K) = n /\ \A j \in K : Rank(K, j) = j
<1>0. IsFiniteSet(1..n) /\ K \subseteq Int  BY FS_Interval
<1>1. IsFiniteSet(K) /\ Cardinality(K) \in Nat  BY <1>0, FS_Subset, FS_CardinalityType
<1>2. ASSUME NEW j \in K  PROVE Rank(K, j) \in 1..Cardinality(K)
  <2> DEFINE B == {i \in K : i =< j}
  <2>1. IsFiniteSet(B) /\ Cardinality(B) =< Cardinality(K) /\ Cardinality(B) \in Nat
    BY <1>1, FS_Subset, FS_CardinalityType
  <2>2. B # {}  BY <1>2
  <2>3. Cardinality(B) # 0  BY <2>1, <2>2, FS_EmptySet
  <2> HIDE DEF B
  <2>4. Cardinality(B) \in 1..Cardinality(K)  BY <1>1, <2>1, <2>3
  <2> QED  BY <2>4 DEF Rank, B
<1>3. ASSUME NEW j \in K, NEW l \in K, j < l  PROVE Rank(K, j) # Rank(K, l)
  <2> DEFINE B == {i \in K : i =< j}
             U == {i \in K : i =< l}
  <2>1. IsFiniteSet(U)  BY <1>1, FS_Subset
  <2>2. l \in Int /\ j \in Int  BY <1>0
  <2>4. ASSUME NEW i \in B  PROVE i \in U
    <3>1. i \in K /\ i \in Int /\ i =< j  BY <1>0
    <3> QED  BY <1>3, <2>2, <3>1
  <2>5. l \in U /\ l \notin B  BY <1>3, <2>2
  <2> HIDE DEF B, U
  <2>3. Cardinality(B) # Cardinality(U)  BY <2>1, <2>4, <2>5, FS_Subset
  <2> QED  BY <2>3 DEF Rank, B, U
<1>4. ASSUME NEW m \in 1..Cardinality(K)  PROVE \E j \in K : Rank(K, j) = m
  <2> DEFINE V == 1..Cardinality(K)
             f == [j \in K |-> Rank(K, j)]
  <2>1. f \in Injection(K, V)
    <3>1. f \in [K -> V]  BY <1>2
    <3>2. ASSUME NEW j \in K, NEW l \in K, f[j] = f[l]  PROVE j = l
      <4>1. Rank(K, j) = Rank(K, l)  BY <3>2
      <4>2. ~(j < l) /\ ~(l < j)  BY <1>3, <4>1
      <4> QED  BY <4>2
    <3> HIDE DEF f, V
    <3> QED  BY <3>1, <3>2 DEF Injection, IsInjective
  <2>2. IsFiniteSet(V) /\ Cardinality(V) = Cardinality(K)  BY <1>1, FS_Interval
  <2>3. f \in Surjection(K, V)
    <3> HIDE DEF f, V
    <3> QED  BY <2>1, <2>2, FS_Injection
  <2>4. PICK j \in K : f[j] = m
    <3> HIDE DEF f
    <3> QED  BY <1>4, <2>3 DEF Surjection
  <2> QED  BY <2>4
<1>5. ASSUME K = 1..n  PROVE Cardinality(K) = n /\ \A j \in K : Rank(K, j) = j
  <2>1. Cardinality(K) = n  BY <1>5, FS_Interval
  <2>2. ASSUME NEW j \in K  PROVE Rank(K, j) = j
    <3>1. {i \in K : i =< j} = 1..j  BY <1>5
    <3>2. Cardinality(1..j) = j  BY <1>5, FS_Interval
    <3> QED  BY <3>1, <3>2 DEF Rank
  <2> QED  BY <2>1, <2>2
<1> QED  BY <1>1, <1>4, <1>5

LEMMA SameCount ==
    ASSUME NEW V
    PROVE  S!Cardinality(V) = Cardinality(V)
BY Zenon DEF S!Cardinality, Cardinality

\* What is left out of a list of references leaves the others in order; a list of which all
\* can be read is left as it is.
LEMMA ReadableKeeps ==
    ASSUME NEW p, NEW refs \in Seq(Ref)
    PROVE  /\ S!Readable(p, refs) \in Seq(Ref)
           /\ \A k \in DOMAIN S!Readable(p, refs) : S!Readable(p, refs)[k].file \in DOMAIN p.side
           /\ Distinct(S!Objects(refs)) => Distinct(S!Objects(S!Readable(p, refs)))
           /\ (\A j \in DOMAIN refs : refs[j].file \in DOMAIN p.side) => S!Readable(p, refs) = refs
<1> DEFINE K == {j \in DOMAIN refs : refs[j].file \in DOMAIN p.side}
           n == Cardinality(K)
           At(m) == CHOOSE j \in K : Rank(K, j) = m
           r == S!Readable(p, refs)
<1>1. Len(refs) \in Nat /\ DOMAIN refs = 1..Len(refs) /\ \A j \in DOMAIN refs : refs[j] \in Ref
  OBVIOUS
<1>2. K \in SUBSET (1..Len(refs))  BY <1>1
<1>3. /\ n \in Nat /\ \A m \in 1..n : \E j \in K : Rank(K, j) = m
      /\ K = 1..Len(refs) => n = Len(refs) /\ \A j \in K : Rank(K, j) = j
  <2> HIDE DEF K
  <2> QED  BY <1>1, <1>2, RankIsOnto
<1>4. r = [m \in 1..n |-> refs[At(m)]]
  BY Zenon DEF S!Readable, Rank, S!Cardinality, Cardinality
<1>5. \A m \in 1..n : At(m) \in K /\ Rank(K, At(m)) = m
  <2> HIDE DEF K, n
  <2> QED  BY <1>3
<1>6. \A j \in K : j \in DOMAIN refs /\ refs[j].file \in DOMAIN p.side
  OBVIOUS
<1>7. (\A j \in DOMAIN refs : refs[j].file \in DOMAIN p.side) => K = 1..Len(refs)
  BY <1>1
<1> HIDE DEF K, n, At, r
<1>8. r \in Seq(Ref) /\ DOMAIN r = 1..n /\ Len(r) = n
  <2>1. \A m \in 1..n : refs[At(m)] \in Ref  BY <1>1, <1>5, <1>6
  <2>2. r \in [1..n -> Ref]  BY ONLY <1>4, <2>1
  <2> QED  BY <1>3, <2>2
<1>9. \A k \in DOMAIN r : r[k].file \in DOMAIN p.side
  BY <1>4, <1>5, <1>6, <1>8
<1>10. ASSUME Distinct(S!Objects(refs))  PROVE Distinct(S!Objects(r))
  <2>1. \A i, j \in DOMAIN refs : refs[i].file = refs[j].file => i = j
    BY <1>10 DEF Distinct, S!Objects
  <2>2. ASSUME NEW k \in 1..n, NEW l \in 1..n, r[k].file = r[l].file  PROVE k = l
    <3>1. At(k) = At(l)  BY <1>4, <1>5, <1>6, <2>1, <2>2
    <3> QED  BY <1>5, <3>1
  <2> QED  BY <1>8, <2>2 DEF Distinct, S!Objects
<1>11. ASSUME \A j \in DOMAIN refs : refs[j].file \in DOMAIN p.side  PROVE r = refs
  <2>1. K = 1..Len(refs) /\ n = Len(refs) /\ \A j \in K : Rank(K, j) = j  BY <1>3, <1>7, <1>11
  <2>2. \A m \in 1..n : At(m) = m  BY <1>5, <2>1
  <2> QED  BY <1>1, <1>4, <1>8, <2>1, <2>2
<1> QED  BY <1>8, <1>9, <1>10, <1>11 DEF r

\* Places: the first number is the version's, or zero.
LEMMA PlacesOf ==
    ASSUME NEW w, NEW h, WorkFits(w, h)
    PROVE  /\ Len(w.clips) \in Nat /\ DOMAIN w.clips = 1..Len(w.clips)
           /\ Len(w.versions) \in Nat /\ DOMAIN w.versions = 1..Len(w.versions)
           /\ \A v \in DOMAIN w.versions : /\ w.versions[v] \in Version(DOMAIN h)
                                           /\ Len(w.versions[v].clips) \in Nat
                                           /\ DOMAIN w.versions[v].clips = 1..Len(w.versions[v].clips)
           /\ \A j \in DOMAIN w.clips : /\ w.clips[j] \in DOMAIN h
                                        /\ <<0, j>> \in S!SongPlaces(w) /\ S!Clip(w, <<0, j>>) = w.clips[j]
           /\ \A v \in DOMAIN w.versions : \A k \in DOMAIN w.versions[v].clips :
                 /\ w.versions[v].clips[k] \in DOMAIN h
                 /\ <<v, k>> \in S!VersionPlaces(w) /\ S!Clip(w, <<v, k>>) = w.versions[v].clips[k]
           /\ \A p \in S!SongPlaces(w) : \E j \in DOMAIN w.clips : p = <<0, j>>
           /\ \A p \in S!VersionPlaces(w) :
                 \E v \in DOMAIN w.versions : \E k \in DOMAIN w.versions[v].clips : p = <<v, k>>
<1>1. w.clips \in Seq(DOMAIN h) /\ w.versions \in Seq(Version(DOMAIN h))  BY DEF WorkFits, Work
<1>2. /\ Len(w.clips) \in Nat /\ DOMAIN w.clips = 1..Len(w.clips) /\ \A j \in DOMAIN w.clips : w.clips[j] \in DOMAIN h
      /\ Len(w.versions) \in Nat /\ DOMAIN w.versions = 1..Len(w.versions)
      /\ \A v \in DOMAIN w.versions : w.versions[v] \in Version(DOMAIN h)
  BY <1>1
<1>3. ASSUME NEW v \in DOMAIN w.versions
      PROVE  /\ Len(w.versions[v].clips) \in Nat
             /\ DOMAIN w.versions[v].clips = 1..Len(w.versions[v].clips)
             /\ \A k \in DOMAIN w.versions[v].clips : w.versions[v].clips[k] \in DOMAIN h
  <2>1. w.versions[v].clips \in Seq(DOMAIN h)  BY <1>2 DEF Version
  <2> QED  BY <2>1
<1>4. \A j \in DOMAIN w.clips : <<0, j>> \in S!SongPlaces(w) /\ S!Clip(w, <<0, j>>) = w.clips[j]
  BY DEF S!SongPlaces, S!Clip
<1>5. \A p \in S!SongPlaces(w) : \E j \in DOMAIN w.clips : p = <<0, j>>
  BY DEF S!SongPlaces
<1>6. ASSUME NEW v \in DOMAIN w.versions, NEW k \in DOMAIN w.versions[v].clips
      PROVE  <<v, k>> \in S!VersionPlaces(w) /\ S!Clip(w, <<v, k>>) = w.versions[v].clips[k]
  <2>1. v # 0  BY <1>2
  <2> QED  BY <2>1 DEF S!VersionPlaces, S!Clip
<1>7. ASSUME NEW p \in S!VersionPlaces(w)
      PROVE  \E v \in DOMAIN w.versions : \E k \in DOMAIN w.versions[v].clips : p = <<v, k>>
  <2>1. PICK v \in DOMAIN w.versions : p \in {v} \X DOMAIN w.versions[v].clips  BY <1>7 DEF S!VersionPlaces
  <2> QED  BY <2>1
<1> QED  BY <1>2, <1>3, <1>4, <1>5, <1>6, <1>7

IsPlace(w, v, k) == v \in DOMAIN w.versions /\ k \in DOMAIN w.versions[v].clips

LEMMA PlaceIsPair ==
    ASSUME NEW w, NEW h, WorkFits(w, h), NEW p \in S!VersionPlaces(w)
    PROVE  \E v \in Nat, k \in Nat : IsPlace(w, v, k) /\ p = <<v, k>>
<1>1. PICK v \in DOMAIN w.versions : \E k \in DOMAIN w.versions[v].clips : p = <<v, k>>  BY PlacesOf
<1>2. PICK k \in DOMAIN w.versions[v].clips : p = <<v, k>>  BY <1>1
<1>3. v \in Nat /\ k \in Nat  BY PlacesOf
<1> QED  BY <1>2, <1>3 DEF IsPlace

LEMMA PlacesAreOrdered ==
    ASSUME NEW w, NEW h, WorkFits(w, h),
           NEW p \in S!VersionPlaces(w), NEW q \in S!VersionPlaces(w), NEW o \in S!VersionPlaces(w)
    PROVE  /\ p = q \/ S!Precedes(p, q) \/ S!Precedes(q, p)
           /\ ~(S!Precedes(p, q) /\ S!Precedes(q, p))
           /\ S!Precedes(p, q) /\ S!Precedes(q, o) => S!Precedes(p, o)
<1>1. PICK v \in Nat, k \in Nat : IsPlace(w, v, k) /\ p = <<v, k>>  BY PlaceIsPair
<1>2. PICK x \in Nat, l \in Nat : IsPlace(w, x, l) /\ q = <<x, l>>  BY PlaceIsPair
<1>3. PICK y \in Nat, m \in Nat : IsPlace(w, y, m) /\ o = <<y, m>>  BY PlaceIsPair
<1> QED  BY ONLY <1>1, <1>2, <1>3 DEF S!Precedes

\* The first place of an object among the versions.
IsFirst(w, id, p) == /\ S!Clip(w, p) = id
                     /\ \A q \in S!VersionPlaces(w) : S!Clip(w, q) = id => ~S!Precedes(q, p)
First(w, id) == CHOOSE p \in S!VersionPlaces(w) : IsFirst(w, id, p)

LEMMA FirstIsThere ==
    ASSUME NEW w, NEW h, WorkFits(w, h), NEW id \in S!OnlyInVersions(w)
    PROVE  First(w, id) \in S!VersionPlaces(w) /\ IsFirst(w, id, First(w, id))
<1> DEFINE In(v) == {k \in DOMAIN w.versions[v].clips : w.versions[v].clips[k] = id}
           Vs == {v \in DOMAIN w.versions : In(v) # {}}
<1>1. PICK p \in S!VersionPlaces(w) : S!Clip(w, p) = id  BY DEF S!OnlyInVersions
<1>2. Vs # {}  BY <1>1, PlaceIsPair, PlacesOf DEF IsPlace
<1>3. Vs \in SUBSET Nat  BY PlacesOf
<1>4. PICK v \in Vs : \A x \in Vs : v =< x
  <2> HIDE DEF Vs
  <2> QED  BY <1>2, <1>3, LeastNatural
<1>5. v \in DOMAIN w.versions /\ In(v) # {}  BY <1>4
<1>6. In(v) \in SUBSET Nat  BY <1>5, PlacesOf
<1>7. PICK k \in In(v) : \A l \in In(v) : k =< l
  <2> HIDE DEF In
  <2> QED  BY <1>5, <1>6, LeastNatural
<1>8. <<v, k>> \in S!VersionPlaces(w) /\ S!Clip(w, <<v, k>>) = id  BY <1>5, <1>7, PlacesOf
<1>9. ASSUME NEW q \in S!VersionPlaces(w), S!Clip(w, q) = id  PROVE ~S!Precedes(q, <<v, k>>)
  <2>1. PICK x \in Nat, l \in Nat : IsPlace(w, x, l) /\ q = <<x, l>>  BY PlaceIsPair
  <2>2. l \in In(x)  BY <1>9, <2>1, PlacesOf DEF IsPlace
  <2>3. x \in Vs  BY <2>1, <2>2 DEF IsPlace
  <2>4. v =< x /\ (x = v => k =< l)  BY <1>4, <1>7, <2>2, <2>3
  <2>5. v \in Nat /\ k \in Nat  BY <1>5, <1>7, PlacesOf
  <2> QED  BY ONLY <2>1, <2>4, <2>5 DEF S!Precedes
<1>10. IsFirst(w, id, <<v, k>>)  BY <1>8, <1>9 DEF IsFirst
<1> QED  BY <1>8, <1>10 DEF First

\* What only versions have, in the order in which it is named.
LEMMA VersionsAreFinite ==
    ASSUME NEW w, NEW h, WorkFits(w, h)
    PROVE  IsFiniteSet(S!OnlyInVersions(w))
<1> DEFINE Objs(v) == {w.versions[v].clips[k] : k \in DOMAIN w.versions[v].clips}
           f == [v \in 1..Len(w.versions) |-> Objs(v)]
           All == {f[v] : v \in DOMAIN f}
<1>1. \A v \in DOMAIN w.versions : IsFiniteSet(Objs(v))  BY PlacesOf, RangeIsFinite
<1>2. Len(w.versions) \in Nat /\ DOMAIN w.versions = 1..Len(w.versions)  BY PlacesOf
<1>3. IsFiniteSet(All)
  <2>1. DOMAIN f = 1..Len(w.versions)  OBVIOUS
  <2> HIDE DEF f
  <2> QED  BY <1>2, <2>1, RangeIsFinite
<1>4. \A V \in All : IsFiniteSet(V)
  <2> HIDE DEF Objs
  <2> QED  BY <1>1, <1>2
<1>5. IsFiniteSet(UNION All)
  <2> HIDE DEF All
  <2> QED  BY <1>3, <1>4, FS_UNION
<1>6. S!OnlyInVersions(w) \subseteq UNION All
  <2> SUFFICES ASSUME NEW id \in S!OnlyInVersions(w)  PROVE \E V \in All : id \in V
    OBVIOUS
  <2>1. PICK p \in S!VersionPlaces(w) : S!Clip(w, p) = id  BY DEF S!OnlyInVersions
  <2>2. PICK v \in Nat, k \in Nat : IsPlace(w, v, k) /\ p = <<v, k>>  BY PlaceIsPair
  <2>3. id = w.versions[v].clips[k]  BY <2>1, <2>2, PlacesOf DEF IsPlace
  <2>4. id \in Objs(v)  BY <2>2, <2>3 DEF IsPlace
  <2>5. f[v] \in All /\ f[v] = Objs(v)  BY <1>2, <2>2 DEF IsPlace
  <2> QED  BY <2>4, <2>5
<1> QED
  <2> HIDE DEF All
  <2> QED  BY <1>5, <1>6, FS_Subset

UpTo(w, id) == {o \in S!OnlyInVersions(w) : ~S!Precedes(First(w, id), First(w, o))}

LEMMA CountsDiffer ==
    ASSUME NEW w, NEW h, WorkFits(w, h), NEW a \in S!OnlyInVersions(w), NEW b \in S!OnlyInVersions(w)
    PROVE  /\ Cardinality(UpTo(w, a)) \in Nat
           /\ Cardinality(UpTo(w, a)) = Cardinality(UpTo(w, b)) => a = b
<1>1. ASSUME NEW x \in S!OnlyInVersions(w)
      PROVE  IsFiniteSet(UpTo(w, x)) /\ Cardinality(UpTo(w, x)) \in Nat
  <2>1. UpTo(w, x) \subseteq S!OnlyInVersions(w)  BY DEF UpTo
  <2> QED  BY <2>1, VersionsAreFinite, FS_Subset, FS_CardinalityType
<1>2. ASSUME NEW x \in S!OnlyInVersions(w), NEW y \in S!OnlyInVersions(w), S!Precedes(First(w, x), First(w, y))
      PROVE  Cardinality(UpTo(w, x)) # Cardinality(UpTo(w, y))
  <2> DEFINE fx == First(w, x)
             fy == First(w, y)
  <2>1. fx \in S!VersionPlaces(w) /\ fy \in S!VersionPlaces(w)  BY FirstIsThere
  <2>2. ASSUME NEW o \in UpTo(w, x)  PROVE o \in UpTo(w, y)
    <3> DEFINE fo == First(w, o)
    <3>1. o \in S!OnlyInVersions(w) /\ ~S!Precedes(fx, fo)  BY DEF UpTo
    <3>2. fo \in S!VersionPlaces(w)  BY <3>1, FirstIsThere
    <3> HIDE DEF fo, fx, fy
    <3>3. ~S!Precedes(fy, fo)  BY <1>2, <2>1, <3>1, <3>2, PlacesAreOrdered DEF fx, fy
    <3> QED  BY <3>1, <3>3 DEF UpTo, fo, fy
  <2>3. y \in UpTo(w, y) /\ y \notin UpTo(w, x)
    <3>1. ~S!Precedes(fy, fy)
      <4> HIDE DEF fx, fy
      <4> QED  BY <2>1, PlacesAreOrdered
    <3> QED  BY <1>2, <3>1 DEF UpTo
  <2>4. UpTo(w, x) \in SUBSET UpTo(w, y) /\ UpTo(w, x) # UpTo(w, y)  BY <2>2, <2>3
  <2> QED  BY <1>1, <2>4, FS_Subset
<1>3. ASSUME Cardinality(UpTo(w, a)) = Cardinality(UpTo(w, b))  PROVE a = b
  <2> DEFINE fa == First(w, a)
             fb == First(w, b)
  <2>1. ~S!Precedes(fa, fb) /\ ~S!Precedes(fb, fa)  BY <1>2, <1>3
  <2>2. fa \in S!VersionPlaces(w) /\ fb \in S!VersionPlaces(w) /\ S!Clip(w, fa) = a /\ S!Clip(w, fb) = b
    BY FirstIsThere DEF IsFirst
  <2> HIDE DEF fa, fb
  <2>3. fa = fb  BY <2>1, <2>2, PlacesAreOrdered
  <2> QED  BY <2>2, <2>3
<1> QED  BY <1>1, <1>3

\* buildClipNames gives different objects different names.
VersionName(w, id) == <<"vclip", Cardinality(UpTo(w, id))>>

LEMMA NamesExpand ==
    ASSUME NEW w, NEW id \in S!Live(w) \cup S!OnlyInVersions(w)
    PROVE  S!Names(w)[id] = IF id \in S!Live(w) THEN <<"track", S!Max({j \in DOMAIN w.clips : w.clips[j] = id})>>
                            ELSE VersionName(w, id)
<1> DEFINE F(x) == CHOOSE p \in S!VersionPlaces(w) :
                        /\ S!Clip(w, p) = x
                        /\ \A q \in S!VersionPlaces(w) : S!Clip(w, q) = x => ~S!Precedes(q, p)
<1>1. \A x : F(x) = First(w, x)  BY Zenon DEF First, IsFirst
<1>2. S!Names(w)[id] =
        IF id \in S!Live(w) THEN <<"track", S!Max({j \in DOMAIN w.clips : w.clips[j] = id})>>
        ELSE <<"vclip", S!Cardinality({o \in S!OnlyInVersions(w) : ~S!Precedes(F(id), F(o))})>>
  BY Zenon DEF S!Names
<1>3. {o \in S!OnlyInVersions(w) : ~S!Precedes(F(id), F(o))} = UpTo(w, id)
  <2> HIDE DEF F
  <2> QED  BY <1>1 DEF UpTo
<1>4. S!Cardinality(UpTo(w, id)) = Cardinality(UpTo(w, id))  BY SameCount
<1> HIDE DEF F
<1> QED  BY <1>2, <1>3, <1>4 DEF VersionName

LEMMA NamesAreDistinct ==
    ASSUME NEW w, NEW h, WorkFits(w, h)
    PROVE  /\ DOMAIN S!Names(w) = S!Live(w) \cup S!OnlyInVersions(w)
           /\ DOMAIN S!Names(w) \subseteq DOMAIN h
           /\ \A id \in DOMAIN S!Names(w) : S!Names(w)[id] \in FileName
           /\ \A id, o \in DOMAIN S!Names(w) : S!Names(w)[id] = S!Names(w)[o] => id = o
           /\ \A j \in DOMAIN w.clips : w.clips[j] \in DOMAIN S!Names(w) /\ S!Names(w)[w.clips[j]] = <<"track", j>>
           /\ \A v \in DOMAIN w.versions : \A k \in DOMAIN w.versions[v].clips :
                 w.versions[v].clips[k] \in DOMAIN S!Names(w)
<1> DEFINE nm == S!Names(w)
           L == S!Live(w)
           V == S!OnlyInVersions(w)
<1>1. DOMAIN nm = L \cup V  BY Zenon DEF S!Names
<1>2. ASSUME NEW j \in DOMAIN w.clips  PROVE w.clips[j] \in L
  BY PlacesOf DEF S!Live
<1>3. ASSUME NEW v \in DOMAIN w.versions, NEW k \in DOMAIN w.versions[v].clips
      PROVE  w.versions[v].clips[k] \in L \cup V
  <2>1. <<v, k>> \in S!VersionPlaces(w) /\ S!Clip(w, <<v, k>>) = w.versions[v].clips[k]  BY PlacesOf
  <2>2. w.versions[v].clips[k] \in {S!Clip(w, p) : p \in S!VersionPlaces(w)}  BY <2>1
  <2> QED  BY <2>2 DEF S!OnlyInVersions
<1>4. ASSUME NEW id \in L  PROVE \E j \in DOMAIN w.clips : id = w.clips[j]
  <2>1. PICK p \in S!SongPlaces(w) : id = S!Clip(w, p)  BY DEF S!Live
  <2>2. PICK j \in DOMAIN w.clips : p = <<0, j>>  BY <2>1, PlacesOf
  <2> QED  BY <2>1, <2>2, PlacesOf
<1>5. ASSUME NEW id \in V  PROVE id \in DOMAIN h
  <2>1. PICK p \in S!VersionPlaces(w) : id = S!Clip(w, p)  BY DEF S!OnlyInVersions
  <2>2. PICK v \in DOMAIN w.versions : \E k \in DOMAIN w.versions[v].clips : p = <<v, k>>  BY <2>1, PlacesOf
  <2> QED  BY <2>1, <2>2, PlacesOf
<1>6. ASSUME NEW j \in DOMAIN w.clips  PROVE nm[w.clips[j]] = <<"track", j>>
  <2>1. {i \in DOMAIN w.clips : w.clips[i] = w.clips[j]} = {j}  BY DEF WorkFits, Distinct
  <2>2. j \in Nat  BY PlacesOf
  <2>3. S!Max({j}) = j  BY <2>2 DEF S!Max
  <2>4. nm[w.clips[j]] = <<"track", S!Max({i \in DOMAIN w.clips : w.clips[i] = w.clips[j]})>>  BY <1>2, NamesExpand
  <2> QED  BY <2>1, <2>3, <2>4
<1>7. ASSUME NEW id \in V  PROVE nm[id] = VersionName(w, id)
  <2>1. id \notin L  BY DEF S!OnlyInVersions
  <2> QED  BY <2>1, NamesExpand
<1>8. ASSUME NEW id \in L  PROVE \E j \in DOMAIN w.clips : id = w.clips[j] /\ nm[id] = <<"track", j>> /\ j \in Nat
  <2>1. PICK j \in DOMAIN w.clips : id = w.clips[j]  BY <1>4
  <2>2. j \in Nat  BY PlacesOf
  <2> HIDE DEF nm
  <2> QED  BY <1>6, <2>1, <2>2
<1>9. ASSUME NEW id \in V  PROVE VersionName(w, id) \in {"vclip"} \X Nat
  BY CountsDiffer DEF VersionName
<1>10. ASSUME NEW id \in L \cup V, NEW o \in L \cup V, nm[id] = nm[o]  PROVE id = o
  <2>1. CASE id \in L /\ o \in L
    <3>1. PICK i \in DOMAIN w.clips : id = w.clips[i] /\ nm[id] = <<"track", i>>  BY <1>8, <2>1
    <3>2. PICK j \in DOMAIN w.clips : o = w.clips[j] /\ nm[o] = <<"track", j>>  BY <1>8, <2>1
    <3>3. i = j
      <4> HIDE DEF nm
      <4> QED  BY <1>10, <3>1, <3>2
    <3> QED  BY <3>1, <3>2, <3>3
  <2>2. CASE id \in V /\ o \in V
    <3>1. VersionName(w, id) = VersionName(w, o)  BY <1>7, <1>10, <2>2
    <3>2. Cardinality(UpTo(w, id)) = Cardinality(UpTo(w, o))  BY <3>1 DEF VersionName
    <3> QED  BY <2>2, <3>2, CountsDiffer
  <2>3. ASSUME NEW x \in L, NEW y \in V  PROVE nm[x] # nm[y]
    <3>1. nm[x][1] = "track"  BY <1>8
    <3>2. nm[y][1] = "vclip"  BY <1>7, <1>9 DEF VersionName
    <3> QED
      <4> HIDE DEF nm
      <4> QED  BY <3>1, <3>2
  <2> HIDE DEF nm, L, V
  <2> QED  BY <1>10, <2>1, <2>2, <2>3
<1>11. ASSUME NEW id \in L \cup V  PROVE nm[id] \in FileName
  <2>1. CASE id \in L
    <3>1. PICK j \in Nat : nm[id] = <<"track", j>>  BY <1>8, <2>1
    <3> HIDE DEF nm
    <3> QED  BY <3>1 DEF FileName
  <2>2. CASE id \in V
    <3>1. nm[id] \in {"vclip"} \X Nat  BY <1>7, <1>9, <2>2
    <3> HIDE DEF nm
    <3> QED  BY <3>1 DEF FileName
  <2> QED  BY <2>1, <2>2
<1>12. L \cup V \subseteq DOMAIN h
  <2>1. \A j \in DOMAIN w.clips : w.clips[j] \in DOMAIN h  BY PlacesOf
  <2> HIDE DEF L, V
  <2> QED  BY <1>4, <1>5, <2>1
<1> HIDE DEF nm, L, V
<1> QED  BY <1>1, <1>2, <1>3, <1>6, <1>10, <1>11, <1>12 DEF nm, L, V

\* What is written of a work.
LEMMA SongTextFits ==
    ASSUME NEW w, WorkFits(w, heap)
    PROVE  /\ S!SongText(w) \in Seq(Ref) /\ DOMAIN S!SongText(w) = DOMAIN w.clips
           /\ \A j \in DOMAIN w.clips : S!SongText(w)[j] = [file |-> <<"track", j>>, at |-> heap[w.clips[j]].at]
           /\ Distinct(S!Objects(S!SongText(w)))
<1>1. Len(w.clips) \in Nat /\ DOMAIN w.clips = 1..Len(w.clips)  BY PlacesOf
<1>2. ASSUME NEW j \in DOMAIN w.clips  PROVE [file |-> <<"track", j>>, at |-> heap[w.clips[j]].at] \in Ref
  <2>1. heap[w.clips[j]] \in [sound : Sounds, at : Int]  BY PlacesOf DEF WorkFits, HeapFits
  <2>2. heap[w.clips[j]].at \in Int  BY <2>1
  <2>3. <<"track", j>> \in FileName  BY <1>1 DEF FileName
  <2> QED  BY <2>2, <2>3 DEF Ref
<1>3. S!SongText(w) = [j \in 1..Len(w.clips) |-> [file |-> <<"track", j>>, at |-> heap[w.clips[j]].at]]
  BY <1>1 DEF S!SongText
<1>4. S!SongText(w) \in Seq(Ref)  BY <1>1, <1>2, <1>3
<1>5. DOMAIN S!SongText(w) = 1..Len(w.clips)
      /\ \A j \in 1..Len(w.clips) : S!SongText(w)[j] = [file |-> <<"track", j>>, at |-> heap[w.clips[j]].at]
  BY <1>3
<1>6. Distinct(S!Objects(S!SongText(w)))
  <2> DEFINE x == S!SongText(w)
  <2>0. DOMAIN x = 1..Len(w.clips) /\ \A j \in 1..Len(w.clips) : x[j].file = <<"track", j>>
    <3>1. DOMAIN x = 1..Len(w.clips)
          /\ \A j \in 1..Len(w.clips) : x[j] = [file |-> <<"track", j>>, at |-> heap[w.clips[j]].at]
      BY <1>5
    <3> HIDE DEF x
    <3>2. ASSUME NEW j \in 1..Len(w.clips)  PROVE x[j].file = <<"track", j>>
      <4>1. x[j] = [file |-> <<"track", j>>, at |-> heap[w.clips[j]].at]  BY <3>1
      <4> QED  BY ONLY <4>1
    <3> QED  BY ONLY <3>1, <3>2
  <2> HIDE DEF x
  <2>1. DOMAIN S!Objects(x) = 1..Len(w.clips)
        /\ \A j \in 1..Len(w.clips) : S!Objects(x)[j] = <<"track", j>>
    BY <2>0 DEF S!Objects
  <2> USE DEF x
  <2> QED  BY <2>1 DEF Distinct
<1> QED  BY <1>1, <1>4, <1>5, <1>6

LEMMA VersionTextFits ==
    ASSUME NEW w, WorkFits(w, heap), NEW v \in DOMAIN w.versions
    PROVE  LET n == w.versions[v]
               x == S!VersionText(w, n)
           IN  /\ x \in [id : Int, parent : Int, notes : Int, clips : Seq(Ref)]
               /\ x.id = n.id /\ x.parent = n.parent /\ x.notes = n.notes
               /\ DOMAIN x.clips = DOMAIN n.clips
               /\ \A k \in DOMAIN n.clips : x.clips[k] = [file |-> S!Names(w)[n.clips[k]], at |-> n.places[k]]
               /\ Distinct(S!Objects(x.clips))
<1> DEFINE n == w.versions[v]
           x == S!VersionText(w, n)
<1>1. /\ Len(n.clips) \in Nat /\ DOMAIN n.clips = 1..Len(n.clips)
      /\ n \in Version(DOMAIN heap)
  BY PlacesOf
<1>2. n.places \in Seq(Int) /\ n.id \in Int /\ n.parent \in Int /\ n.notes \in Int
  <2> HIDE DEF n
  <2> QED  BY <1>1 DEF Version
<1>3. Len(n.places) = Len(n.clips) /\ Distinct(n.clips)  BY DEF WorkFits
<1>4. \A k \in DOMAIN n.clips : S!Names(w)[n.clips[k]] \in FileName /\ n.clips[k] \in DOMAIN S!Names(w)
  BY NamesAreDistinct
<1>5. \A k \in DOMAIN n.clips : n.places[k] \in Int
  <2> HIDE DEF n
  <2> QED  BY <1>1, <1>2, <1>3
<1> DEFINE c == [k \in 1..Len(n.clips) |-> [file |-> S!Names(w)[n.clips[k]], at |-> n.places[k]]]
<1>6. x = [id |-> n.id, parent |-> n.parent, notes |-> n.notes, clips |-> c]
  BY <1>1 DEF S!VersionText
<1>7. ASSUME NEW k \in 1..Len(n.clips)  PROVE [file |-> S!Names(w)[n.clips[k]], at |-> n.places[k]] \in Ref
  BY <1>1, <1>4, <1>5 DEF Ref
<1>8. c \in Seq(Ref)
  <2> HIDE DEF n
  <2> QED  BY <1>1, <1>7
<1>9. Distinct(S!Objects(c))
  <2>1. DOMAIN c = 1..Len(n.clips) /\ \A k \in 1..Len(n.clips) : c[k].file = S!Names(w)[n.clips[k]]
    <3> HIDE DEF n
    <3> QED  OBVIOUS
  <2> HIDE DEF c, n
  <2>2. DOMAIN S!Objects(c) = 1..Len(n.clips)
        /\ \A k \in 1..Len(n.clips) : S!Objects(c)[k] = S!Names(w)[n.clips[k]]
    BY <2>1 DEF S!Objects
  <2> SUFFICES ASSUME NEW i \in 1..Len(n.clips), NEW j \in 1..Len(n.clips), S!Objects(c)[i] = S!Objects(c)[j]
               PROVE  i = j
    BY <2>2 DEF Distinct
  <2>3. S!Names(w)[n.clips[i]] = S!Names(w)[n.clips[j]]  BY <2>2
  <2>4. n.clips[i] = n.clips[j]  BY <1>1, <1>4, <2>3, NamesAreDistinct
  <2> QED  BY <1>1, <1>3, <2>4 DEF Distinct
<1>10. DOMAIN c = DOMAIN n.clips
       /\ \A k \in DOMAIN n.clips : c[k] = [file |-> S!Names(w)[n.clips[k]], at |-> n.places[k]]
  <2> HIDE DEF n
  <2> QED  BY <1>1
<1>11. x \in [id : Int, parent : Int, notes : Int, clips : Seq(Ref)]
       /\ x.id = n.id /\ x.parent = n.parent /\ x.notes = n.notes /\ x.clips = c
  <2> HIDE DEF x, c, n
  <2> QED  BY <1>2, <1>6, <1>8
<1> HIDE DEF x, c
<1> QED  BY <1>9, <1>10, <1>11 DEF x

LEMMA SerializedFits ==
    ASSUME NEW w, WorkFits(w, heap)
    PROVE  /\ TextFits(S!Serialized(w))
           /\ S!Serialized(w).notes = w.notes /\ S!Serialized(w).clips = S!SongText(w)
           /\ S!Serialized(w).current = w.current
           /\ DOMAIN S!Serialized(w).versions = DOMAIN w.versions
           /\ \A v \in DOMAIN w.versions : S!Serialized(w).versions[v] = S!VersionText(w, w.versions[v])
<1>1. /\ w.notes \in Int /\ w.current \in Int /\ w.nextId \in Int
      /\ Len(w.versions) \in Nat /\ DOMAIN w.versions = 1..Len(w.versions)
  BY PlacesOf DEF WorkFits, Work
<1>2. CASE w.versions = <<>>
  <2>1. S!Serialized(w) = [notes |-> w.notes, clips |-> S!SongText(w), versions |-> <<>>, current |-> -1, nextId |-> 1]
    BY <1>2 DEF S!Serialized
  <2>2. w.current = -1  BY <1>2 DEF WorkFits
  <2>3. DOMAIN <<>> = {} /\ <<>> \in Seq([id : Int, parent : Int, notes : Int, clips : Seq(Ref)])  OBVIOUS
  <2>4. S!SongText(w) \in Seq(Ref) /\ Distinct(S!Objects(S!SongText(w)))  BY SongTextFits
  <2> QED  BY <1>1, <1>2, <2>1, <2>2, <2>3, <2>4 DEF TextFits, Text
<1>3. CASE w.versions # <<>>
  <2> DEFINE vs == [v \in DOMAIN w.versions |-> S!VersionText(w, w.versions[v])]
             R  == [id : Int, parent : Int, notes : Int, clips : Seq(Ref)]
  <2>1. S!Serialized(w) = [notes |-> w.notes, clips |-> S!SongText(w), current |-> w.current,
                           nextId |-> w.nextId, versions |-> vs]
    BY <1>3 DEF S!Serialized
  <2>2. \A v \in DOMAIN w.versions :
           /\ vs[v] \in R /\ vs[v].id = w.versions[v].id /\ Distinct(S!Objects(vs[v].clips))
    BY VersionTextFits
  <2>3. vs \in Seq(R) /\ DOMAIN vs = DOMAIN w.versions /\ vs # <<>>
    <3>1. vs = [v \in 1..Len(w.versions) |-> vs[v]] /\ DOMAIN vs = 1..Len(w.versions)  BY <1>1
    <3>2. Len(w.versions) # 0
      <4>1. w.versions \in Seq(Version(DOMAIN heap))  BY DEF WorkFits, Work
      <4> QED  BY <1>3, <4>1
    <3>3. \A v \in 1..Len(w.versions) : vs[v] \in R  BY <1>1, <2>2
    <3> HIDE DEF vs, R
    <3> QED  BY <1>1, <3>1, <3>2, <3>3
  <2>4. \A v \in DOMAIN vs : Distinct(S!Objects(vs[v].clips)) /\ vs[v].id < w.nextId
    BY <2>2, <2>3 DEF WorkFits
  <2>5. S!SongText(w) \in Seq(Ref) /\ Distinct(S!Objects(S!SongText(w)))  BY SongTextFits
  <2>6. \A v \in DOMAIN w.versions : vs[v] = S!VersionText(w, w.versions[v])  OBVIOUS
  <2> HIDE DEF vs
  <2>7. [notes |-> w.notes, clips |-> S!SongText(w), current |-> w.current, nextId |-> w.nextId, versions |-> vs]
            \in Text
    BY <1>1, <2>3, <2>5 DEF Text
  <2>8. TextFits(S!Serialized(w))
    BY <2>1, <2>3, <2>4, <2>5, <2>7 DEF TextFits
  <2> QED  BY <2>1, <2>3, <2>6, <2>8
<1> QED  BY <1>2, <1>3

\* What is read of a file that was written: every list, every object and where it lies.
FileFits(p) == TextFits(p.text) /\ p.side \in [DOMAIN p.side -> Sounds]

LEMMA ObjectsFit ==
    ASSUME NEW refs \in Seq(Ref), NEW V, \A k \in DOMAIN refs : refs[k].file \in V
    PROVE  /\ S!Objects(refs) \in Seq(V) /\ DOMAIN S!Objects(refs) = DOMAIN refs
           /\ Len(S!Objects(refs)) = Len(refs)
           /\ \A k \in DOMAIN refs : S!Objects(refs)[k] = refs[k].file
<1>1. Len(refs) \in Nat /\ DOMAIN refs = 1..Len(refs)  OBVIOUS
<1>2. S!Objects(refs) = [k \in 1..Len(refs) |-> refs[k].file]  BY <1>1 DEF S!Objects
<1> QED  BY <1>1, <1>2

LEMMA RefsAreRead ==
    ASSUME NEW p, FileFits(p)
    PROVE  /\ S!LiveRefs(p) \in Seq(Ref) /\ Distinct(S!Objects(S!LiveRefs(p)))
           /\ \A k \in DOMAIN S!LiveRefs(p) : S!LiveRefs(p)[k].file \in S!FilesRead(p)
           /\ \A v \in DOMAIN p.text.versions :
                 /\ S!VersionRefs(p, v) \in Seq(Ref) /\ Distinct(S!Objects(S!VersionRefs(p, v)))
                 /\ \A k \in DOMAIN S!VersionRefs(p, v) : S!VersionRefs(p, v)[k].file \in S!FilesRead(p)
           /\ S!FilesRead(p) \subseteq FileName \cap DOMAIN p.side
           /\ \A f \in S!FilesRead(p) :
                 \/ \E k \in DOMAIN S!LiveRefs(p) : S!LiveRefs(p)[k].file = f
                 \/ \E v \in DOMAIN p.text.versions :
                       \E k \in DOMAIN S!VersionRefs(p, v) : S!VersionRefs(p, v)[k].file = f
<1> DEFINE x == p.text
           lr == S!LiveRefs(p)
           vr(v) == S!VersionRefs(p, v)
           Sided == DOMAIN p.side
<1>1. /\ x.clips \in Seq(Ref) /\ Distinct(S!Objects(x.clips))
      /\ \A v \in DOMAIN x.versions : x.versions[v].clips \in Seq(Ref) /\ Distinct(S!Objects(x.versions[v].clips))
  <2>1. x \in Text /\ TextFits(x)  BY DEF FileFits, TextFits
  <2> HIDE DEF x
  <2> DEFINE R == [id : Int, parent : Int, notes : Int, clips : Seq(Ref)]
  <2>2. x.clips \in Seq(Ref) /\ x.versions \in Seq(R)  BY <2>1 DEF Text
  <2>3. \A v \in DOMAIN x.versions : x.versions[v] \in R
    <3> HIDE DEF R
    <3> QED  BY <2>2
  <2> QED  BY <2>1, <2>2, <2>3 DEF TextFits
<1>2. lr \in Seq(Ref) /\ Distinct(S!Objects(lr)) /\ \A k \in DOMAIN lr : lr[k].file \in Sided
  BY <1>1, ReadableKeeps DEF S!LiveRefs
<1>3. ASSUME NEW v \in DOMAIN x.versions
      PROVE  vr(v) \in Seq(Ref) /\ Distinct(S!Objects(vr(v))) /\ \A k \in DOMAIN vr(v) : vr(v)[k].file \in Sided
  BY <1>1, ReadableKeeps DEF S!VersionRefs
<1>4. S!FilesRead(p) = {S!Objects(lr)[k] : k \in DOMAIN S!Objects(lr)}
                \cup UNION {{S!Objects(vr(v))[k] : k \in DOMAIN S!Objects(vr(v))} : v \in DOMAIN x.versions}
  BY Zenon DEF S!FilesRead, S!Range
<1> HIDE DEF lr, vr, x, Sided
<1>5. DOMAIN S!Objects(lr) = DOMAIN lr /\ \A k \in DOMAIN lr : S!Objects(lr)[k] = lr[k].file
  BY <1>2, ObjectsFit
<1>6. \A v \in DOMAIN x.versions :
          /\ DOMAIN S!Objects(vr(v)) = DOMAIN vr(v)
          /\ \A k \in DOMAIN vr(v) : S!Objects(vr(v))[k] = vr(v)[k].file
  BY <1>3, ObjectsFit
<1>7. \A k \in DOMAIN lr : lr[k].file \in S!FilesRead(p)  BY <1>4, <1>5
<1>8. ASSUME NEW v \in DOMAIN x.versions, NEW k \in DOMAIN vr(v)  PROVE vr(v)[k].file \in S!FilesRead(p)
  <2> DEFINE Vr == {S!Objects(vr(v))[i] : i \in DOMAIN S!Objects(vr(v))}
  <2>1. vr(v)[k].file \in Vr  BY <1>6
  <2>2. Vr \in {{S!Objects(vr(u))[i] : i \in DOMAIN S!Objects(vr(u))} : u \in DOMAIN x.versions}  OBVIOUS
  <2> HIDE DEF Vr
  <2> QED  BY <1>4, <2>1, <2>2
<1>9. ASSUME NEW f \in S!FilesRead(p)
      PROVE  \/ \E k \in DOMAIN lr : lr[k].file = f
             \/ \E v \in DOMAIN x.versions : \E k \in DOMAIN vr(v) : vr(v)[k].file = f
  <2>1. CASE f \in {S!Objects(lr)[k] : k \in DOMAIN S!Objects(lr)}  BY <1>5, <2>1
  <2>2. CASE \E v \in DOMAIN x.versions : f \in {S!Objects(vr(v))[k] : k \in DOMAIN S!Objects(vr(v))}
    BY <1>6, <2>2
  <2> QED  BY <1>4, <2>1, <2>2
<1>10. \A f \in S!FilesRead(p) : f \in FileName /\ f \in Sided
  <2>1. \A k \in DOMAIN lr : lr[k].file \in FileName
    <3>1. \A k \in DOMAIN lr : lr[k] \in Ref  BY <1>2
    <3> QED  BY <3>1 DEF Ref
  <2>2. ASSUME NEW v \in DOMAIN x.versions, NEW k \in DOMAIN vr(v)  PROVE vr(v)[k].file \in FileName
    <3>1. vr(v)[k] \in Ref  BY <1>3
    <3> QED  BY <3>1 DEF Ref
  <2> QED  BY <1>2, <1>3, <1>9, <2>1, <2>2
<1> QED  BY <1>2, <1>3, <1>7, <1>8, <1>9, <1>10 DEF lr, vr, x, Sided

LEMMA LiesFits ==
    ASSUME NEW p, FileFits(p), NEW f \in S!FilesRead(p)
    PROVE  /\ S!Lies(p, f) \in Int
           /\ \A k \in DOMAIN S!LiveRefs(p) : S!LiveRefs(p)[k].file = f => S!Lies(p, f) = S!LiveRefs(p)[k].at
<1> DEFINE x == p.text
           lr == S!LiveRefs(p)
           vr(v) == S!VersionRefs(p, v)
           In(refs) == {k \in DOMAIN refs : refs[k].file = f}
           Vs == {v \in DOMAIN x.versions : In(vr(v)) # {}}
<1>1. S!Lies(p, f) = IF In(lr) # {} THEN lr[S!Max(In(lr))].at ELSE vr(S!Min(Vs))[S!Min(In(vr(S!Min(Vs))))].at
  BY Zenon DEF S!Lies
<1>2. lr \in Seq(Ref) /\ Distinct(S!Objects(lr)) /\ DOMAIN lr = 1..Len(lr) /\ Len(lr) \in Nat
      /\ \A k \in DOMAIN lr : lr[k] \in Ref
  <2>1. lr \in Seq(Ref) /\ Distinct(S!Objects(lr))  BY RefsAreRead
  <2> HIDE DEF lr
  <2> QED  BY <2>1
<1>3. ASSUME NEW k \in DOMAIN lr, lr[k].file = f
      PROVE  In(lr) # {} /\ S!Max(In(lr)) = k /\ lr[k].at \in Int
  <2>1. \A i, j \in DOMAIN lr : lr[i].file = lr[j].file => i = j
    <3> HIDE DEF lr
    <3>1. S!Objects(lr) = [i \in DOMAIN lr |-> lr[i].file]  BY DEF S!Objects
    <3> QED  BY <1>2, <3>1 DEF Distinct
  <2> HIDE DEF lr
  <2>2. In(lr) = {k}  BY <1>3, <2>1
  <2>3. k \in Nat  BY <1>2
  <2>4. S!Max({k}) = k  BY <2>3 DEF S!Max
  <2>5. lr[k].at \in Int  BY <1>2 DEF Ref
  <2> QED  BY <2>2, <2>4, <2>5
<1>4. CASE In(lr) # {}  BY <1>1, <1>3, <1>4
<1>5. CASE In(lr) = {}
  <2> DEFINE v == S!Min(Vs)
             k == S!Min(In(vr(v)))
  <2>1. Vs # {}  BY <1>5, RefsAreRead
  <2>2. DOMAIN x.versions \subseteq Nat
    <3>1. x \in Text  BY DEF FileFits, TextFits
    <3> HIDE DEF x
    <3>2. x.versions \in Seq([id : Int, parent : Int, notes : Int, clips : Seq(Ref)])  BY <3>1 DEF Text
    <3> QED  BY <3>2
  <2>3. v \in Vs
    <3>1. Vs \in SUBSET Nat  BY <2>2
    <3> HIDE DEF Vs
    <3> QED  BY <2>1, <3>1, MinIsLeast
  <2>4. v \in DOMAIN x.versions /\ In(vr(v)) # {}
    <3> HIDE DEF v
    <3> QED  BY <2>3
  <2>5. vr(v) \in Seq(Ref)
    <3> HIDE DEF v
    <3> QED  BY <2>4, RefsAreRead
  <2> HIDE DEF v, vr
  <2>6. In(vr(v)) \in SUBSET Nat /\ \A i \in DOMAIN vr(v) : vr(v)[i] \in Ref  BY <2>5
  <2>7. k \in In(vr(v))
    <3> HIDE DEF In
    <3> QED  BY <2>4, <2>6, MinIsLeast
  <2>8. vr(v)[k].at \in Int  BY <2>6, <2>7 DEF Ref
  <2>9. S!Lies(p, f) = vr(v)[k].at  BY <1>1, <1>5 DEF v, vr
  <2>10. \A i \in DOMAIN lr : lr[i].file # f  BY <1>5
  <2> QED  BY <2>8, <2>9, <2>10
<1> QED  BY <1>4, <1>5

LEMMA LoadedHeap ==
    ASSUME NEW p, FileFits(p)
    PROVE  LET h == S!Loaded(p).heap
           IN  /\ DOMAIN h = S!FilesRead(p) /\ HeapFits(h)
               /\ \A f \in DOMAIN h : h[f] = [sound |-> p.side[f], at |-> S!Lies(p, f)]
<1> DEFINE h == S!Loaded(p).heap
<1>1. h = [f \in S!FilesRead(p) |-> [sound |-> p.side[f], at |-> S!Lies(p, f)]]  BY Zenon DEF S!Loaded
<1>2. ASSUME NEW f \in S!FilesRead(p)  PROVE [sound |-> p.side[f], at |-> S!Lies(p, f)] \in [sound : Sounds, at : Int]
  <2>1. f \in DOMAIN p.side  BY RefsAreRead
  <2>2. p.side[f] \in Sounds  BY <2>1 DEF FileFits
  <2> QED  BY <2>2, LiesFits
<1> HIDE DEF h
<1>3. DOMAIN h = S!FilesRead(p) /\ \A f \in DOMAIN h : h[f] = [sound |-> p.side[f], at |-> S!Lies(p, f)]
  BY <1>1
<1>4. h \in [DOMAIN h -> [sound : Sounds, at : Int]]  BY <1>1, <1>2
<1>5. DOMAIN h \subseteq ObjectId
  <2>1. FileName \subseteq ObjectId  BY DEF FileName, ObjectId
  <2> QED  BY <1>3, <2>1, RefsAreRead
<1> QED  BY <1>3, <1>4, <1>5 DEF h, HeapFits

LEMMA LoadedWork ==
    ASSUME NEW p, FileFits(p)
    PROVE  LET w == S!Loaded(p).work
               x == p.text
           IN  /\ w.notes = x.notes /\ w.current = x.current
               /\ w.clips = S!Objects(S!LiveRefs(p)) /\ DOMAIN w.versions = DOMAIN x.versions
               /\ \A v \in DOMAIN x.versions :
                     /\ w.versions[v].id = x.versions[v].id /\ w.versions[v].parent = x.versions[v].parent
                     /\ w.versions[v].notes = x.versions[v].notes
                     /\ w.versions[v].clips = S!Objects(S!VersionRefs(p, v))
                     /\ w.versions[v].places = [k \in DOMAIN S!VersionRefs(p, v) |-> S!VersionRefs(p, v)[k].at]
               /\ WorkFits(w, S!Loaded(p).heap)
<1> DEFINE w == S!Loaded(p).work
           h == S!Loaded(p).heap
           x == p.text
           R == [id : Int, parent : Int, notes : Int, clips : Seq(Ref)]
           next == S!Max({x.nextId} \cup {x.versions[v].id + 1 : v \in DOMAIN x.versions})
           ver(v) == [id |-> x.versions[v].id, parent |-> x.versions[v].parent, notes |-> x.versions[v].notes,
                      clips |-> S!Objects(S!VersionRefs(p, v)),
                      places |-> [k \in DOMAIN S!VersionRefs(p, v) |-> S!VersionRefs(p, v)[k].at]]
           vs == [v \in DOMAIN x.versions |-> ver(v)]
<1>1. w = [notes |-> x.notes, current |-> x.current, nextId |-> next, clips |-> S!Objects(S!LiveRefs(p)), versions |-> vs]
  BY Zenon DEF S!Loaded
<1>2. /\ x.notes \in Int /\ x.current \in Int /\ x.nextId \in Int /\ x.versions \in Seq(R)
      /\ \A v \in DOMAIN x.versions : x.versions[v].id < x.nextId
      /\ x.versions = <<>> => x.current = -1
  <2>1. x \in Text /\ TextFits(x)  BY DEF FileFits, TextFits
  <2> HIDE DEF x, R
  <2> QED  BY <2>1 DEF Text, TextFits, R
<1>3. Len(x.versions) \in Nat /\ DOMAIN x.versions = 1..Len(x.versions)
      /\ \A v \in DOMAIN x.versions : x.versions[v] \in R
  <2> HIDE DEF x, R
  <2> QED  BY <1>2
<1>4. \A v \in DOMAIN x.versions :
         x.versions[v].id \in Int /\ x.versions[v].parent \in Int /\ x.versions[v].notes \in Int
  <2> HIDE DEF x
  <2> QED  BY <1>3
<1>5. next = x.nextId
  <2> DEFINE N == {x.nextId} \cup {x.versions[v].id + 1 : v \in DOMAIN x.versions}
  <2>1. x.nextId \in N /\ \A m \in N : m \in Int /\ m =< x.nextId
    <3> HIDE DEF x
    <3>1. ASSUME NEW v \in DOMAIN x.versions
          PROVE  x.versions[v].id + 1 \in Int /\ x.versions[v].id + 1 =< x.nextId
      <4>1. x.versions[v].id \in Int /\ x.versions[v].id < x.nextId /\ x.nextId \in Int  BY <1>2, <1>4
      <4> QED  BY ONLY <4>1
    <3> QED  BY <1>2, <3>1
  <2> HIDE DEF N, x
  <2>2. S!Max(N) \in N /\ \A m \in N : S!Max(N) >= m  BY <1>2, <2>1 DEF S!Max
  <2>3. S!Max(N) = x.nextId  BY <1>2, <2>1, <2>2
  <2> QED  BY <2>3 DEF N
<1>6. DOMAIN h = S!FilesRead(p) /\ HeapFits(h)  BY LoadedHeap
<1>7. S!Objects(S!LiveRefs(p)) \in Seq(DOMAIN h) /\ Distinct(S!Objects(S!LiveRefs(p)))
  BY <1>6, RefsAreRead, ObjectsFit
<1>8. ASSUME NEW v \in DOMAIN x.versions
      PROVE  /\ ver(v) \in Version(DOMAIN h) /\ Distinct(ver(v).clips)
             /\ Len(ver(v).places) = Len(ver(v).clips)
  <2> DEFINE vr == S!VersionRefs(p, v)
             at == [k \in DOMAIN vr |-> vr[k].at]
  <2>1. vr \in Seq(Ref) /\ Distinct(S!Objects(vr)) /\ \A k \in DOMAIN vr : vr[k].file \in DOMAIN h
    BY <1>6, RefsAreRead
  <2> HIDE DEF vr
  <2>2. S!Objects(vr) \in Seq(DOMAIN h) /\ Len(S!Objects(vr)) = Len(vr)  BY <2>1, ObjectsFit
  <2>3. at \in Seq(Int) /\ Len(at) = Len(vr)
    <3>1. Len(vr) \in Nat /\ DOMAIN vr = 1..Len(vr) /\ \A k \in DOMAIN vr : vr[k] \in Ref  BY <2>1
    <3>2. \A k \in 1..Len(vr) : vr[k].at \in Int  BY <3>1 DEF Ref
    <3>3. at = [k \in 1..Len(vr) |-> vr[k].at]  BY <3>1
    <3> QED  BY <3>1, <3>2, <3>3
  <2>4. ver(v) = [id |-> x.versions[v].id, parent |-> x.versions[v].parent, notes |-> x.versions[v].notes,
                  clips |-> S!Objects(vr), places |-> at]
    BY DEF vr
  <2> HIDE DEF at, x, h
  <2> QED  BY <1>4, <2>1, <2>2, <2>3, <2>4 DEF Version
<1>9. vs \in Seq(Version(DOMAIN h)) /\ DOMAIN vs = DOMAIN x.versions /\ (vs = <<>> => x.versions = <<>>)
  <2>1. vs = [v \in 1..Len(x.versions) |-> ver(v)]  BY <1>3
  <2>2. \A v \in 1..Len(x.versions) : ver(v) \in Version(DOMAIN h)  BY <1>3, <1>8
  <2> HIDE DEF ver, h
  <2>3. vs \in Seq(Version(DOMAIN h)) /\ DOMAIN vs = 1..Len(x.versions)
    <3> HIDE DEF x
    <3> QED  BY <1>3, <2>1, <2>2
  <2> HIDE DEF vs, x
  <2>4. vs = <<>> => Len(x.versions) = 0  BY <1>3, <2>3
  <2>5. Len(x.versions) = 0 => x.versions = <<>>  BY <1>2
  <2> QED  BY <1>3, <2>3, <2>4, <2>5
<1>10. \A v \in DOMAIN x.versions : vs[v] = ver(v)  OBVIOUS
<1>11. w.notes = x.notes /\ w.current = x.current /\ w.nextId = x.nextId
       /\ w.clips = S!Objects(S!LiveRefs(p)) /\ w.versions = vs
       /\ w \in Work(DOMAIN h)
  <2> HIDE DEF w, x, vs, next, h
  <2> QED  BY <1>1, <1>2, <1>5, <1>7, <1>9 DEF Work
<1>12. \A v \in DOMAIN x.versions :
          /\ ver(v).id = x.versions[v].id /\ ver(v).parent = x.versions[v].parent
          /\ ver(v).notes = x.versions[v].notes /\ ver(v).clips = S!Objects(S!VersionRefs(p, v))
          /\ ver(v).places = [k \in DOMAIN S!VersionRefs(p, v) |-> S!VersionRefs(p, v)[k].at]
  OBVIOUS
<1> HIDE DEF w, h, x, vs, ver
<1>13. WorkFits(w, h)
  <2>1. ASSUME NEW v \in DOMAIN w.versions
        PROVE  /\ Distinct(w.versions[v].clips) /\ Len(w.versions[v].places) = Len(w.versions[v].clips)
               /\ w.versions[v].id < w.nextId
    <3>1. v \in DOMAIN x.versions /\ w.versions[v] = ver(v)  BY <1>9, <1>10, <1>11
    <3>2. ver(v).id < x.nextId  BY <1>2, <1>12, <3>1
    <3> QED  BY <1>8, <1>11, <3>1, <3>2
  <2>2. Distinct(w.clips)  BY <1>7, <1>11
  <2>3. w.versions = <<>> => w.current = -1  BY <1>2, <1>9, <1>11
  <2> QED  BY <1>6, <1>11, <2>1, <2>2, <2>3 DEF WorkFits
<1> QED  BY <1>9, <1>10, <1>11, <1>12, <1>13 DEF w, h, x

\* A file that has been written whole gives back the work.
LEMMA RoundTrip ==
    ASSUME WorkFits(work, heap), NEW p, p.text = S!Serialized(work),
           p.side \in [DOMAIN p.side -> Sounds],
           \A id \in DOMAIN S!Names(work) : /\ S!Names(work)[id] \in DOMAIN p.side
                                            /\ p.side[S!Names(work)[id]] = heap[id].sound
    PROVE  S!Shape(S!Loaded(p).work, S!Loaded(p).heap) = S!Shape(work, heap)
<1> DEFINE w == work
           nm == S!Names(w)
           lw == S!Loaded(p).work
           lh == S!Loaded(p).heap
           ver(v) == w.versions[v]
           at(v) == S!VersionText(w, ver(v))
<1>1. FileFits(p)  BY SerializedFits DEF FileFits
<1>2. WorkFits(lw, lh)  BY <1>1, LoadedWork
<1>3. /\ DOMAIN p.text.versions = DOMAIN w.versions /\ p.text.clips = S!SongText(w)
      /\ p.text.notes = w.notes /\ p.text.current = w.current
      /\ \A v \in DOMAIN w.versions : p.text.versions[v] = at(v)
  BY SerializedFits
<1>4. S!LiveRefs(p) = S!SongText(w)
  <2>1. ASSUME NEW j \in DOMAIN w.clips  PROVE <<"track", j>> \in DOMAIN p.side
    <3>1. w.clips[j] \in DOMAIN nm /\ nm[w.clips[j]] = <<"track", j>>  BY NamesAreDistinct
    <3>2. nm[w.clips[j]] \in DOMAIN p.side  BY <3>1
    <3> QED  BY <3>1, <3>2
  <2>2. \A j \in DOMAIN S!SongText(w) : S!SongText(w)[j].file \in DOMAIN p.side
    <3> SUFFICES ASSUME NEW j \in DOMAIN S!SongText(w)  PROVE S!SongText(w)[j].file \in DOMAIN p.side
      OBVIOUS
    <3>1. j \in DOMAIN w.clips /\ S!SongText(w)[j] = [file |-> <<"track", j>>, at |-> heap[w.clips[j]].at]
      BY SongTextFits
    <3>2. S!SongText(w)[j].file = <<"track", j>>  BY ONLY <3>1
    <3> QED  BY <2>1, <3>1, <3>2
  <2> QED  BY <1>3, <2>2, SongTextFits, ReadableKeeps DEF S!LiveRefs
<1>5. ASSUME NEW v \in DOMAIN w.versions
      PROVE  /\ S!VersionRefs(p, v) = at(v).clips
             /\ \A k \in DOMAIN ver(v).clips : at(v).clips[k].file = nm[ver(v).clips[k]]
                                               /\ at(v).clips[k].at = ver(v).places[k]
  <2>1. /\ at(v) \in [id : Int, parent : Int, notes : Int, clips : Seq(Ref)]
        /\ DOMAIN at(v).clips = DOMAIN ver(v).clips
        /\ \A k \in DOMAIN ver(v).clips : at(v).clips[k] = [file |-> nm[ver(v).clips[k]], at |-> ver(v).places[k]]
    BY VersionTextFits
  <2>2. \A k \in DOMAIN ver(v).clips : ver(v).clips[k] \in DOMAIN nm  BY NamesAreDistinct
  <2>3. \A k \in DOMAIN ver(v).clips : at(v).clips[k].file = nm[ver(v).clips[k]] /\ at(v).clips[k].at = ver(v).places[k]
    <3> HIDE DEF at, ver, nm
    <3> SUFFICES ASSUME NEW k \in DOMAIN ver(v).clips
                 PROVE  at(v).clips[k].file = nm[ver(v).clips[k]] /\ at(v).clips[k].at = ver(v).places[k]
      OBVIOUS
    <3>1. at(v).clips[k] = [file |-> nm[ver(v).clips[k]], at |-> ver(v).places[k]]  BY <2>1
    <3> QED  BY ONLY <3>1
  <2>4. at(v).clips \in Seq(Ref) /\ \A k \in DOMAIN at(v).clips : at(v).clips[k].file \in DOMAIN p.side
    <3>1. \A id \in DOMAIN nm : nm[id] \in DOMAIN p.side  OBVIOUS
    <3> HIDE DEF at, ver, nm
    <3> QED  BY <2>1, <2>2, <2>3, <3>1
  <2>5. p.text.versions[v].clips = at(v).clips  BY <1>3
  <2>6. S!VersionRefs(p, v) = at(v).clips
    <3> HIDE DEF at, ver, nm
    <3> QED  BY <2>4, <2>5, ReadableKeeps DEF S!VersionRefs
  <2> QED  BY <2>3, <2>6
<1>6. DOMAIN lw.clips = DOMAIN w.clips /\ \A j \in DOMAIN w.clips : lw.clips[j] = nm[w.clips[j]]
  <2>1. lw.clips = S!Objects(S!SongText(w))  BY <1>1, <1>4, LoadedWork
  <2>2. /\ DOMAIN S!SongText(w) = DOMAIN w.clips
        /\ \A j \in DOMAIN w.clips : S!SongText(w)[j] = [file |-> <<"track", j>>, at |-> heap[w.clips[j]].at]
    BY SongTextFits
  <2>3. \A j \in DOMAIN w.clips : nm[w.clips[j]] = <<"track", j>>  BY NamesAreDistinct
  <2> HIDE DEF nm, w, lw
  <2>4. DOMAIN lw.clips = DOMAIN w.clips  BY <2>1, <2>2 DEF S!Objects
  <2>5. ASSUME NEW j \in DOMAIN w.clips  PROVE lw.clips[j] = nm[w.clips[j]]
    <3>1. lw.clips[j] = S!SongText(w)[j].file  BY <2>1, <2>2, <2>5 DEF S!Objects
    <3>2. S!SongText(w)[j] = [file |-> <<"track", j>>, at |-> heap[w.clips[j]].at]  BY <2>2, <2>5
    <3>3. S!SongText(w)[j].file = <<"track", j>>  BY ONLY <3>2
    <3> QED  BY <2>3, <3>1, <3>3
  <2> QED  BY <2>4, <2>5
<1>7. DOMAIN lw.versions = DOMAIN w.versions  BY <1>1, <1>3, LoadedWork
<1>8. ASSUME NEW v \in DOMAIN w.versions
      PROVE  /\ DOMAIN lw.versions[v].clips = DOMAIN ver(v).clips
             /\ \A k \in DOMAIN ver(v).clips : lw.versions[v].clips[k] = nm[ver(v).clips[k]]
             /\ lw.versions[v].places = ver(v).places
             /\ lw.versions[v].id = ver(v).id /\ lw.versions[v].parent = ver(v).parent
             /\ lw.versions[v].notes = ver(v).notes
  <2> DEFINE lv == lw.versions[v]
             refs == at(v).clips
  <2>1. /\ lv.id = at(v).id /\ lv.parent = at(v).parent /\ lv.notes = at(v).notes
        /\ lv.clips = S!Objects(S!VersionRefs(p, v))
        /\ lv.places = [k \in DOMAIN S!VersionRefs(p, v) |-> S!VersionRefs(p, v)[k].at]
    BY <1>1, <1>3, LoadedWork
  <2>2. /\ at(v).id = ver(v).id /\ at(v).parent = ver(v).parent /\ at(v).notes = ver(v).notes
        /\ DOMAIN refs = DOMAIN ver(v).clips /\ refs \in Seq(Ref)
    <3>1. /\ at(v) \in [id : Int, parent : Int, notes : Int, clips : Seq(Ref)]
          /\ at(v).id = ver(v).id /\ at(v).parent = ver(v).parent /\ at(v).notes = ver(v).notes
          /\ DOMAIN at(v).clips = DOMAIN ver(v).clips
      BY VersionTextFits
    <3> HIDE DEF at, ver
    <3> QED  BY <3>1
  <2>3. DOMAIN ver(v).clips = 1..Len(ver(v).clips) /\ Len(ver(v).clips) \in Nat
        /\ Len(ver(v).places) = Len(ver(v).clips) /\ ver(v).places \in Seq(Int)
    <3>1. DOMAIN ver(v).clips = 1..Len(ver(v).clips) /\ Len(ver(v).clips) \in Nat /\ ver(v) \in Version(DOMAIN heap)
      BY PlacesOf
    <3>2. Len(ver(v).places) = Len(ver(v).clips)  BY DEF WorkFits
    <3> HIDE DEF ver
    <3> QED  BY <3>1, <3>2 DEF Version
  <2> HIDE DEF lv, at, ver, nm, lw
  <2>4. lv.clips = S!Objects(refs) /\ lv.places = [k \in DOMAIN refs |-> refs[k].at]
    BY <1>5, <2>1
  <2>5. \A k \in DOMAIN ver(v).clips : refs[k].file = nm[ver(v).clips[k]] /\ refs[k].at = ver(v).places[k]
    BY <1>5
  <2> HIDE DEF refs
  <2>6. DOMAIN lv.clips = DOMAIN ver(v).clips /\ \A k \in DOMAIN ver(v).clips : lv.clips[k] = nm[ver(v).clips[k]]
    BY <2>2, <2>4, <2>5 DEF S!Objects
  <2>7. lv.places = [k \in 1..Len(ver(v).places) |-> ver(v).places[k]]
    BY <2>2, <2>3, <2>4, <2>5
  <2>8. lv.places = ver(v).places  BY <2>3, <2>7
  <2> QED  BY <2>1, <2>2, <2>6, <2>8 DEF lv
<1>9. S!SongPlaces(lw) = S!SongPlaces(w)  BY <1>6 DEF S!SongPlaces
<1>10. S!VersionPlaces(lw) = S!VersionPlaces(w)
  <2>1. ASSUME NEW q \in S!VersionPlaces(w)  PROVE q \in S!VersionPlaces(lw)
    <3>1. PICK v \in DOMAIN w.versions : \E k \in DOMAIN w.versions[v].clips : q = <<v, k>>  BY PlacesOf
    <3>2. PICK k \in DOMAIN w.versions[v].clips : q = <<v, k>>  BY <3>1
    <3>3. v \in DOMAIN lw.versions /\ k \in DOMAIN lw.versions[v].clips  BY <1>7, <1>8
    <3> HIDE DEF lw
    <3> QED  BY <1>2, <3>2, <3>3, PlacesOf
  <2>2. ASSUME NEW q \in S!VersionPlaces(lw)  PROVE q \in S!VersionPlaces(w)
    <3> HIDE DEF lw
    <3>1. PICK v \in DOMAIN lw.versions : \E k \in DOMAIN lw.versions[v].clips : q = <<v, k>>  BY <1>2, PlacesOf
    <3>2. PICK k \in DOMAIN lw.versions[v].clips : q = <<v, k>>  BY <3>1
    <3>3. v \in DOMAIN w.versions /\ k \in DOMAIN w.versions[v].clips  BY <1>7, <1>8
    <3> QED  BY <3>2, <3>3, PlacesOf
  <2> QED  BY <2>1, <2>2
<1> DEFINE places == S!SongPlaces(w) \cup S!VersionPlaces(w)
<1>11. ASSUME NEW q \in places
       PROVE  S!Clip(lw, q) = nm[S!Clip(w, q)] /\ S!Clip(w, q) \in DOMAIN nm /\ S!Clip(lw, q) \in DOMAIN lh
  <2>1. CASE q \in S!SongPlaces(w)
    <3>1. PICK j \in DOMAIN w.clips : q = <<0, j>>  BY <2>1, PlacesOf
    <3>2. S!Clip(w, q) = w.clips[j]  BY <3>1, PlacesOf
    <3>3. S!Clip(lw, q) = lw.clips[j] /\ lw.clips[j] \in DOMAIN lh
      <4> HIDE DEF lw, lh
      <4> QED  BY <1>2, <1>6, <3>1, PlacesOf
    <3>4. w.clips[j] \in DOMAIN nm  BY NamesAreDistinct
    <3> QED  BY <1>6, <3>2, <3>3, <3>4
  <2>2. CASE q \in S!VersionPlaces(w)
    <3>1. PICK v \in DOMAIN w.versions : \E k \in DOMAIN w.versions[v].clips : q = <<v, k>>  BY <2>2, PlacesOf
    <3>2. PICK k \in DOMAIN w.versions[v].clips : q = <<v, k>>  BY <3>1
    <3>3. S!Clip(w, q) = w.versions[v].clips[k]  BY <3>2, PlacesOf
    <3>4. S!Clip(lw, q) = lw.versions[v].clips[k] /\ lw.versions[v].clips[k] \in DOMAIN lh
      <4>1. v \in DOMAIN lw.versions /\ k \in DOMAIN lw.versions[v].clips  BY <1>7, <1>8
      <4> HIDE DEF lw, lh
      <4> QED  BY <1>2, <3>2, <4>1, PlacesOf
    <3>5. w.versions[v].clips[k] \in DOMAIN nm  BY NamesAreDistinct
    <3>6. lw.versions[v].clips[k] = nm[w.versions[v].clips[k]]  BY <1>8
    <3> QED  BY <3>3, <3>4, <3>5, <3>6
  <2> QED  BY <2>1, <2>2
<1>12. DOMAIN lh = S!FilesRead(p) /\ \A f \in DOMAIN lh : lh[f] = [sound |-> p.side[f], at |-> S!Lies(p, f)]
  BY <1>1, LoadedHeap
<1>13. ASSUME NEW q \in places  PROVE lh[S!Clip(lw, q)].sound = heap[S!Clip(w, q)].sound
  <2>1. \A id \in DOMAIN nm : p.side[nm[id]] = heap[id].sound  OBVIOUS
  <2> HIDE DEF lh, lw, nm, places
  <2>2. lh[S!Clip(lw, q)] = [sound |-> p.side[S!Clip(lw, q)], at |-> S!Lies(p, S!Clip(lw, q))]
    BY <1>11, <1>12
  <2>3. lh[S!Clip(lw, q)].sound = p.side[S!Clip(lw, q)]  BY ONLY <2>2
  <2> QED  BY <1>11, <2>1, <2>3
<1>14. ASSUME NEW j \in DOMAIN w.clips  PROVE lh[lw.clips[j]].at = heap[w.clips[j]].at
  <2>1. lw.clips[j] = <<"track", j>>  BY <1>6, NamesAreDistinct
  <2>2. /\ j \in DOMAIN S!SongText(w)
        /\ S!SongText(w)[j] = [file |-> <<"track", j>>, at |-> heap[w.clips[j]].at]
    BY SongTextFits
  <2>3. S!SongText(w)[j].file = <<"track", j>> /\ S!SongText(w)[j].at = heap[w.clips[j]].at  BY ONLY <2>2
  <2>4. <<"track", j>> \in S!FilesRead(p)  BY <1>1, <1>4, <2>2, <2>3, RefsAreRead
  <2>5. S!Lies(p, <<"track", j>>) = heap[w.clips[j]].at  BY <1>1, <1>4, <2>2, <2>3, <2>4, LiesFits
  <2> HIDE DEF lh, lw
  <2>6. lh[lw.clips[j]] = [sound |-> p.side[lw.clips[j]], at |-> S!Lies(p, lw.clips[j])]
    BY <1>12, <2>1, <2>4
  <2> QED  BY <2>1, <2>5, <2>6
<1>15. ASSUME NEW q \in places, NEW r \in places
       PROVE  S!Clip(lw, q) = S!Clip(lw, r) <=> S!Clip(w, q) = S!Clip(w, r)
  <2>1. \A id, o \in DOMAIN nm : nm[id] = nm[o] => id = o  BY NamesAreDistinct
  <2> HIDE DEF nm, lw, places
  <2> QED  BY <1>11, <2>1
<1> DEFINE Sounding(ww, hh) == [q \in places |-> hh[S!Clip(ww, q)].sound]
           Lying(ww, hh) == [j \in DOMAIN ww.clips |-> hh[ww.clips[j]].at]
           Shared(ww) == {q \in places \X places : S!Clip(ww, q[1]) = S!Clip(ww, q[2])}
           Vers(ww) == [v \in DOMAIN ww.versions |->
                          [id |-> ww.versions[v].id, parent |-> ww.versions[v].parent, notes |-> ww.versions[v].notes,
                           places |-> ww.versions[v].places]]
<1>16. S!Shape(w, heap) = [notes |-> w.notes, current |-> w.current, sounds |-> Sounding(w, heap),
                           places |-> Lying(w, heap), shared |-> Shared(w), versions |-> Vers(w)]
  BY Zenon DEF S!Shape
<1>17. S!Shape(lw, lh) = [notes |-> lw.notes, current |-> lw.current, sounds |-> Sounding(lw, lh),
                          places |-> Lying(lw, lh), shared |-> Shared(lw), versions |-> Vers(lw)]
  <2> HIDE DEF lw, lh
  <2> QED  BY <1>9, <1>10, Zenon DEF S!Shape
<1>18. lw.notes = w.notes /\ lw.current = w.current  BY <1>1, <1>3, LoadedWork
<1> HIDE DEF w, nm, lw, lh, ver, at, places
<1>19. Sounding(lw, lh) = Sounding(w, heap)  BY <1>13
<1>20. Lying(lw, lh) = Lying(w, heap)  BY <1>6, <1>14
<1>21. Shared(lw) = Shared(w)  BY <1>15
<1>22. Vers(lw) = Vers(w)
  <2>1. \A v \in DOMAIN w.versions :
           [id |-> lw.versions[v].id, parent |-> lw.versions[v].parent, notes |-> lw.versions[v].notes,
            places |-> lw.versions[v].places]
           = [id |-> w.versions[v].id, parent |-> w.versions[v].parent, notes |-> w.versions[v].notes,
              places |-> w.versions[v].places]
    BY <1>8 DEF ver
  <2> QED  BY <1>7, <2>1
<1> HIDE DEF Sounding, Lying, Shared, Vers
<1> QED  BY <1>16, <1>17, <1>18, <1>19, <1>20, <1>21, <1>22 DEF w, lw, lh

-----------------------------------------------------------------------------
(* Session: editing keeps the work fit.                                      *)

LEMMA NotOff ==
    ASSUME NEW w, NEW h, WorkFits(w, h)
    PROVE  w # S!Off
<1>1. DOMAIN w = {"notes", "clips", "versions", "current", "nextId"}  BY DEF WorkFits, Work
<1>2. DOMAIN S!Off = {"notes"}  BY DEF S!Off
<1> QED  BY <1>1, <1>2

LEMMA WorkGrows ==
    ASSUME NEW X, NEW Y, X \subseteq Y, NEW w \in Work(X)
    PROVE  w \in Work(Y)
<1>1. Seq(X) \subseteq Seq(Y)  OBVIOUS
<1>2. Version(X) \subseteq Version(Y)  BY <1>1 DEF Version
<1>3. Seq(Version(X)) \subseteq Seq(Version(Y))
  <2> DEFINE VX == Version(X)
             VY == Version(Y)
  <2>1. VX \subseteq VY  BY <1>2
  <2> HIDE DEF VX, VY
  <2>2. Seq(VX) \subseteq Seq(VY)  BY <2>1
  <2> QED  BY <2>2 DEF VX, VY
<1>4. Work(X) \subseteq Work(Y)
  <2> DEFINE SX == Seq(X)
             SY == Seq(Y)
             VX == Seq(Version(X))
             VY == Seq(Version(Y))
  <2>1. SX \subseteq SY /\ VX \subseteq VY  BY <1>1, <1>3
  <2>2. Work(X) = [notes : Int, clips : SX, versions : VX, current : Int, nextId : Int]
        /\ Work(Y) = [notes : Int, clips : SY, versions : VY, current : Int, nextId : Int]
    BY DEF Work
  <2> HIDE DEF SX, SY, VX, VY
  <2> QED  BY <2>1, <2>2
<1> QED  BY <1>4

\* What an edit needs of the work it makes.
News(h, n) == \A id \in DOMAIN h : id[1] = "new" => id[2] < n

LEMMA FilesRest ==
    ASSUME DiskFits, WholeIsWhole, UNCHANGED <<disk, whole>>
    PROVE  DiskFits' /\ WholeIsWhole'
BY Zenon DEF DiskFits, WholeIsWhole

LEMMA EditedFits ==
    ASSUME SessionInv, NEW w, NEW h, S!Edited(w, h), WorkFits(w, h), News(h, edits + 1)
    PROVE  SessionInv'
<1>1. /\ edits' = edits + 1 /\ work' = w /\ heap' = h /\ read' = S!NoPath
      /\ UNCHANGED <<projectPath, disk, saving, whole>> /\ saving = S!NoSave /\ S!Running
  BY DEF S!Edited, S!Idle
<1>2. edits' \in Nat /\ projectPath' \in {SongFile, S!NoPath}  BY <1>1 DEF SessionInv
<1>3. WorkFits(work', heap') /\ News(heap', edits')  BY <1>1
<1>4. DiskFits' /\ WholeIsWhole'
  <2>1. UNCHANGED <<disk, whole>>  BY <1>1
  <2>2. DiskFits /\ WholeIsWhole  BY DEF SessionInv
  <2> QED  BY <2>1, <2>2, FilesRest
<1>5. SaveGoesOn'  BY <1>1 DEF SaveGoesOn
<1> QED  BY <1>1, <1>2, <1>3, <1>4, <1>5 DEF SessionInv, News

LEMMA EditsFit ==
    ASSUME SessionInv, S!Idle
    PROVE  /\ WorkFits(work, heap) /\ News(heap, edits) /\ edits \in Nat /\ News(heap, edits + 1)
           /\ DOMAIN heap \subseteq ObjectId
<1>1. WorkFits(work, heap) /\ News(heap, edits) /\ edits \in Nat  BY DEF SessionInv, S!Idle, News
<1>2. DOMAIN heap \subseteq ObjectId  BY <1>1 DEF WorkFits, HeapFits
<1>3. \A id \in DOMAIN heap : id[2] \in Nat  BY <1>2 DEF ObjectId
<1>4. News(heap, edits + 1)  BY <1>1, <1>3 DEF News
<1> QED  BY <1>1, <1>2, <1>4

\* A work of the same objects, the same versions, and other notes and clips.
LEMMA SameVersions ==
    ASSUME NEW w, NEW h, WorkFits(w, h), NEW n \in Int, NEW c \in Seq(DOMAIN h), Distinct(c)
    PROVE  WorkFits([w EXCEPT !.notes = n, !.clips = c], h)
<1> DEFINE x == [w EXCEPT !.notes = n, !.clips = c]
<1>1. w \in Work(DOMAIN h)  BY DEF WorkFits
<1>2. /\ x.notes = n /\ x.clips = c /\ x.versions = w.versions /\ x.current = w.current /\ x.nextId = w.nextId
      /\ x \in Work(DOMAIN h)
  BY <1>1 DEF Work
<1> HIDE DEF x
<1>3. WorkFits(x, h)  BY <1>2 DEF WorkFits
<1> QED  BY <1>3 DEF x

LEMMA EditNotesKept ==
    ASSUME SessionInv, S!Idle, S!EditNotes
    PROVE  SessionInv'
<1> DEFINE w == [work EXCEPT !.notes = 1 - @]
<1>1. WorkFits(work, heap) /\ work \in Work(DOMAIN heap)  BY EditsFit DEF WorkFits
<1>2. 1 - work.notes \in Int /\ work.clips \in Seq(DOMAIN heap) /\ Distinct(work.clips)  BY <1>1 DEF WorkFits, Work
<1>3. w = [work EXCEPT !.notes = 1 - work.notes, !.clips = work.clips]  BY <1>1 DEF Work
<1>4. WorkFits(w, heap)  BY <1>1, <1>2, <1>3, SameVersions
<1>5. S!Edited(w, heap)  BY DEF S!EditNotes
<1> HIDE DEF w
<1> QED  BY <1>4, <1>5, EditsFit, EditedFits

LEMMA NewSongKept ==
    ASSUME SessionInv, S!Idle, S!NewSong
    PROVE  SessionInv'
<1> DEFINE w == [work EXCEPT !.notes = 0, !.clips = <<>>]
<1>1. WorkFits(work, heap)  BY EditsFit
<1>2. <<>> \in Seq(DOMAIN heap) /\ Distinct(<<>>) /\ 0 \in Int  BY DEF Distinct
<1>3. WorkFits(w, heap)  BY <1>1, <1>2, SameVersions
<1>4. S!Edited(w, heap)  BY DEF S!NewSong
<1> HIDE DEF w
<1> QED  BY <1>3, <1>4, EditsFit, EditedFits

\* A list from which one clip has been taken.
LEMMA RemovedFits ==
    ASSUME NEW X, NEW c \in Seq(X), Distinct(c), NEW j \in DOMAIN c
    PROVE  S!RemoveAt(c, j) \in Seq(X) /\ Distinct(S!RemoveAt(c, j))
<1> DEFINE a == SubSeq(c, 1, j - 1)
           b == SubSeq(c, j + 1, Len(c))
           r == a \o b
<1>1. Len(c) \in Nat /\ DOMAIN c = 1..Len(c) /\ j \in 1..Len(c)  OBVIOUS
<1>2. a \in Seq(X) /\ Len(a) = j - 1 /\ \A i \in 1..(j - 1) : a[i] = c[i]  BY <1>1
<1>3. b \in Seq(X) /\ Len(b) = Len(c) - j /\ \A i \in 1..(Len(c) - j) : b[i] = c[i + j]  BY <1>1
<1>4. r \in Seq(X) /\ Len(r) = Len(c) - 1
      /\ \A i \in 1..(Len(c) - 1) : r[i] = IF i < j THEN c[i] ELSE c[i + 1]
  <2>1. r \in Seq(X) /\ Len(r) = Len(c) - 1 /\ \A i \in 1..Len(r) : r[i] = IF i =< Len(a) THEN a[i] ELSE b[i - Len(a)]
    <3>1. a \in Seq(X) /\ b \in Seq(X)  BY <1>2, <1>3
    <3> HIDE DEF a, b
    <3>2. r \in Seq(X) /\ Len(r) = Len(a) + Len(b)
          /\ \A i \in 1..Len(r) : r[i] = IF i =< Len(a) THEN a[i] ELSE b[i - Len(a)]
      BY ONLY <3>1
    <3> QED  BY <1>1, <1>2, <1>3, <3>2
  <2> HIDE DEF a, b, r
  <2>2. ASSUME NEW i \in 1..(Len(c) - 1)  PROVE r[i] = IF i < j THEN c[i] ELSE c[i + 1]
    <3>1. CASE i < j
      <4>1. i \in 1..(j - 1) /\ i =< Len(a) /\ i \in 1..Len(r)  BY <1>1, <1>2, <2>1, <3>1
      <4> QED  BY <1>2, <2>1, <3>1, <4>1
    <3>2. CASE ~(i < j)
      <4>1. i - (j - 1) \in 1..(Len(c) - j) /\ ~(i =< Len(a)) /\ i \in 1..Len(r) /\ i - (j - 1) + j = i + 1
        BY <1>1, <1>2, <2>1, <3>2
      <4>2. r[i] = b[i - (j - 1)]  BY <1>2, <2>1, <4>1
      <4>3. b[i - (j - 1)] = c[i - (j - 1) + j]  BY <1>3, <4>1
      <4> QED  BY <3>2, <4>1, <4>2, <4>3
    <3> QED  BY <3>1, <3>2
  <2> QED  BY <2>1, <2>2
<1>5. S!RemoveAt(c, j) = r  BY DEF S!RemoveAt
<1> HIDE DEF r
<1>6. Distinct(r)
  <2> SUFFICES ASSUME NEW i \in 1..(Len(c) - 1), NEW k \in 1..(Len(c) - 1), r[i] = r[k]  PROVE i = k
    <3>1. DOMAIN r = 1..(Len(c) - 1)  BY <1>4
    <3> QED  BY <3>1 DEF Distinct
  <2> DEFINE up(m) == IF m < j THEN m ELSE m + 1
  <2>1. up(i) \in 1..Len(c) /\ up(k) \in 1..Len(c)  BY <1>1
  <2>2. r[i] = c[up(i)] /\ r[k] = c[up(k)]  BY <1>4
  <2>3. up(i) = up(k)
    <3> HIDE DEF up
    <3> QED  BY <1>1, <2>1, <2>2 DEF Distinct
  <2> QED  BY <1>1, <2>3
<1> QED  BY <1>4, <1>5, <1>6

LEMMA DeleteClipKept ==
    ASSUME SessionInv, S!Idle, NEW j \in DOMAIN work.clips, S!DeleteClip(j)
    PROVE  SessionInv'
<1> DEFINE w == [work EXCEPT !.clips = S!RemoveAt(@, j)]
           c == S!RemoveAt(work.clips, j)
<1>1. WorkFits(work, heap) /\ work \in Work(DOMAIN heap)  BY EditsFit DEF WorkFits
<1>2. work.notes \in Int /\ work.clips \in Seq(DOMAIN heap) /\ Distinct(work.clips)  BY <1>1 DEF WorkFits, Work
<1>3. c \in Seq(DOMAIN heap) /\ Distinct(c)  BY <1>2, RemovedFits
<1>4. w = [work EXCEPT !.notes = work.notes, !.clips = c]
  <2> HIDE DEF c
  <2>1. w = [work EXCEPT !.clips = c]  BY DEF c
  <2> QED  BY <1>1, <2>1 DEF Work
<1> HIDE DEF c, w
<1>5. WorkFits(w, heap)  BY <1>1, <1>2, <1>3, <1>4, SameVersions
<1>6. S!Edited(w, heap)  BY DEF S!DeleteClip, w
<1> QED  BY <1>5, <1>6, EditsFit, EditedFits

LEMMA OnLargerHeap ==
    ASSUME NEW w, NEW h, WorkFits(w, h), NEW hh, HeapFits(hh), DOMAIN h \subseteq DOMAIN hh
    PROVE  WorkFits(w, hh)
<1>1. w \in Work(DOMAIN hh)  BY WorkGrows DEF WorkFits
<1> QED  BY <1>1 DEF WorkFits

LEMMA NewClipIsNew ==
    ASSUME News(heap, edits), edits \in Nat, DOMAIN heap \subseteq ObjectId, HeapFits(heap),
           NEW clip \in [sound : Sounds, at : Int]
    PROVE  /\ S!NewClip \notin DOMAIN heap
           /\ HeapFits(S!With(clip)) /\ DOMAIN S!With(clip) = DOMAIN heap \cup {S!NewClip}
           /\ News(heap, edits + 1) => News(S!With(clip), edits + 1)
<1> DEFINE new == S!NewClip
           h == S!With(clip)
<1>1. new \in ObjectId /\ new[1] = "new" /\ new[2] = edits  BY DEF S!NewClip, ObjectId
<1>2. new \notin DOMAIN heap  BY <1>1 DEF News
<1>3. h = [id \in DOMAIN heap \cup {new} |-> IF id = new THEN clip ELSE heap[id]]  BY DEF S!With
<1> HIDE DEF new, h
<1>4. DOMAIN h = DOMAIN heap \cup {new}  BY <1>3
<1>5. \A id \in DOMAIN h : h[id] \in [sound : Sounds, at : Int]  BY <1>3 DEF HeapFits
<1>6. h \in [DOMAIN h -> [sound : Sounds, at : Int]]  BY <1>3, <1>4, <1>5
<1>7. HeapFits(h)  BY <1>1, <1>4, <1>6 DEF HeapFits
<1>8. News(heap, edits + 1) => News(h, edits + 1)  BY <1>1, <1>4 DEF News
<1> QED  BY <1>2, <1>4, <1>7, <1>8 DEF new, h

LEMMA AddClipKept ==
    ASSUME SessionInv, S!Idle, NEW sound \in Sounds, S!AddClip(sound)
    PROVE  SessionInv'
<1> DEFINE clip == [sound |-> sound, at |-> 0]
           h == S!With(clip)
           c == Append(work.clips, S!NewClip)
           w == [work EXCEPT !.clips = Append(@, S!NewClip)]
<1>1. /\ WorkFits(work, heap) /\ HeapFits(heap) /\ work \in Work(DOMAIN heap) /\ News(heap, edits) /\ edits \in Nat
      /\ News(heap, edits + 1) /\ DOMAIN heap \subseteq ObjectId
  BY EditsFit DEF WorkFits
<1>2. clip \in [sound : Sounds, at : Int]  OBVIOUS
<1>3. S!Edited(w, h)  BY DEF S!AddClip
<1> HIDE DEF clip
<1>4. /\ S!NewClip \notin DOMAIN heap /\ HeapFits(h) /\ DOMAIN h = DOMAIN heap \cup {S!NewClip}
      /\ News(h, edits + 1)
  BY <1>1, <1>2, NewClipIsNew
<1> HIDE DEF h
<1>5. WorkFits(work, h)  BY <1>1, <1>4, OnLargerHeap
<1>6. /\ work.notes \in Int /\ work.clips \in Seq(DOMAIN heap) /\ Distinct(work.clips)
      /\ Len(work.clips) \in Nat /\ DOMAIN work.clips = 1..Len(work.clips)
  <2>1. work.notes \in Int /\ work.clips \in Seq(DOMAIN heap) /\ Distinct(work.clips)  BY <1>1 DEF WorkFits, Work
  <2> QED  BY <2>1
<1>7. /\ c \in Seq(DOMAIN h) /\ DOMAIN c = 1..(Len(work.clips) + 1)
      /\ \A i \in 1..Len(work.clips) : c[i] = work.clips[i] /\ c[i] \in DOMAIN heap
      /\ c[Len(work.clips) + 1] = S!NewClip
  BY <1>4, <1>6
<1> HIDE DEF c
<1>8. Distinct(c)
  <2> SUFFICES ASSUME NEW i \in 1..(Len(work.clips) + 1), NEW j \in 1..(Len(work.clips) + 1), c[i] = c[j]
               PROVE  i = j
    BY <1>7 DEF Distinct
  <2>1. CASE i \in 1..Len(work.clips) /\ j \in 1..Len(work.clips)  BY <1>6, <1>7, <2>1 DEF Distinct
  <2>2. CASE i = Len(work.clips) + 1 \/ j = Len(work.clips) + 1
    <3>1. \A m \in 1..(Len(work.clips) + 1) : c[m] = S!NewClip => m = Len(work.clips) + 1
      BY <1>4, <1>6, <1>7
    <3> QED  BY <1>7, <2>2, <3>1
  <2> QED  BY <1>6, <2>1, <2>2
<1>9. w = [work EXCEPT !.notes = work.notes, !.clips = c]
  <2>1. w = [work EXCEPT !.clips = c]  BY DEF c
  <2> QED  BY <1>1, <2>1 DEF Work
<1>10. WorkFits(w, h)
  <2> HIDE DEF w
  <2> QED  BY <1>5, <1>6, <1>7, <1>8, <1>9, SameVersions
<1> HIDE DEF w
<1> QED  BY <1>3, <1>4, <1>10, EditedFits

LEMMA MoveClipKept ==
    ASSUME SessionInv, S!Idle, NEW j \in DOMAIN work.clips, S!MoveClip(j)
    PROVE  SessionInv'
<1> DEFINE id == work.clips[j]
           h == [heap EXCEPT ![id].at = 1 - @]
<1>1. WorkFits(work, heap) /\ HeapFits(heap) /\ News(heap, edits + 1)  BY EditsFit DEF WorkFits
<1>2. id \in DOMAIN heap  BY <1>1, PlacesOf
<1>3. S!Edited(work, h)  BY DEF S!MoveClip
<1> HIDE DEF id
<1>4. DOMAIN h = DOMAIN heap  OBVIOUS
<1>5. \A o \in DOMAIN h : h[o] \in [sound : Sounds, at : Int]
  <2>1. \A o \in DOMAIN heap : heap[o] \in [sound : Sounds, at : Int]  BY <1>1 DEF HeapFits
  <2> QED  BY <1>2, <2>1
<1>6. h = [o \in DOMAIN h |-> h[o]]  OBVIOUS
<1> HIDE DEF h
<1>7. HeapFits(h)  BY <1>1, <1>4, <1>5, <1>6 DEF HeapFits
<1>8. WorkFits(work, h)  BY <1>1, <1>4, <1>7, OnLargerHeap
<1>9. News(h, edits + 1)  BY <1>1, <1>4 DEF News
<1> QED  BY <1>3, <1>8, <1>9, EditedFits

LEMMA ReverseClipKept ==
    ASSUME SessionInv, S!Idle, NEW j \in DOMAIN work.clips, S!ReverseClip(j)
    PROVE  SessionInv'
<1>1. PICK sound \in Sounds :
         S!Edited([work EXCEPT !.clips[j] = S!NewClip], S!With([heap[work.clips[j]] EXCEPT !.sound = sound]))
  BY DEF S!ReverseClip
<1> DEFINE clip == [heap[work.clips[j]] EXCEPT !.sound = sound]
           h == S!With(clip)
           c == [work.clips EXCEPT ![j] = S!NewClip]
           w == [work EXCEPT !.clips[j] = S!NewClip]
<1>2. /\ WorkFits(work, heap) /\ HeapFits(heap) /\ work \in Work(DOMAIN heap) /\ News(heap, edits) /\ edits \in Nat
      /\ News(heap, edits + 1) /\ DOMAIN heap \subseteq ObjectId
  BY EditsFit DEF WorkFits
<1>3. clip \in [sound : Sounds, at : Int]
  <2>1. heap[work.clips[j]] \in [sound : Sounds, at : Int]  BY <1>2, PlacesOf DEF HeapFits
  <2> QED  BY <2>1
<1> HIDE DEF clip
<1>4. /\ S!NewClip \notin DOMAIN heap /\ HeapFits(h) /\ DOMAIN h = DOMAIN heap \cup {S!NewClip}
      /\ News(h, edits + 1)
  BY <1>2, <1>3, NewClipIsNew
<1>5. S!Edited(w, h)  BY <1>1 DEF clip
<1> HIDE DEF h
<1>6. WorkFits(work, h)  BY <1>2, <1>4, OnLargerHeap
<1>7. /\ work.notes \in Int /\ work.clips \in Seq(DOMAIN heap) /\ Distinct(work.clips)
      /\ DOMAIN work.clips = 1..Len(work.clips) /\ Len(work.clips) \in Nat
      /\ \A i \in DOMAIN work.clips : work.clips[i] \in DOMAIN heap
  <2>1. work.notes \in Int /\ work.clips \in Seq(DOMAIN heap) /\ Distinct(work.clips)  BY <1>2 DEF WorkFits, Work
  <2> QED  BY <2>1
<1>8. /\ DOMAIN c = 1..Len(work.clips) /\ \A i \in 1..Len(work.clips) : c[i] = IF i = j THEN S!NewClip ELSE work.clips[i]
      /\ c = [i \in 1..Len(work.clips) |-> IF i = j THEN S!NewClip ELSE work.clips[i]]
  BY <1>7
<1>9. w = [work EXCEPT !.notes = work.notes, !.clips = c]
  <2>1. w = [work EXCEPT !.clips = c]  OBVIOUS
  <2> HIDE DEF c
  <2> QED  BY <1>2, <2>1 DEF Work
<1> HIDE DEF c
<1>10. c \in Seq(DOMAIN h)
  <2>1. \A i \in 1..Len(work.clips) : (IF i = j THEN S!NewClip ELSE work.clips[i]) \in DOMAIN h
    BY <1>4, <1>7
  <2> QED  BY <1>7, <1>8, <2>1
<1>11. Distinct(c)
  BY <1>4, <1>7, <1>8 DEF Distinct
<1>12. WorkFits(w, h)
  <2> HIDE DEF w
  <2> QED  BY <1>6, <1>7, <1>9, <1>10, <1>11, SameVersions
<1> HIDE DEF w
<1> QED  BY <1>4, <1>5, <1>12, EditedFits

LEMMA CheckoutKept ==
    ASSUME SessionInv, S!Idle, NEW v \in DOMAIN work.versions, S!Checkout(v)
    PROVE  SessionInv'
<1> DEFINE n == work.versions[v]
           lies(id) == \E k \in DOMAIN n.clips : n.clips[k] = id
           place(id) == n.places[CHOOSE k \in DOMAIN n.clips : n.clips[k] = id]
           h == [id \in DOMAIN heap |-> IF lies(id) THEN [heap[id] EXCEPT !.at = place(id)] ELSE heap[id]]
           w == [work EXCEPT !.notes = n.notes, !.clips = n.clips, !.current = n.id]
           x == [work EXCEPT !.notes = n.notes, !.clips = n.clips]
<1>1. S!Edited(w, h)  BY Zenon DEF S!Checkout
<1>2. WorkFits(work, heap) /\ HeapFits(heap) /\ work \in Work(DOMAIN heap) /\ News(heap, edits + 1)
  BY EditsFit DEF WorkFits
<1>3. /\ n \in Version(DOMAIN heap) /\ Distinct(n.clips) /\ Len(n.places) = Len(n.clips)
      /\ DOMAIN n.clips = 1..Len(n.clips) /\ Len(n.clips) \in Nat
  <2>1. n \in Version(DOMAIN heap) /\ DOMAIN n.clips = 1..Len(n.clips) /\ Len(n.clips) \in Nat  BY <1>2, PlacesOf
  <2>2. Distinct(n.clips) /\ Len(n.places) = Len(n.clips)  BY <1>2 DEF WorkFits
  <2> QED  BY <2>1, <2>2
<1>4. work.versions # <<>>  OBVIOUS
<1>5. n.notes \in Int /\ n.id \in Int /\ n.clips \in Seq(DOMAIN heap) /\ n.places \in Seq(Int)
  <2> HIDE DEF n
  <2> QED  BY <1>3 DEF Version
<1> HIDE DEF n
<1>6. ASSUME NEW id, lies(id)  PROVE place(id) \in Int
  <2> DEFINE k == CHOOSE k \in DOMAIN n.clips : n.clips[k] = id
  <2>1. k \in DOMAIN n.clips  BY <1>6
  <2> HIDE DEF k
  <2>2. n.places[k] \in Int  BY <1>3, <1>5, <2>1
  <2> QED  BY <2>2 DEF k
<1> HIDE DEF lies, place
<1>7. DOMAIN h = DOMAIN heap /\ \A id \in DOMAIN h : h[id] \in [sound : Sounds, at : Int]
  <2>1. \A id \in DOMAIN heap : heap[id] \in [sound : Sounds, at : Int]  BY <1>2 DEF HeapFits
  <2> QED  BY <1>6, <2>1
<1>8. h = [id \in DOMAIN h |-> h[id]]  OBVIOUS
<1> HIDE DEF h
<1>9. HeapFits(h)  BY <1>2, <1>7, <1>8 DEF HeapFits
<1>10. WorkFits(work, h)  BY <1>2, <1>7, <1>9, OnLargerHeap
<1>11. WorkFits(x, h)  BY <1>3, <1>5, <1>7, <1>10, SameVersions
<1>12. w = [x EXCEPT !.current = n.id] /\ x.versions = work.versions /\ x \in Work(DOMAIN h)
  BY <1>2, <1>11 DEF Work, WorkFits
<1> HIDE DEF x, w
<1>13. /\ w \in Work(DOMAIN h) /\ w.clips = x.clips /\ w.versions = x.versions /\ w.nextId = x.nextId
  BY <1>5, <1>12 DEF Work
<1>14. WorkFits(w, h)  BY <1>4, <1>11, <1>12, <1>13 DEF WorkFits
<1>15. News(h, edits + 1)  BY <1>2, <1>7 DEF News
<1> QED  BY <1>1, <1>14, <1>15, EditedFits

LEMMA CheckinKept ==
    ASSUME SessionInv, S!Idle, S!Checkin
    PROVE  SessionInv'
<1> DEFINE at == [j \in DOMAIN work.clips |-> heap[work.clips[j]].at]
           n == [id |-> work.nextId, parent |-> work.current, notes |-> work.notes, clips |-> work.clips, places |-> at]
           w == [work EXCEPT !.current = work.nextId, !.nextId = @ + 1, !.versions = Append(@, n)]
           vs == Append(work.versions, n)
<1>1. S!Edited(w, heap)  BY DEF S!Checkin
<1>2. WorkFits(work, heap) /\ HeapFits(heap) /\ work \in Work(DOMAIN heap) /\ News(heap, edits + 1)
  BY EditsFit DEF WorkFits
<1>3. /\ work.notes \in Int /\ work.clips \in Seq(DOMAIN heap) /\ work.current \in Int /\ work.nextId \in Int
      /\ work.versions \in Seq(Version(DOMAIN heap)) /\ Distinct(work.clips)
  BY <1>2 DEF WorkFits, Work
<1>4. Len(work.clips) \in Nat /\ DOMAIN work.clips = 1..Len(work.clips)  BY <1>3
<1>5. at \in Seq(Int) /\ Len(at) = Len(work.clips)
  <2>1. \A j \in 1..Len(work.clips) : heap[work.clips[j]].at \in Int
    <3>1. \A j \in DOMAIN work.clips : heap[work.clips[j]] \in [sound : Sounds, at : Int]
      BY <1>2, PlacesOf DEF HeapFits
    <3> QED  BY <1>4, <3>1
  <2>2. at = [j \in 1..Len(work.clips) |-> heap[work.clips[j]].at]  BY <1>4
  <2> QED  BY <1>4, <2>1, <2>2
<1> HIDE DEF at
<1>6. /\ n \in Version(DOMAIN heap) /\ Distinct(n.clips) /\ Len(n.places) = Len(n.clips)
      /\ n.id = work.nextId
  BY <1>3, <1>5 DEF Version
<1> HIDE DEF n
<1>7. /\ vs \in Seq(Version(DOMAIN heap)) /\ vs # <<>>
      /\ \A v \in DOMAIN vs : vs[v] = n \/ (v \in DOMAIN work.versions /\ vs[v] = work.versions[v])
  <2> DEFINE V == Version(DOMAIN heap)
  <2>1. work.versions \in Seq(V) /\ n \in V  BY <1>3, <1>6
  <2> HIDE DEF V
  <2>2. /\ vs \in Seq(V) /\ Len(vs) = Len(work.versions) + 1 /\ Len(work.versions) \in Nat
        /\ DOMAIN vs = 1..(Len(work.versions) + 1) /\ DOMAIN work.versions = 1..Len(work.versions)
        /\ \A v \in 1..Len(work.versions) : vs[v] = work.versions[v]
        /\ vs[Len(work.versions) + 1] = n
    BY <2>1
  <2> HIDE DEF vs
  <2>3. vs # <<>>  BY <2>2
  <2>4. \A v \in 1..(Len(work.versions) + 1) : v \in 1..Len(work.versions) \/ v = Len(work.versions) + 1  BY <2>2
  <2> QED  BY <2>2, <2>3, <2>4 DEF V
<1>8. w = [work EXCEPT !.current = work.nextId, !.nextId = work.nextId + 1, !.versions = vs]  BY <1>2 DEF Work
<1> HIDE DEF vs, w
<1>9. /\ w \in Work(DOMAIN heap) /\ w.clips = work.clips /\ w.versions = vs /\ w.nextId = work.nextId + 1
  <2> DEFINE SX == Seq(DOMAIN heap)
             SV == Seq(Version(DOMAIN heap))
             W  == [notes : Int, clips : SX, versions : SV, current : Int, nextId : Int]
  <2>1. work \in W /\ vs \in SV /\ Work(DOMAIN heap) = W  BY <1>2, <1>7 DEF Work
  <2> HIDE DEF SX, SV
  <2>2. work = [notes |-> work.notes, clips |-> work.clips, versions |-> work.versions,
                current |-> work.current, nextId |-> work.nextId]
    <3>1. work \in W  BY <2>1
    <3> QED  BY ONLY <3>1
  <2>3. w = [notes |-> work.notes, clips |-> work.clips, versions |-> vs,
             current |-> work.nextId, nextId |-> work.nextId + 1]
    BY ONLY <1>8, <2>2
  <2>4. work.clips \in SX /\ vs \in SV  BY <1>3, <2>1 DEF SX
  <2>5. w \in W  BY <1>3, <2>3, <2>4
  <2>6. w.clips = work.clips /\ w.versions = vs /\ w.nextId = work.nextId + 1  BY ONLY <2>3
  <2> QED  BY <2>1, <2>5, <2>6
<1>10. ASSUME NEW v \in DOMAIN vs
       PROVE  Distinct(vs[v].clips) /\ Len(vs[v].places) = Len(vs[v].clips) /\ vs[v].id < work.nextId + 1
  <2>1. CASE vs[v] = n  BY <1>3, <1>6, <2>1
  <2>2. CASE v \in DOMAIN work.versions /\ vs[v] = work.versions[v]
    <3>1. /\ Distinct(work.versions[v].clips) /\ Len(work.versions[v].places) = Len(work.versions[v].clips)
          /\ work.versions[v].id < work.nextId
      BY <1>2, <2>2 DEF WorkFits
    <3>2. work.versions[v] \in Version(DOMAIN heap)  BY <1>3, <2>2
    <3>3. work.versions[v].id \in Int  BY <3>2 DEF Version
    <3> QED  BY <1>3, <2>2, <3>1, <3>3
  <2> QED  BY <1>7, <2>1, <2>2
<1>11. WorkFits(w, heap)  BY <1>2, <1>3, <1>7, <1>9, <1>10 DEF WorkFits
<1> QED  BY <1>1, <1>2, <1>11, EditedFits

-----------------------------------------------------------------------------
(* Session: saving and opening.                                              *)

\* One of the files is changed.
Side(s) == s \in [DOMAIN s -> Sounds]

LEMMA OneFile ==
    ASSUME DiskFits, WholeIsWhole, NEW p \in S!Files, NEW x, NEW s, x = S!NoText \/ TextFits(x), Side(s),
           disk' = [disk EXCEPT ![p] = [text |-> x, side |-> s]], whole' = whole, whole[p] = S!NotWhole
    PROVE  /\ DiskFits' /\ WholeIsWhole'
           /\ disk'[p].text = x /\ disk'[p].side = s
<1>1. /\ disk = [q \in S!Files |-> [text |-> disk[q].text, side |-> disk[q].side]]
      /\ \A q \in S!Files : (disk[q].text = S!NoText \/ TextFits(disk[q].text)) /\ Side(disk[q].side)
  BY DEF DiskFits, Side
<1>2. /\ disk'[p] = [text |-> x, side |-> s] /\ \A q \in S!Files : q # p => disk'[q] = disk[q]
      /\ disk' = [q \in S!Files |-> disk'[q]]
  BY <1>1
<1>3. disk'[p].text = x /\ disk'[p].side = s  BY ONLY <1>2
<1>4. \A q \in S!Files : disk'[q] = [text |-> disk'[q].text, side |-> disk'[q].side]
  <2>1. disk'[p] = [text |-> disk'[p].text, side |-> disk'[p].side]  BY ONLY <1>2
  <2>2. ASSUME NEW q \in S!Files, q # p  PROVE disk'[q] = [text |-> disk'[q].text, side |-> disk'[q].side]
    <3>1. disk[q] = [text |-> disk[q].text, side |-> disk[q].side]  BY <1>1
    <3> QED  BY <1>2, <2>2, <3>1
  <2> QED  BY <2>1, <2>2
<1>5. disk' = [q \in S!Files |-> [text |-> disk'[q].text, side |-> disk'[q].side]]
  BY <1>2, <1>4
<1>6. \A q \in S!Files : (disk'[q].text = S!NoText \/ TextFits(disk'[q].text)) /\ Side(disk'[q].side)
  BY <1>1, <1>2, <1>3
<1>7. DiskFits'  BY <1>5, <1>6 DEF DiskFits, Side
<1>8. WholeIsWhole'  BY <1>2 DEF WholeIsWhole
<1> QED  BY <1>3, <1>7, <1>8

LEMMA PathsDiffer ==
    SongFile # "autosave" /\ SongFile # "none" /\ S!Files = {SongFile, "autosave"} /\ "none" \notin S!Files
<1>1. S!SessionAssumption  BY InstancesAreFit
<1> QED  BY <1>1 DEF S!SessionAssumption, S!Files, S!Autosave, S!NoPath

LEMMA BeginKept ==
    ASSUME SessionInv, S!Idle, NEW p \in S!Files, S!Begin(p)
    PROVE  SessionInv'
<1>1. /\ disk' = [disk EXCEPT ![p].text = S!NoText]
      /\ saving' = [path |-> p, text |-> TRUE, left |-> DOMAIN S!Names(work), names |-> S!Names(work)]
      /\ whole' = [whole EXCEPT ![p] = S!NotWhole] /\ read' = S!NoPath
      /\ work' = work /\ heap' = heap /\ projectPath' = projectPath /\ edits' = edits
  BY DEF S!Begin
<1>2. DiskFits /\ WholeIsWhole /\ S!Running  BY DEF SessionInv, S!Idle
<1>3. /\ disk = [q \in S!Files |-> [text |-> disk[q].text, side |-> disk[q].side]]
      /\ \A q \in S!Files : (disk[q].text = S!NoText \/ TextFits(disk[q].text))
                            /\ disk[q].side \in [DOMAIN disk[q].side -> Sounds]
      /\ whole = [q \in S!Files |-> whole[q]]
  BY <1>2 DEF DiskFits, WholeIsWhole
<1>4. /\ disk' = [q \in S!Files |-> IF q = p THEN [text |-> S!NoText, side |-> disk[p].side] ELSE disk[q]]
      /\ whole' = [q \in S!Files |-> IF q = p THEN S!NotWhole ELSE whole[q]]
  <2> DEFINE F == S!Files
  <2>1. p \in F /\ disk = [q \in F |-> [text |-> disk[q].text, side |-> disk[q].side]]
        /\ whole = [q \in F |-> whole[q]]
    BY <1>3
  <2> HIDE DEF F
  <2>2. disk[p] = [text |-> disk[p].text, side |-> disk[p].side]  BY <2>1
  <2>3. [disk[p] EXCEPT !.text = S!NoText] = [text |-> S!NoText, side |-> disk[p].side]  BY ONLY <2>2
  <2>4. disk' = [q \in F |-> IF q = p THEN [disk[p] EXCEPT !.text = S!NoText] ELSE disk[q]]  BY <1>1, <2>1
  <2>5. whole' = [q \in F |-> IF q = p THEN S!NotWhole ELSE whole[q]]  BY <1>1, <2>1
  <2> QED  BY <2>3, <2>4, <2>5 DEF F
<1>5. /\ disk'[p] = [text |-> S!NoText, side |-> disk[p].side] /\ whole'[p] = S!NotWhole
      /\ \A q \in S!Files : q # p => disk'[q] = disk[q] /\ whole'[q] = whole[q]
      /\ disk' = [q \in S!Files |-> disk'[q]] /\ whole' = [q \in S!Files |-> whole'[q]]
  <2> DEFINE F == S!Files
  <2>1. p \in F /\ disk' = [q \in F |-> IF q = p THEN [text |-> S!NoText, side |-> disk[p].side] ELSE disk[q]]
        /\ whole' = [q \in F |-> IF q = p THEN S!NotWhole ELSE whole[q]]
    BY <1>4
  <2> HIDE DEF F
  <2>2. /\ disk'[p] = [text |-> S!NoText, side |-> disk[p].side] /\ whole'[p] = S!NotWhole
        /\ \A q \in F : q # p => disk'[q] = disk[q] /\ whole'[q] = whole[q]
        /\ disk' = [q \in F |-> disk'[q]] /\ whole' = [q \in F |-> whole'[q]]
    BY <2>1
  <2> QED  BY <2>2 DEF F
<1>6. disk'[p].text = S!NoText /\ disk'[p].side = disk[p].side
      /\ disk'[p] = [text |-> disk'[p].text, side |-> disk'[p].side]
  BY ONLY <1>5
<1>7. ASSUME NEW q \in S!Files
      PROVE  /\ disk'[q] = [text |-> disk'[q].text, side |-> disk'[q].side]
             /\ disk'[q].text = S!NoText \/ TextFits(disk'[q].text)
             /\ disk'[q].side \in [DOMAIN disk'[q].side -> Sounds]
  <2>1. CASE q = p  BY <1>3, <1>6, <2>1
  <2>2. CASE q # p
    <3>1. disk[q] = [text |-> disk[q].text, side |-> disk[q].side]  BY <1>3
    <3>2. disk'[q] = disk[q]  BY <1>5, <2>2
    <3> QED  BY <1>3, <3>1, <3>2
  <2> QED  BY <2>1, <2>2
<1>8. disk' = [q \in S!Files |-> [text |-> disk'[q].text, side |-> disk'[q].side]]  BY <1>5, <1>7
<1>9. DiskFits'  BY <1>7, <1>8 DEF DiskFits
<1>10. WholeIsWhole'  BY <1>2, <1>5 DEF WholeIsWhole
<1>11. SaveGoesOn'
  <2>1. /\ saving'.path = p /\ saving'.text = TRUE /\ saving'.left = DOMAIN S!Names(work)
        /\ saving'.names = S!Names(work)
        /\ saving' = [path |-> saving'.path, text |-> saving'.text, left |-> saving'.left, names |-> saving'.names]
    BY ONLY <1>1
  <2>2. S!Running'  BY <1>1, <1>2 DEF S!Running
  <2> QED  BY <1>1, <1>5, <2>1, <2>2 DEF SaveGoesOn
<1>12. (WorkFits(work, heap) /\ News(heap, edits))'  BY <1>1, <1>2 DEF SessionInv, News
<1>13. edits' \in Nat /\ projectPath' \in {SongFile, S!NoPath}  BY <1>1 DEF SessionInv
<1> QED  BY <1>1, <1>9, <1>10, <1>11, <1>12, <1>13 DEF SessionInv, News

LEMMA WriteTextKept ==
    ASSUME SessionInv, S!WriteText
    PROVE  SessionInv'
<1> DEFINE p == saving.path
           x == S!Serialized(work)
<1>1. /\ S!Running /\ saving.text /\ disk' = [disk EXCEPT ![saving.path].text = x]
      /\ saving' = [saving EXCEPT !.text = FALSE]
      /\ work' = work /\ heap' = heap /\ projectPath' = projectPath /\ read' = read /\ whole' = whole /\ edits' = edits
  BY DEF S!WriteText
<1>2. DiskFits /\ WholeIsWhole /\ SaveGoesOn /\ WorkFits(work, heap)  BY <1>1 DEF SessionInv
<1>3. saving # S!NoSave  BY <1>1 DEF S!NoSave
<1>4. /\ saving = [path |-> saving.path, text |-> saving.text, left |-> saving.left, names |-> saving.names]
      /\ p \in S!Files /\ read = S!NoPath /\ whole[p] = S!NotWhole
      /\ saving.names = S!Names(work) /\ saving.left = DOMAIN saving.names
  BY <1>1, <1>2, <1>3 DEF SaveGoesOn
<1>5. TextFits(x)  BY <1>2, SerializedFits
<1>6. x' = x  BY <1>1, Zenon DEF S!Serialized, S!SongText
<1> HIDE DEF p, x
<1>7. Side(disk[p].side) /\ disk' = [disk EXCEPT ![p] = [text |-> x, side |-> disk[p].side]]
  <2>1. /\ disk = [q \in S!Files |-> [text |-> disk[q].text, side |-> disk[q].side]]
        /\ \A q \in S!Files : disk[q].side \in [DOMAIN disk[q].side -> Sounds]
    BY <1>2 DEF DiskFits
  <2>2. disk[p] = [text |-> disk[p].text, side |-> disk[p].side]  BY <1>4, <2>1
  <2>3. [disk[p] EXCEPT !.text = x] = [text |-> x, side |-> disk[p].side]  BY ONLY <2>2
  <2>4. disk' = [disk EXCEPT ![p] = [disk[p] EXCEPT !.text = x]]  BY <1>1 DEF p
  <2> QED  BY <1>4, <2>1, <2>3, <2>4 DEF Side
<1>8. DiskFits' /\ WholeIsWhole' /\ disk'[p].text = x /\ disk'[p].side = disk[p].side
  BY <1>1, <1>2, <1>4, <1>5, <1>7, OneFile
<1>9. saving' = [path |-> p, text |-> FALSE, left |-> saving.left, names |-> saving.names]
  <2>1. saving = [path |-> saving.path, text |-> saving.text, left |-> saving.left, names |-> saving.names]
    BY <1>4
  <2>2. saving' = [path |-> saving.path, text |-> FALSE, left |-> saving.left, names |-> saving.names]
    BY ONLY <1>1, <2>1
  <2> QED  BY <2>2 DEF p
<1>10. SaveGoesOn'
  <2>1. /\ saving'.path = p /\ saving'.text = FALSE /\ saving'.left = saving.left /\ saving'.names = saving.names
        /\ saving' = [path |-> saving'.path, text |-> saving'.text, left |-> saving'.left, names |-> saving'.names]
    BY ONLY <1>9
  <2>2. S!Running'  BY <1>1 DEF S!Running
  <2>3. disk'[saving'.path].text = S!Serialized(work)'  BY <1>6, <1>8, <2>1 DEF x
  <2> QED  BY <1>1, <1>4, <2>1, <2>2, <2>3 DEF SaveGoesOn
<1>11. (WorkFits(work, heap) /\ News(heap, edits))'  BY <1>1, <1>2 DEF SessionInv, News
<1>12. edits' \in Nat /\ projectPath' \in {SongFile, S!NoPath}  BY <1>1 DEF SessionInv
<1> QED  BY <1>1, <1>4, <1>8, <1>10, <1>11, <1>12 DEF SessionInv, News

LEMMA WriteClipKept ==
    ASSUME SessionInv, S!WriteClip
    PROVE  SessionInv'
<1> DEFINE p == saving.path
           nm == saving.names
<1>0. PICK id \in saving.left :
         /\ disk' = [disk EXCEPT ![saving.path].side = [f \in DOMAIN @ \cup {saving.names[id]} |->
                                            IF f = saving.names[id] THEN heap[id].sound ELSE @[f]]]
         /\ saving' = [saving EXCEPT !.left = @ \ {id}]
  BY DEF S!WriteClip
<1>1. /\ S!Running /\ ~saving.text
      /\ work' = work /\ heap' = heap /\ projectPath' = projectPath /\ read' = read /\ whole' = whole /\ edits' = edits
  BY DEF S!WriteClip
<1>2. DiskFits /\ WholeIsWhole /\ SaveGoesOn /\ WorkFits(work, heap)  BY <1>1 DEF SessionInv
<1>3. saving # S!NoSave  BY DEF S!NoSave
<1>4. /\ saving = [path |-> saving.path, text |-> saving.text, left |-> saving.left, names |-> saving.names]
      /\ p \in S!Files /\ read = S!NoPath /\ whole[p] = S!NotWhole /\ saving.text = FALSE
      /\ nm = S!Names(work) /\ saving.left \subseteq DOMAIN nm
      /\ disk[p].text = S!Serialized(work)
      /\ \A o \in DOMAIN nm \ saving.left : nm[o] \in DOMAIN disk[p].side /\ disk[p].side[nm[o]] = heap[o].sound
  BY <1>1, <1>2, <1>3 DEF SaveGoesOn
<1>5. heap[id].sound \in Sounds
  <2>1. id \in DOMAIN heap  BY <1>2, <1>4, NamesAreDistinct
  <2> QED  BY <1>2, <2>1 DEF WorkFits, HeapFits
<1>6. \A o \in DOMAIN nm : nm[o] = nm[id] => o = id  BY <1>2, <1>4, NamesAreDistinct
<1> DEFINE old == disk[p].side
           new == [f \in DOMAIN old \cup {nm[id]} |-> IF f = nm[id] THEN heap[id].sound ELSE old[f]]
<1>7. DiskFits' /\ WholeIsWhole' /\ disk'[p].text = disk[p].text /\ disk'[p].side = new
  <2>1. /\ disk = [q \in S!Files |-> [text |-> disk[q].text, side |-> disk[q].side]]
        /\ \A q \in S!Files : (disk[q].text = S!NoText \/ TextFits(disk[q].text))
                              /\ disk[q].side \in [DOMAIN disk[q].side -> Sounds]
    BY <1>2 DEF DiskFits
  <2>2. disk[p] = [text |-> disk[p].text, side |-> old]  BY <1>4, <2>1
  <2>3. disk' = [disk EXCEPT ![p] = [disk[p] EXCEPT !.side = new]]  BY <1>0
  <2>4. \A f \in DOMAIN old : old[f] \in Sounds  BY <1>4, <2>1
  <2>5. Side(new)
    <3>1. \A f \in DOMAIN new : new[f] \in Sounds  BY <1>5, <2>4
    <3> HIDE DEF old
    <3>2. new = [f \in DOMAIN new |-> new[f]]  OBVIOUS
    <3> HIDE DEF new
    <3> QED  BY <3>1, <3>2 DEF Side
  <2> HIDE DEF new, old
  <2>6. [disk[p] EXCEPT !.side = new] = [text |-> disk[p].text, side |-> new]  BY ONLY <2>2
  <2>7. disk' = [disk EXCEPT ![p] = [text |-> disk[p].text, side |-> new]]  BY <2>3, <2>6
  <2> DEFINE x == disk[p].text
  <2>8. x = S!NoText \/ TextFits(x)  BY <1>4, <2>1
  <2> HIDE DEF x, p
  <2> QED  BY <1>1, <1>2, <1>4, <2>5, <2>7, <2>8, OneFile DEF x
<1>8. S!Serialized(work)' = S!Serialized(work)  BY <1>1, Zenon DEF S!Serialized, S!SongText
<1>9. saving' = [path |-> p, text |-> FALSE, left |-> saving.left \ {id}, names |-> nm]
  <2>1. saving = [path |-> saving.path, text |-> saving.text, left |-> saving.left, names |-> saving.names]
        /\ saving.text = FALSE
    BY <1>4
  <2> QED  BY ONLY <1>0, <2>1
<1>10. ASSUME NEW o \in DOMAIN nm \ (saving.left \ {id})
       PROVE  nm[o] \in DOMAIN disk'[p].side /\ disk'[p].side[nm[o]] = heap[o].sound
  <2>1. CASE o = id  BY <1>7, <2>1
  <2>2. CASE o # id
    <3>1. nm[o] # nm[id] /\ nm[o] \in DOMAIN old /\ old[nm[o]] = heap[o].sound  BY <1>4, <1>6, <2>2
    <3>2. disk'[p].side = new  BY <1>7
    <3> HIDE DEF old, p, nm
    <3>3. nm[o] \in DOMAIN new /\ new[nm[o]] = old[nm[o]]  BY <3>1
    <3> HIDE DEF new
    <3> QED  BY <3>1, <3>2, <3>3
  <2> QED  BY <2>1, <2>2
<1> HIDE DEF p, nm, new
<1>11. SaveGoesOn'
  <2>1. /\ saving'.path = p /\ saving'.text = FALSE /\ saving'.left = saving.left \ {id} /\ saving'.names = nm
        /\ saving' = [path |-> saving'.path, text |-> saving'.text, left |-> saving'.left, names |-> saving'.names]
    BY ONLY <1>9
  <2>2. S!Running'  BY <1>1 DEF S!Running
  <2> QED  BY <1>1, <1>4, <1>7, <1>8, <1>10, <2>1, <2>2 DEF SaveGoesOn
<1>12. (WorkFits(work, heap) /\ News(heap, edits))'  BY <1>1, <1>2 DEF SessionInv, News
<1>13. edits' \in Nat /\ projectPath' \in {SongFile, S!NoPath}  BY <1>1 DEF SessionInv
<1> QED  BY <1>1, <1>4, <1>7, <1>11, <1>12, <1>13 DEF SessionInv, News

LEMMA FinishKept ==
    ASSUME SessionInv, S!Finish
    PROVE  SessionInv'
<1> DEFINE p == saving.path
           sh == S!Shape(work, heap)
<1>1. /\ S!Running /\ saving # S!NoSave /\ ~saving.text /\ saving.left = {} /\ saving' = S!NoSave
      /\ whole' = [whole EXCEPT ![p] = sh]
      /\ work' = work /\ heap' = heap /\ disk' = disk /\ read' = read /\ edits' = edits
      /\ projectPath' = projectPath \/ (p # S!Autosave /\ projectPath' = p)
  BY DEF S!Finish
<1>2. DiskFits /\ WholeIsWhole /\ SaveGoesOn /\ WorkFits(work, heap)  BY <1>1 DEF SessionInv
<1>3. /\ p \in S!Files /\ read = S!NoPath
      /\ disk[p].text = S!Serialized(work)
      /\ \A o \in DOMAIN S!Names(work) : /\ S!Names(work)[o] \in DOMAIN disk[p].side
                                         /\ disk[p].side[S!Names(work)[o]] = heap[o].sound
  BY <1>1, <1>2 DEF SaveGoesOn
<1> HIDE DEF p, sh
<1>4. Side(disk[p].side)  BY <1>2, <1>3 DEF DiskFits, Side
<1>5. S!Shape(S!Loaded(disk[p]).work, S!Loaded(disk[p]).heap) = sh
  <2> DEFINE d == disk[p]
  <2>1. /\ d.text = S!Serialized(work) /\ d.side \in [DOMAIN d.side -> Sounds]
        /\ \A o \in DOMAIN S!Names(work) : S!Names(work)[o] \in DOMAIN d.side /\ d.side[S!Names(work)[o]] = heap[o].sound
    BY <1>3, <1>4 DEF Side
  <2> HIDE DEF d
  <2>2. S!Shape(S!Loaded(d).work, S!Loaded(d).heap) = S!Shape(work, heap)  BY <1>2, <2>1, RoundTrip
  <2> QED  BY <2>2 DEF d, sh
<1>6. /\ whole' = [q \in S!Files |-> whole'[q]]
      /\ whole'[p] = sh /\ \A q \in S!Files : q # p => whole'[q] = whole[q]
  <2>1. whole = [q \in S!Files |-> whole[q]]  BY <1>2 DEF WholeIsWhole
  <2> QED  BY <1>1, <1>3, <2>1
<1>7. WholeIsWhole'  BY <1>1, <1>2, <1>5, <1>6 DEF WholeIsWhole
<1>8. DiskFits'  BY <1>1, <1>2 DEF DiskFits
<1>9. SaveGoesOn'  BY <1>1 DEF SaveGoesOn
<1>10. (WorkFits(work, heap) /\ News(heap, edits))'  BY <1>1, <1>2 DEF SessionInv, News
<1>11. edits' \in Nat /\ projectPath' \in {SongFile, S!NoPath}
  BY <1>1, <1>3, PathsDiffer DEF SessionInv, S!Autosave
<1> QED  BY <1>1, <1>3, <1>7, <1>8, <1>9, <1>10, <1>11 DEF SessionInv, News

LEMMA WriteFailsKept ==
    ASSUME SessionInv, S!WriteFails
    PROVE  SessionInv'
<1>1. /\ saving' = S!NoSave /\ work' = work /\ heap' = heap /\ projectPath' = projectPath
      /\ UNCHANGED <<disk, whole>> /\ read' = read /\ whole' = whole /\ edits' = edits
  BY DEF S!WriteFails
<1>2. DiskFits' /\ WholeIsWhole'  BY <1>1, FilesRest DEF SessionInv
<1>3. SaveGoesOn'  BY <1>1 DEF SaveGoesOn
<1>4. S!Running' = S!Running  BY <1>1 DEF S!Running
<1> QED  BY <1>1, <1>2, <1>3, <1>4 DEF SessionInv

LEMMA DownKept ==
    ASSUME SessionInv, S!Down
    PROVE  SessionInv'
<1>1. /\ work' = S!Off /\ projectPath' = S!NoPath /\ saving' = S!NoSave /\ read' = S!NoPath
      /\ UNCHANGED <<disk, whole>> /\ edits' = edits
  BY DEF S!Down
<1>2. DiskFits' /\ WholeIsWhole'  BY <1>1, FilesRest DEF SessionInv
<1>3. SaveGoesOn'  BY <1>1 DEF SaveGoesOn
<1>4. ~S!Running'  BY <1>1 DEF S!Running
<1> QED  BY <1>1, <1>2, <1>3, <1>4 DEF SessionInv

LEMMA LoadKept ==
    ASSUME SessionInv, NEW p \in S!Files, disk[p].text # S!NoText, S!Load(p), saving' = S!NoSave,
           projectPath' \in {SongFile, S!NoPath}, UNCHANGED <<disk, whole>>, edits' = edits
    PROVE  SessionInv'
<1> DEFINE d == disk[p]
<1>1. work' = S!Loaded(d).work /\ heap' = S!Loaded(d).heap /\ read' = p  BY DEF S!Load
<1>2. FileFits(d)  BY DEF SessionInv, DiskFits, FileFits
<1> HIDE DEF d
<1>3. WorkFits(S!Loaded(d).work, S!Loaded(d).heap)  BY <1>2, LoadedWork
<1>4. WorkFits(work', heap')  BY <1>1, <1>3
<1>5. DOMAIN heap' \subseteq FileName  BY <1>1, <1>2, LoadedHeap, RefsAreRead
<1>6. News(heap', edits')
  <2>1. \A id \in FileName : id[1] # "new"  BY DEF FileName
  <2> QED  BY <1>5, <2>1 DEF News
<1>7. DiskFits' /\ WholeIsWhole'  BY FilesRest DEF SessionInv
<1>8. SaveGoesOn'  BY DEF SaveGoesOn
<1>9. whole'[read'] # S!NotWhole => S!Shape(work', heap') = whole'[read']
  <2>1. whole' = whole  OBVIOUS
  <2>2. whole[p] # S!NotWhole => S!Shape(S!Loaded(d).work, S!Loaded(d).heap) = whole[p]
    BY DEF SessionInv, WholeIsWhole, d
  <2> QED  BY <1>1, <2>1, <2>2
<1>10. edits' \in Nat  BY DEF SessionInv
<1> QED  BY <1>1, <1>4, <1>6, <1>7, <1>8, <1>9, <1>10 DEF SessionInv, News

LEMMA OpenKept ==
    ASSUME SessionInv, S!Open(SongFile)
    PROVE  SessionInv'
<1>1. /\ saving' = S!NoSave /\ S!Load(SongFile) /\ projectPath' = SongFile /\ disk[SongFile].text # S!NoText
      /\ UNCHANGED <<disk, whole>> /\ edits' = edits
  BY DEF S!Open, S!Idle
<1> QED  BY <1>1, PathsDiffer, LoadKept

LEMMA StartKept ==
    ASSUME SessionInv, NEW recover \in BOOLEAN, S!Start(recover)
    PROVE  SessionInv'
<1>1. /\ saving' = S!NoSave /\ projectPath' = S!NoPath /\ UNCHANGED <<disk, whole>> /\ edits' = edits
      /\ \/ disk[S!Autosave].text # S!NoText /\ S!Load(S!Autosave)
         \/ work' = S!NewWork /\ heap' = <<>> /\ read' = S!NoPath
  BY DEF S!Start
<1>2. CASE disk[S!Autosave].text # S!NoText /\ S!Load(S!Autosave)
  <2>1. S!Autosave \in S!Files  BY PathsDiffer DEF S!Autosave
  <2> QED  BY <1>1, <1>2, <2>1, LoadKept
<1>3. CASE work' = S!NewWork /\ heap' = <<>> /\ read' = S!NoPath
  <2> DEFINE w == S!NewWork
             h == <<>>
  <2>1. w = [notes |-> 0, clips |-> <<>>, versions |-> <<>>, current |-> -1, nextId |-> 1]  BY DEF S!NewWork
  <2>2. DOMAIN h = {} /\ h \in [DOMAIN h -> [sound : Sounds, at : Int]]  OBVIOUS
  <2>3. <<>> \in Seq(DOMAIN h) /\ <<>> \in Seq(Version(DOMAIN h)) /\ Distinct(<<>>)  BY DEF Distinct
  <2> HIDE DEF w, h
  <2>4. w \in Work(DOMAIN h) /\ w.clips = <<>> /\ w.versions = <<>> /\ w.current = -1
    BY <2>1, <2>3 DEF Work
  <2>5. HeapFits(h)  BY <2>2 DEF HeapFits
  <2>6. WorkFits(w, h) /\ News(h, edits)  BY <2>2, <2>3, <2>4, <2>5 DEF WorkFits, News
  <2>7. (WorkFits(work, heap) /\ News(heap, edits))'  BY <1>1, <1>3, <2>6 DEF w, h
  <2>8. DiskFits' /\ WholeIsWhole'  BY <1>1, FilesRest DEF SessionInv
  <2>9. SaveGoesOn'  BY <1>1 DEF SaveGoesOn
  <2> QED  BY <1>1, <1>3, <2>7, <2>8, <2>9 DEF SessionInv, News
<1> QED  BY <1>1, <1>2, <1>3

LEMMA SessionStarts ==
    ASSUME S!Init
    PROVE  SessionInv
<1>1. /\ work = S!Off /\ projectPath = S!NoPath /\ disk = [p \in S!Files |-> S!Unwritten] /\ saving = S!NoSave
      /\ read = S!NoPath /\ whole = [p \in S!Files |-> S!NotWhole] /\ edits = 0
  BY DEF S!Init
<1>2. ~S!Running  BY <1>1 DEF S!Running
<1>3. DiskFits
  <2>1. \A p \in S!Files : disk[p] = [text |-> S!NoText, side |-> <<>>]  BY <1>1 DEF S!Unwritten
  <2>2. \A p \in S!Files : disk[p].text = S!NoText /\ disk[p].side = <<>>  BY <2>1
  <2>3. disk = [p \in S!Files |-> [text |-> disk[p].text, side |-> disk[p].side]]  BY <1>1, <2>1, <2>2
  <2>4. <<>> \in [DOMAIN <<>> -> Sounds]  OBVIOUS
  <2> QED  BY <2>2, <2>3, <2>4 DEF DiskFits
<1>4. WholeIsWhole  BY <1>1 DEF WholeIsWhole
<1>5. SaveGoesOn  BY <1>1 DEF SaveGoesOn
<1> QED  BY <1>1, <1>2, <1>3, <1>4, <1>5 DEF SessionInv

LEMMA SessionStep ==
    ASSUME SessionInv, S!Next
    PROVE  SessionInv'
<1>1. CASE \E recover \in BOOLEAN : S!Start(recover)  BY <1>1, StartKept
<1>2. CASE S!Exit \/ S!Crash  BY <1>2, DownKept DEF S!Exit, S!Crash
<1>3. CASE S!SaveAs \/ S!RemoteSave \/ S!MaybeAutosave
  <2>1. SongFile \in S!Files /\ S!Autosave \in S!Files  BY PathsDiffer DEF S!Autosave
  <2>2. S!RemoteSave => projectPath = SongFile  BY DEF SessionInv, S!RemoteSave
  <2>3. S!Idle /\ \E p \in S!Files : S!Begin(p)
    BY <1>3, <2>1, <2>2 DEF S!SaveAs, S!RemoteSave, S!MaybeAutosave
  <2> QED  BY <2>3, BeginKept
<1>4. CASE S!WriteText  BY <1>4, WriteTextKept
<1>5. CASE S!WriteClip  BY <1>5, WriteClipKept
<1>6. CASE S!Finish  BY <1>6, FinishKept
<1>7. CASE S!WriteFails  BY <1>7, WriteFailsKept
<1>8. CASE S!Open(SongFile)  BY <1>8, OpenKept
<1>9. CASE S!Idle /\ (S!EditNotes \/ S!NewSong \/ S!Checkin)
  BY <1>9, EditNotesKept, NewSongKept, CheckinKept
<1>10. CASE S!Idle /\ \E sound \in Sounds : S!AddClip(sound)
  BY <1>10, AddClipKept
<1>11. CASE S!Idle /\ \E j \in DOMAIN work.clips : S!MoveClip(j) \/ S!ReverseClip(j) \/ S!DeleteClip(j)
  BY <1>11, MoveClipKept, ReverseClipKept, DeleteClipKept
<1>12. CASE S!Idle /\ \E v \in DOMAIN work.versions : S!Checkout(v)
  BY <1>12, CheckoutKept
<1> QED  BY <1>1, <1>2, <1>3, <1>4, <1>5, <1>6, <1>7, <1>8, <1>9, <1>10, <1>11, <1>12, Zenon DEF S!Next

LEMMA SessionRests ==
    ASSUME SessionInv, UNCHANGED sVars
    PROVE  SessionInv'
<1>1. /\ work' = work /\ heap' = heap /\ projectPath' = projectPath /\ saving' = saving /\ read' = read
      /\ disk' = disk /\ whole' = whole /\ edits' = edits /\ UNCHANGED <<disk, whole>>
  BY Zenon DEF sVars
<1>2. DiskFits' /\ WholeIsWhole'  BY <1>1, FilesRest DEF SessionInv
<1>3. S!Running' = S!Running  BY <1>1 DEF S!Running
<1>4. S!Serialized(work)' = S!Serialized(work)  BY <1>1, Zenon DEF S!Serialized, S!SongText
<1>5. SaveGoesOn'
  <2>1. SaveGoesOn  BY DEF SessionInv
  <2> QED  BY <1>1, <1>3, <1>4, <2>1 DEF SaveGoesOn
<1> QED  BY <1>1, <1>2, <1>3, <1>5 DEF SessionInv

LEMMA SessionIsSound ==
    ASSUME SessionInv
    PROVE  S!WorkIsKept
BY PathsDiffer DEF SessionInv, S!WorkIsKept, S!Autosave, S!NoPath

-----------------------------------------------------------------------------
(* Plug-in lists and chains: the invariant is that of PlaybackProofs.        *)

\* MCApp and the proofs have an instance each.
LEMMA SameChains ==
    /\ C!ChainsInit => PP!ChainsInit
    /\ C!ChainsNext => PP!ChainsNext
    /\ PP!ListsMatchChains => C!ListsMatchChains
    /\ C!Open => PP!Open
    /\ C!Patches(chain') = PP!Patches(chain')
<1> USE DEF C!Plugins, PP!Plugins, C!Factory, PP!Factory, C!Item, PP!Item, C!Host, PP!Host,
        C!IsEffect, PP!IsEffect, C!NoFile, PP!NoFile, C!NoWindow, PP!NoWindow, C!EffectPlaces,
        PP!EffectPlaces, C!InstPlaces, PP!InstPlaces, C!Nth, PP!Nth, C!Picked, PP!Picked,
        C!EffectsIn, PP!EffectsIn, C!FxIndex, PP!FxIndex, C!Of, PP!Of, C!Listed, PP!Listed,
        C!Shared, PP!Shared, C!WithParam, PP!WithParam, C!Patches, PP!Patches, C!Edit, PP!Edit,
        C!Snapshot, PP!Snapshot, C!Ch, PP!Ch, C!Room, PP!Room, C!Part, PP!Part, C!HasEq, PP!HasEq,
        C!AddTrack, PP!AddTrack, C!DeleteTrack, PP!DeleteTrack, C!AddEffect, PP!AddEffect,
        C!BrowserEffect, PP!BrowserEffect, C!AddInstrument, PP!AddInstrument, C!RemoveInstrument,
        PP!RemoveInstrument, C!Toggle, PP!Toggle, C!RemoveEffect, PP!RemoveEffect, C!Swapped,
        PP!Swapped, C!MoveEffect, PP!MoveEffect, C!OpenWindow, PP!OpenWindow, C!SetParam,
        PP!SetParam, C!TurnKnob, PP!TurnKnob, C!Undo, PP!Undo, C!NewSong, PP!NewSong, C!Gone,
        PP!Gone, C!PatchFiles, PP!PatchFiles, C!Save, PP!Save, C!Loads, PP!Loads, C!Found,
        PP!Found, C!Rebuilt, PP!Rebuilt, C!LastInst, PP!LastInst, C!Patched, PP!Patched, C!Open,
        PP!Open, C!Runs, PP!Runs, C!Cardinality, PP!Cardinality, C!RemoveAt, PP!RemoveAt, C!Front,
        PP!Front, C!Last, PP!Last, C!FoldLeft, PP!FoldLeft, C!MapThenFoldSet, PP!MapThenFoldSet,
        C!Max, PP!Max
<1>1. C!ChainsInit => PP!ChainsInit  BY DEF C!ChainsInit, PP!ChainsInit
<1>2. C!ChainsNext => PP!ChainsNext  BY DEF C!ChainsNext, PP!ChainsNext
<1>3. PP!ListsMatchChains => C!ListsMatchChains  BY DEF C!ListsMatchChains, PP!ListsMatchChains
<1>4. C!Open => PP!Open  OBVIOUS
<1>5. C!Patches(chain') = PP!Patches(chain')  OBVIOUS
<1> QED  BY <1>1, <1>2, <1>3, <1>4, <1>5

-----------------------------------------------------------------------------
(* The application.                                                          *)

AppVars == <<part, pVars, tVars, cVars, sVars, dVars, aVars, gVars, jVars>>

\* A step of the application is a step of one part and none of the others.
LEMMA StepsOfParts ==
    ASSUME Next \/ UNCHANGED AppVars
    PROVE  /\ (P!Next \/ UNCHANGED pVars) /\ (T!Next \/ UNCHANGED tVars)
           /\ (C!ChainsNext \/ UNCHANGED cVars) /\ (S!Next \/ UNCHANGED sVars)
BY Zenon DEF Next, AppVars

LEMMA MetronomeIsFit == MetronomeFits
<1>1. PP!SongsAssumption  BY DEF PP!SongsAssumption, PP!Events
<1>2. P!TimesAssumption /\ P!MetronomeAssumption  BY InstancesAreFit
<1>3. PP!TimesAssumption  BY <1>2 DEF P!TimesAssumption, PP!TimesAssumption
<1>4. PP!MetronomeAssumption
  BY <1>2 DEF P!MetronomeAssumption, PP!MetronomeAssumption
<1> QED  BY <1>1, <1>3, <1>4 DEF MetronomeFits

LEMMA ClicksRest ==
    ASSUME ClicksInv, UNCHANGED pVars
    PROVE  ClicksInv'
<1>1. UNCHANGED PP!vars
  BY DEF pVars, PP!vars, PP!flags, PP!head, PP!snapshot, PP!loop, PP!locals, PP!output, PP!ui
<1>2. [PP!Next]_PP!vars  BY <1>1
<1> USE MetronomeIsFit DEF MetronomeFits, PP!SongsAssumption, PP!TimesAssumption, PP!MetronomeAssumption
<1>3. PP!PlayerInv'  BY <1>2, PP!PlayerNext DEF ClicksInv
<1>4. PP!TypeOK /\ PP!TypeOK' /\ PP!WithinBound /\ PP!WithinBound'
  BY <1>3 DEF ClicksInv, PP!PlayerInv, PP!SoundingIsHeld
<1>5. PP!CountsInv'  BY <1>2, <1>4, PP!CountsNext DEF ClicksInv
<1> QED  BY <1>3, <1>5 DEF ClicksInv, PP!NoBeatSkipped

LEMMA TransportRests ==
    ASSUME TransportInv, UNCHANGED tVars
    PROVE  TransportInv'
<1>1. t' = t /\ seen' = seen  BY DEF tVars
<1> QED
  BY <1>1 DEF TransportInv, Kept, TakesInv, CountsIn, Follows, Bound, Together, Waiting, Lapped,
              Settled, Transports, Take, Regions

\* Metronome and transport, for every metronome, loop, count-in, length of a bar and bound of
\* a take. However the UI's commands, the frames and the player's ticks fall: a beat of a
\* count-in is struck, with the accent on the first of its bar, and its Note Off is near
\* (Player.cpp, provided the clock does not sleep past half a beat, NoBeatSkipped); the clips
\* start, stop and move with the player and wait for its count-in, and a take that nothing
\* disturbed lies where its first sample was played (applyTransportState, syncAudioRecording).
THEOREM SoundAlwaysFollows == P!NoBeatSkipped /\ Spec => []SoundFollowsThePlayer
<1> DEFINE Inv == ClicksInv /\ TransportInv
<1>0. T!TransportAssumption  BY InstancesAreFit
<1>1. P!NoBeatSkipped /\ Init => Inv
  BY <1>0, MetronomeIsFit, ClicksInit, TransportStarts DEF Init
<1>2. Inv /\ [Next]_AppVars => Inv'
  <2> SUFFICES ASSUME ClicksInv, TransportInv, Next \/ UNCHANGED AppVars
               PROVE  ClicksInv' /\ TransportInv'
    OBVIOUS
  <2>1. ClicksInv'  BY StepsOfParts, MetronomeIsFit, ClicksStep, ClicksRest
  <2>2. TransportInv'  BY <1>0, StepsOfParts, TransportStep, TransportRests
  <2> QED  BY <2>1, <2>2
<1>3. Inv => SoundFollowsThePlayer
  BY <1>0, MetronomeIsFit, ClicksAreSound, TransportIsSound DEF SoundFollowsThePlayer
<1> QED  BY <1>1, <1>2, <1>3, PTL DEF Spec, AppVars

\* A session, for every set of sounds and every bound.  However the user edits, checks
\* versions in and out, saves and opens, a write fails or the program dies between two
\* writes: a file whose last save was finished gives back the whole work, its clips where
\* they lay and with their sound, each version's own places, and what was one object is one
\* again (buildClipNames, versionSongToText, load); and a recovered copy never becomes the
\* file that is saved to (saveProjectTo).
THEOREM WorkAlwaysKept == Spec => []WorkIsKept
<1>1. Init => SessionInv  BY SessionStarts DEF Init
<1>2. SessionInv /\ [Next]_AppVars => SessionInv'
  BY StepsOfParts, SessionStep, SessionRests
<1>3. SessionInv => WorkIsKept  BY SessionIsSound DEF WorkIsKept
<1> QED  BY <1>1, <1>2, <1>3, PTL DEF Spec, AppVars

\* Plug-ins, for all sets of effects and instruments and any number of channels, tracks and
\* places. However tracks come and go, plug-ins are added, moved, switched, set and taken
\* out, songs are saved, opened and undone: on every channel that one track has to itself the
\* chain and the instrument are what the song lists for it (fxPluginIndex, trackFxPlugin,
\* swapFx, loadProjectFrom), and a project saved so, whose plug-ins all load, opens with
\* every patch in its place (saveVstStates, loadVstStates).
THEOREM PluginsAlwaysFollow == Spec => PluginsFollowTheSong
<1>0. PP!PluginChainsAssumption
  <2>1. C!PluginChainsAssumption  BY InstancesAreFit
  <2> QED  BY <2>1 DEF C!PluginChainsAssumption, PP!PluginChainsAssumption, C!Plugins, PP!Plugins
<1> USE MetronomeIsFit DEF MetronomeFits, PP!SongsAssumption, PP!TimesAssumption, PP!MetronomeAssumption
<1>1. Init => PP!ChainInv  BY <1>0, SameChains, PP!ChainsStart DEF Init
<1>2. PP!ChainInv /\ [Next]_AppVars => PP!ChainInv'
  <2>1. UNCHANGED cVars => UNCHANGED PP!chainsVars  BY DEF cVars, PP!chainsVars
  <2> QED  BY <1>0, <2>1, SameChains, StepsOfParts, PP!ChainsKeep
<1>3. PP!ChainInv => (part = "chains" => C!ListsMatchChains)  BY SameChains DEF PP!ChainInv
<1>4. PP!ChainInv /\ [Next]_AppVars
        => [C!Open /\ opened' = "whole" => C!Patches(chain') = file.kept]_C!chainsVars
  BY <1>0, SameChains, PP!OpenedWhole
<1> QED
  BY <1>1, <1>2, <1>3, <1>4, PTL DEF Spec, AppVars, PluginsFollowTheSong, C!PatchesComeBack
==============================================================================

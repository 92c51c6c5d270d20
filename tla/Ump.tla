--------------------------------- MODULE Ump ---------------------------------
(***************************************************************************)
(* Channel messages in the two protocols and the engine event they become:  *)
(* the bytes of MIDI 1.0 and the two words of MIDI 2.0 (midi2/Ump.cpp,       *)
(* midi/MidiMessage.cpp, RtAudioEngine::send and sendUmp).                  *)
(*                                                                          *)
(* The first word is kept in halves of sixteen bits.  Amounts are numbers    *)
(* from 0 to Full, whatever their width in a protocol.                      *)
(***************************************************************************)
EXTENDS Integers, Sequences

CONSTANTS Full,       \* the largest amount
          Groups, Channels, Keys

UmpAssumption ==
    /\ Full \in Nat \ {0} /\ Groups \subseteq 0..15 /\ Channels \subseteq 0..15
    /\ Keys \subseteq 0..127

Amounts == 0..Full

\* enum Cv2Status and its MIDI 1.0 counterpart
Statuses == [perNoteBend |-> 6, noteOff |-> 8, noteOn |-> 9, polyPressure |-> 10,
             control |-> 11, pressure |-> 13, bend |-> 14]
Kinds == DOMAIN Statuses
KindOf(status) == CHOOSE k \in Kinds : Statuses[k] = status

\* Kinds of message that carry a key or a number of controller.
Keyed == {"noteOn", "noteOff", "perNoteBend", "polyPressure", "control"}

------------------------------------------------------------------------------
(* MIDI 2.0                                                                 *)

\* cv2Word0: message type 4, group, status and channel are nibbles.
cv2Word0(group, status, channel, data) ==
    [hi |-> 4 * 4096 + (group % 16) * 256 + (status % 16) * 16 + (channel % 16), lo |-> data]

\* makeNoteOn and its siblings: the key in the upper byte of the lower half.
Made(group, kind, channel, key, amount) ==
    [word0 |-> cv2Word0(group, Statuses[kind], channel,
                        IF kind \in Keyed THEN (key % 128) * 256 ELSE 0),
     word1 |-> amount]

\* umpWordCount
Words(u) == LET type == u.word0.hi \div 4096
            IN  IF type \in {3, 4} THEN 2 ELSE IF type = 5 THEN 4 ELSE 1

\* parseMidi2Cv
\* (defect: the channel is looked for in the group's place)
ParsedByGroup(u) ==
    LET status == (u.word0.hi \div 16) % 16
    IN  [kind |-> KindOf(status), group |-> (u.word0.hi \div 256) % 16,
         channel |-> (u.word0.hi \div 256) % 16, key |-> (u.word0.lo \div 256) % 256,
         amount |-> u.word1]
parseMidi2Cv(u) ==
    LET status == (u.word0.hi \div 16) % 16
    IN  [kind |-> KindOf(status), group |-> (u.word0.hi \div 256) % 16,
         channel |-> u.word0.hi % 16, key |-> (u.word0.lo \div 256) % 256, amount |-> u.word1]

------------------------------------------------------------------------------
(* MIDI 1.0                                                                 *)

\* makeNoteOn and its siblings; a bend is its own data, less significant bits first.
Bytes(kind, channel, key, amount) ==
    [status |-> Statuses[kind] * 16 + (channel % 16), data1 |-> key % 128, data2 |-> amount]

\* MidiMessage::parse: a Note On of velocity 0 is a Note Off.
ParsedBytes(b) ==
    LET kind == KindOf(b.status \div 16)
    IN  [kind |-> IF kind = "noteOn" /\ b.data2 = 0 THEN "noteOff" ELSE kind,
         channel |-> b.status % 16, key |-> b.data1, amount |-> b.data2]

------------------------------------------------------------------------------
(* The engine's events.                                                     *)

NoEvent == [type |-> "none"]
Event(type, channel, key, amount) ==
    [type |-> type, channel |-> channel, key |-> key, amount |-> amount]

\* Controllers 120, 123 and 74 have events of their own.
Control(channel, number, amount) ==
    CASE number = 120 -> Event("AllSoundOff", channel, 0, 0)
      [] number = 123 -> Event("AllNotesOff", channel, 0, 0)
      [] number = 74  -> Event("Timbre", channel, 0, amount)
      [] OTHER        -> Event("ControlChange", channel, number, amount)

\* What send and sendUmp push; both ignore what the synthesizer has no use for.
Pushed(m) ==
    CASE m.kind = "noteOn" /\ m.amount > 0 -> Event("NoteOn", m.channel, m.key, m.amount)
      [] m.kind = "noteOn" \/ m.kind = "noteOff" -> Event("NoteOff", m.channel, m.key, 0)
      [] m.kind = "perNoteBend" -> Event("PerNotePitchBend", m.channel, m.key, m.amount)
      [] m.kind = "bend"     -> Event("PitchBend", m.channel, 0, m.amount)
      [] m.kind = "pressure" -> Event("Pressure", m.channel, 0, m.amount)
      [] m.kind = "control"  -> Control(m.channel, m.key, m.amount)
      [] OTHER -> NoEvent

sendUmp(u) == IF Words(u) # 2 THEN NoEvent ELSE Pushed(parseMidi2Cv(u))

\* send reads the bytes itself.
send(b) ==
    LET kind == KindOf(b.status \div 16)
    IN  Pushed([kind |-> kind, channel |-> b.status % 16, key |-> b.data1, amount |-> b.data2])

------------------------------------------------------------------------------
(* Properties *)

InBoth == Kinds \ {"perNoteBend"}

\* Either protocol plays the same: a message that exists in both becomes one event,
\* whatever group it travels in, and what the program parses is what the engine plays.
ProtocolsAgree ==
    \A kind \in InBoth, channel \in Channels, key \in Keys, amount \in Amounts :
        LET b == Bytes(kind, channel, key, amount)
        IN  /\ \A group \in Groups : sendUmp(Made(group, kind, channel, key, amount)) = send(b)
            /\ send(b) = Pushed(ParsedBytes(b))

\* A message read back is the message that was made, nothing spills into its neighbours.
MessagesComeBack ==
    \A kind \in Kinds, group \in Groups, channel \in Channels, key \in Keys, amount \in Amounts :
        parseMidi2Cv(Made(group, kind, channel, key, amount))
            = [kind |-> kind, group |-> group, channel |-> channel, amount |-> amount,
               key |-> IF kind \in Keyed THEN key ELSE 0]
==============================================================================

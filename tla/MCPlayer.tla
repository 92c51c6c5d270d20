------------------------------- MODULE MCPlayer -------------------------------
(* A song of six events: a note that ends, one that crosses the loop's end, and two  *)
(* instruments.  An iteration takes one tick, or three when the thread overslept.    *)
EXTENDS Player

CONSTANTS low, high, piano, organ

Event(t, k, d) == [tick |-> t, kind |-> k, data |-> d]

MCSong == << Event(0, "program", piano), Event(1, "on", low), Event(2, "program", organ),
             Event(2, "off", low), Event(3, "on", high), Event(6, "off", high) >>

MCSongs == {MCSong}
MCLoops == {<<1, 4>>, <<2, 6>>}

\* The metronome is off, and its other switch is moved.
MCNoMetro == {[on |-> FALSE, countInOnly |-> only, signature |-> [beats |-> 2, unit |-> 4],
               loud |-> [c \in BOOLEAN |-> TRUE]] : only \in BOOLEAN}
===============================================================================

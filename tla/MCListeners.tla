---------------------------- MODULE MCListeners ----------------------------
(* Two readers and a writer, one listener of each kind: enough to install *)
(* one listener on two entities, or twice on one.                         *)
EXTENDS Listeners

CONSTANTS r1, r2, w1, rl1, wl1

MCReaders == {r1, r2}
MCWriters == {w1}
MCReaderListeners == {rl1}
MCWriterListeners == {wl1}
MCMaxGen == 3
=============================================================================

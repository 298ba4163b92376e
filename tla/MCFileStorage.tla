--------------------------- MODULE MCFileStorage ---------------------------
(* Values for the constants of FileStorage in TLC's runs. *)
EXTENDS FileStorage

CONSTANTS w1, w2, w3, a, fin, nan

(* One list that mixes kinds, with a nil pointer in the middle. *)
MCBatch == {<<Gauge(a, fin), Gauge(a, Missing), Count(a, 1)>>}
MCDelta == {1}
MCInode == 0 .. 4
=============================================================================

--------------------------- MODULE MCMediaStream ---------------------------
(* Instances of MediaStream for TLC. *)
EXTENDS MediaStream

CONSTANTS m1, m2, t1, t2

Plain == [size |-> 1, px |-> [t \in Tiles |-> 0]]
Drawn == [size |-> 1, px |-> [t \in Tiles |-> IF t = t1 THEN 1 ELSE 0]]
Resized == [size |-> 2, px |-> [t \in Tiles |-> 1]]

(* Two pictures that differ in one tile, and one of another resolution. *)
ThreePictures == {Plain, Drawn, Resized}

(* One monitor is drawn on, the other changes its resolution; a switch may *)
(* meet pictures of the same size or of two sizes.                         *)
Screens == [m \in Monitors |-> IF m = m1 THEN {Plain, Drawn} ELSE {Drawn, Resized}]

(* Compression changes every colour a little. *)
Lossy == [c \in Colours |-> c + 10]
=============================================================================

--------------------------- MODULE MCInputStream ---------------------------
(* Instances of InputStream for TLC. *)
EXTENDS InputStream

CONSTANTS k1, k2, p1, shift, left, f13

(* The second keyboard's keymap lacks the key. *)
PoorKeymap == {<<k2, shift>>}
=============================================================================

---------------------------- MODULE ScreenMirror ----------------------------
(***************************************************************************)
(* What a session promises about the picture: the viewer sees screenshots  *)
(* of the host's monitors, each one whole, in the order they were taken,   *)
(* none left out while the connection lasts.  How a screenshot travels (in *)
(* full or as the tiles that changed, through a channel, a task and a      *)
(* stream per frame) is not said here; MediaStream implements it.          *)
(***************************************************************************)
EXTENDS Naturals, Sequences

CONSTANTS
    Monitors,   \* the host's monitors
    Pictures,   \* what a monitor may show
    Image,      \* Image[p]: picture p as the codec reproduces it
    None        \* the viewer has no picture

VARIABLES
    screen,     \* screen[m]: what monitor m shows
    pending,    \* the screenshots on their way, oldest first
    picture     \* the screenshot the viewer displays

vars == <<screen, pending, picture>>

Screenshot(m) == [mon |-> m, image |-> Image[screen[m]]]

Init ==
    /\ screen \in [Monitors -> Pictures]
    /\ pending = <<>>
    /\ picture = None

Change ==
    /\ screen' \in [Monitors -> Pictures]
    /\ UNCHANGED <<pending, picture>>

Take ==
    /\ \E m \in Monitors : pending' = Append(pending, Screenshot(m))
    /\ UNCHANGED <<screen, picture>>

Show ==
    /\ pending # <<>>
    /\ picture' = Head(pending)
    /\ pending' = Tail(pending)
    /\ UNCHANGED screen

(* The connection or a task of the host ends: the newest ones are lost. *)
Lose ==
    /\ \E n \in 0 .. Len(pending) : pending' = [i \in 1 .. n |-> pending[i]]
    /\ UNCHANGED <<screen, picture>>

(* Another viewer, with no picture yet. *)
Restart ==
    /\ pending' = <<>>
    /\ picture' = None
    /\ UNCHANGED screen

Next == Change \/ Take \/ Show \/ Lose \/ Restart

Spec == Init /\ [][Next]_vars
=============================================================================

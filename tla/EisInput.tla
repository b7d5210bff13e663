------------------------------ MODULE EisInput ------------------------------
(***************************************************************************)
(* The EIS client thread of the Wayland backend (wayland-portal,           *)
(* backend/eis_input.rs) and the compositor it talks to: the handshake,    *)
(* the devices that appear, pause, resume and disappear, the commands that *)
(* wait in `pending` while no device can take them, and the teardown.      *)
(*                                                                         *)
(* A command presses or releases an item, a key or a mouse button.  Motion *)
(* and scroll steps take the same way and leave no item down: they are     *)
(* left out.  can_apply only looks at the class of a command and           *)
(* flush_pending keeps the order, so the one Vec `pending` is kept here as *)
(* one sequence per class of command.                                      *)
(*                                                                         *)
(* The compositor is outside the repository.  It is taken to behave as the *)
(* ei protocol says: it ignores what is sent to a device that is not       *)
(* resumed, a device it upsets or removes lets its items go, a client that *)
(* disconnects takes its devices with it.  And it offers one device of a   *)
(* class at a time.                                                        *)
(***************************************************************************)
EXTENDS Naturals, Sequences

CONSTANTS
    Keys, Buttons,          \* the items: keysyms and evdev button codes
    Keyboards, Pointers,    \* the devices the compositor may announce
    Lacks,                  \* <<d, i>>: d's keymap or interfaces lack item i
    NoDevice,               \* the None of `pointer`, `keyboard` and `keymap`
    NoItem,                 \* the item of a Shutdown, which carries none
    MaxUpsets,              \* bound: how often the compositor takes a device away
    MaxEvents               \* bound: events on the socket the client has not read

Items == Keys \cup Buttons
Devices == Keyboards \cup Pointers
Classes == {"keyboard", "pointer"}

ASSUME EisAssumption ==
    /\ Keys \cap Buttons = {}
    /\ Keyboards \cap Pointers = {}
    /\ Lacks \subseteq Devices \X Items
    /\ NoDevice \notin Devices
    /\ NoItem \notin Items
    /\ MaxUpsets \in Nat /\ MaxEvents \in Nat

VARIABLES
    \* the compositor
    dev,        \* dev[d]: "unknown", "paused", "live" or "gone"
    down,       \* the items that are down on the host's desktop
    upsets,     \* how often it paused or removed one or hung up, for the bound
    link,       \* how far the client's ei connection is
    events,     \* its events to the client, in order
    \* the client, struct State
    eis,        \* the EIS thread: "off", "running" or "done"
    use,        \* use[c]: the device State::pointer or State::keyboard holds
    emulating,  \* emulating[c]: the flag of that device
    keymap,     \* the keyboard whose keymap was loaded
    pending,    \* pending[c]: the commands of class c that wait
    calls       \* the calloop channel of Msg, CmdSender -> Channel

compositorVars == <<dev, upsets, link, events>>
clientVars == <<eis, use, emulating, keymap, pending>>
eisVars == <<compositorVars, down, clientVars, calls>>

Command == [item : Items, press : BOOLEAN]
Shutdown == [item |-> NoItem, press |-> FALSE]
Event == [kind : {"device", "resumed", "paused"}, dev : Devices]

ClassOf(i) == IF i \in Keys THEN "keyboard" ELSE "pointer"
DeviceClass(d) == IF d \in Keyboards THEN "keyboard" ELSE "pointer"
DevicesOf(c) == {d \in Devices : DeviceClass(d) = c}
ItemsOf(c) == {i \in Items : ClassOf(i) = c}

(***************************************************************************)
(* What the desktop sees of a run of commands.                             *)
(***************************************************************************)

(* The items that are down once all of cs took effect, D being down before *)
(* it: the last command about an item decides.                             *)
After(D, cs) ==
    {i \in Items :
        \/ i \in D /\ \A n \in DOMAIN cs : cs[n].item # i
        \/ \E n \in DOMAIN cs :
              /\ cs[n].item = i /\ cs[n].press
              /\ \A m \in DOMAIN cs : m > n => cs[m].item # i}

(* Device d carries out commands about item i, translated with keymap m:   *)
(* d is live, and d, or the keymap for a key, has the item.                *)
Takes(i, d, m) ==
    /\ d # NoDevice /\ dev[d] = "live"
    /\ LET by == IF i \in Keys THEN m ELSE d
       IN  by # NoDevice /\ <<by, i>> \notin Lacks

(* State::apply for the commands cs, all of class c.                       *)
Applied(cs, c, m) ==
    {i \in Items : IF ClassOf(i) = c /\ Takes(i, use[c], m)
                   THEN i \in After(down, cs) ELSE i \in down}

(* State::can_apply *)
CanApply(c) == emulating[c] /\ (c = "keyboard" => keymap # NoDevice)

Init ==
    /\ dev = [d \in Devices |-> "unknown"] /\ down = {} /\ upsets = 0
    /\ link = "closed" /\ events = <<>>
    /\ eis = "off"
    /\ use = [c \in Classes |-> NoDevice]
    /\ emulating = [c \in Classes |-> FALSE]
    /\ keymap = NoDevice
    /\ pending = [c \in Classes |-> <<>>]
    /\ calls = <<>>

-----------------------------------------------------------------------------
(* The compositor. *)

Send(kind, d) ==
    /\ Len(events) < MaxEvents
    /\ events' = Append(events, [kind |-> kind, dev |-> d])

LetGo(d) == down' = down \ ItemsOf(DeviceClass(d))

(* seat.device, device.interface, keyboard.keymap and device.done go out   *)
(* together and are one event here.                                        *)
Announce(d) ==
    /\ link = "bound" /\ dev[d] = "unknown"
    /\ \A e \in DevicesOf(DeviceClass(d)) : dev[e] \in {"unknown", "gone"}
    /\ dev' = [dev EXCEPT ![d] = "paused"]
    /\ Send("device", d)
    /\ UNCHANGED <<down, upsets, link, clientVars, calls>>

ResumeDevice(d) ==
    /\ dev[d] = "paused"
    /\ dev' = [dev EXCEPT ![d] = "live"]
    /\ Send("resumed", d)
    /\ UNCHANGED <<down, upsets, link, clientVars, calls>>

PauseDevice(d) ==
    /\ dev[d] = "live" /\ upsets < MaxUpsets
    /\ dev' = [dev EXCEPT ![d] = "paused"]
    /\ upsets' = upsets + 1
    /\ LetGo(d)
    /\ Send("paused", d)
    /\ UNCHANGED <<link, clientVars, calls>>

(* The client does not look at device.destroyed.                           *)
RemoveDevice(d) ==
    /\ dev[d] \in {"paused", "live"} /\ upsets < MaxUpsets
    /\ dev' = [dev EXCEPT ![d] = "gone"]
    /\ upsets' = upsets + 1
    /\ LetGo(d)
    /\ UNCHANGED <<link, events, clientVars, calls>>

(* The user ends the sharing in the desktop's own menu, or the compositor  *)
(* ends: the socket is closed.                                             *)
HangUp ==
    /\ eis = "running" /\ link # "closed" /\ upsets < MaxUpsets
    /\ link' = "closed"
    /\ upsets' = upsets + 1
    /\ dev' = [d \in Devices |-> "gone"] /\ down' = {}
    /\ UNCHANGED <<events, clientVars, calls>>

CompositorStep ==
    \/ \E d \in Devices : Announce(d) \/ ResumeDevice(d) \/ PauseDevice(d)
                          \/ RemoveDevice(d)
    \/ HangUp

-----------------------------------------------------------------------------
(* The EIS thread. *)

(* spawn, on the socket the portal handed out *)
StartEis == eis' = "running" /\ link' = "new"

(* The handshake, the seat's capabilities and its Done: the client binds   *)
(* those it wants, and nothing when the seat has none of them.             *)
Bind ==
    /\ eis = "running" /\ link = "new"
    /\ link' \in {"bound", "unbound"}
    /\ UNCHANGED <<dev, down, upsets, events, clientVars, calls>>

(* The events below reach a client whose connection still stands.          *)
Receives(kind, d) ==
    /\ eis = "running" /\ link # "closed" /\ events # <<>>
    /\ Head(events) = [kind |-> kind, dev |-> d]
    /\ events' = Tail(events)
    /\ UNCHANGED <<dev, upsets, link, eis, calls>>

(* flush_pending, for the class that can be applied since this step.       *)
Flush(c, m) ==
    /\ pending' = [pending EXCEPT ![c] = <<>>]
    /\ down' = Applied(pending[c], c, m)

(* finish_device: the new device takes the place of the former one.        *)
FinishDevice(c, d) ==
    /\ use' = [use EXCEPT ![c] = d]
    /\ emulating' = [emulating EXCEPT ![c] = FALSE]

OnPointer(d) ==
    /\ d \in Pointers
    /\ Receives("device", d)
    /\ FinishDevice("pointer", d)
    /\ UNCHANGED <<down, keymap, pending>>

(* load_keymap, and a keymap that does not compile: the former one, if     *)
(* any, stays.                                                             *)
OnKeyboard(d) ==
    /\ d \in Keyboards
    /\ Receives("device", d)
    /\ FinishDevice("keyboard", d)
    /\ \/ /\ keymap' = d
          /\ IF emulating["keyboard"] THEN Flush("keyboard", d)
             ELSE UNCHANGED <<down, pending>>
       \/ UNCHANGED <<down, keymap, pending>>

ResumeKeepsPending(d) ==
    /\ Receives("resumed", d)
    /\ emulating' = IF use[DeviceClass(d)] = d
                    THEN [emulating EXCEPT ![DeviceClass(d)] = TRUE] ELSE emulating
    /\ UNCHANGED <<down, pending, use, keymap>>

Resume(d) ==
    LET c == DeviceClass(d)
        starts == use[c] = d /\ ~emulating[c]
    IN  /\ Receives("resumed", d)
        /\ emulating' = IF starts THEN [emulating EXCEPT ![c] = TRUE] ELSE emulating
        /\ IF starts /\ (c = "keyboard" => keymap # NoDevice)
           THEN Flush(c, keymap)
           ELSE UNCHANGED <<down, pending>>
        /\ UNCHANGED <<use, keymap>>

Paused(d) ==
    LET c == DeviceClass(d)
    IN  /\ Receives("paused", d)
        /\ emulating' = IF use[c] = d THEN [emulating EXCEPT ![c] = FALSE] ELSE emulating
        /\ UNCHANGED <<down, use, keymap, pending>>

(* on_input *)
OnInput ==
    /\ eis = "running" /\ calls # <<>> /\ Head(calls) # Shutdown
    /\ LET cmd == Head(calls)
           c == ClassOf(cmd.item)
       IN  IF CanApply(c)
           THEN down' = Applied(<<cmd>>, c, keymap) /\ UNCHANGED pending
           ELSE pending' = [pending EXCEPT ![c] = Append(@, cmd)] /\ UNCHANGED down
    /\ calls' = Tail(calls)
    /\ UNCHANGED <<compositorVars, eis, use, emulating, keymap>>

(* Shutdown, or a socket that can no longer be read; then teardown: stop   *)
(* emulating and disconnect, with what still waits in the channel.         *)
Teardown ==
    /\ eis = "running"
    /\ link = "closed" \/ (calls # <<>> /\ Head(calls) = Shutdown)
    /\ eis' = "done" /\ link' = "closed"
    /\ emulating' = [c \in Classes |-> FALSE]
    /\ pending' = [c \in Classes |-> <<>>]
    /\ calls' = <<>> /\ events' = <<>>
    /\ dev' = [d \in Devices |-> "gone"] /\ down' = {}
    /\ UNCHANGED <<upsets, use, keymap>>

OnReadable ==
    \/ Bind
    \/ \E d \in Devices : OnPointer(d) \/ OnKeyboard(d) \/ Resume(d) \/ Paused(d)

ClientStep == OnReadable \/ OnInput \/ Teardown
=============================================================================

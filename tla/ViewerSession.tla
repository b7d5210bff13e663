---------------------------- MODULE ViewerSession ----------------------------
(***************************************************************************)
(* The viewer: its panel in the webview (viewer_panel.rs and screen.js),   *)
(* the commands connect_viewer, viewer_input and viewer_disconnect, the    *)
(* pinning of host identities, and the tasks and threads of each session:  *)
(* the input, control and media tasks of session-viewer, the event pump    *)
(* and the frame pump.                                                     *)
(*                                                                         *)
(* Each click on "Conectar" (or Enter in the code field, which the button's *)
(* `disabled` does not stop) is an attempt with all of these of its own;   *)
(* the panel, the slot of the active viewer and the store are shared.      *)
(*                                                                         *)
(* Outside: the hosts, which may be set up anew or change their address,   *)
(* so that a target is another host than before, and the connection, which *)
(* ends for all of a session's streams at once.                            *)
(***************************************************************************)
EXTENDS Naturals, FiniteSets

CONSTANTS
    LanTargets, InternetTargets,    \* peer keys "lan:..." and "rendezvous:..."
    Ids,                            \* fingerprints and "iroh:..." identities
    First,                          \* First[t]: the host that target t reaches at first
    NoId,                           \* no identity known
    NoTarget, NoAttempt,
    MaxAttempts,                    \* bound: attempts to connect
    MaxMoves                        \* bound: how often a target becomes another host

Targets == LanTargets \cup InternetTargets
Attempts == 1..MaxAttempts

ASSUME ViewerAssumption ==
    /\ LanTargets \cap InternetTargets = {}
    /\ First \in [Targets -> Ids] /\ NoId \notin Ids /\ NoTarget \notin Targets
    /\ MaxAttempts \in Nat /\ NoAttempt \notin Attempts
    /\ MaxMoves \in Nat

VARIABLES
    identity,   \* identity[t]: the host that target t reaches
    moves,      \* how often that changed, for the bound
    pins,       \* the table known_host
    \* the panel
    phase,      \* "idle" (Idle and Failed), "connecting" or "active"
    screen,     \* the attempt of `handle`
    heard,      \* the attempt whose events get through to the panel
    waiting,    \* the attempts whose invoke this life of the panel waits for
    \* the command connect_viewer of attempt a
    clicks,     \* the number of attempts so far
    target,     \* target[a]
    pc,         \* pc[a]: what the command does next, see `Progress`
    known,      \* known[a]: the identity the store had for the target, a local
    peer,       \* peer[a]: the identity looked up, then the one connected to
    reply,      \* reply[a]: its answer: "none" yet, "ok" or "error"
    \* the session of attempt a
    slot,       \* ViewerSlot: the attempt whose ActiveViewer is in it
    conn,       \* conn[a]: the connection: "none", "open" or "closed"
    tasks,      \* tasks[a]: those of session-viewer that run
    queue,      \* queue[a]: the input channel: user input, then "bye", Disconnect
    events,     \* events[a]: the Disconnected events in the event channel
    pump,       \* the attempts whose pump_events runs
    frames,     \* the attempts whose frame pump draws: it runs, and its
                \* stop_frames is not set (the thread looks at each frame)
    told        \* the attempts whose Disconnected is on its way to the webview

worldVars == <<identity, moves>>
panelVars == <<phase, screen, heard, waiting>>
commandVars == <<clicks, target, known, peer>>
taskVars == <<tasks, queue, events>>
vars == <<worldVars, pins, panelVars, commandVars, pc, reply, slot, conn, taskVars,
          pump, frames, told>>

Progress == {"none", "begin", "look up", "dial", "authenticate", "remember",
             "publish", "done"}

Init ==
    /\ identity = First /\ moves = 0
    /\ pins = [t \in Targets |-> NoId]
    /\ phase = "idle" /\ screen = NoAttempt /\ heard = NoAttempt /\ waiting = {}
    /\ clicks = 0
    /\ target = [a \in Attempts |-> NoTarget]
    /\ pc = [a \in Attempts |-> "none"]
    /\ known = [a \in Attempts |-> NoId]
    /\ peer = [a \in Attempts |-> NoId]
    /\ reply = [a \in Attempts |-> "none"]
    /\ slot = NoAttempt
    /\ conn = [a \in Attempts |-> "none"]
    /\ tasks = [a \in Attempts |-> {}]
    /\ queue = [a \in Attempts |-> {}]
    /\ events = [a \in Attempts |-> 0]
    /\ pump = {} /\ frames = {} /\ told = {}

(* A target becomes another host: it was installed anew, or its address or *)
(* its rendezvous id was given to another.                                 *)
Move(t) ==
    /\ moves < MaxMoves
    /\ moves' = moves + 1
    /\ \E id \in Ids \ {identity[t]} : identity' = [identity EXCEPT ![t] = id]
    /\ UNCHANGED <<pins, panelVars, commandVars, pc, reply, slot, conn, taskVars,
                   pump, frames, told>>

-----------------------------------------------------------------------------
(* The panel. *)

(* connectScreen sets up the channels and invokes the command.             *)
ConnectScreen(a, t) ==
    /\ target' = [target EXCEPT ![a] = t]
    /\ pc' = [pc EXCEPT ![a] = "begin"]
    /\ waiting' = waiting \cup {a}

(* `connect`: the box with the code and the button is there in every phase *)
(* but Active.                                                             *)
Click(t) ==
    /\ phase # "active" /\ clicks < MaxAttempts
    /\ phase' = "connecting"
    /\ clicks' = clicks + 1
    /\ ConnectScreen(clicks', t)
    /\ UNCHANGED <<worldVars, pins, screen, heard, known, peer, reply, slot, conn,
                   taskVars, pump, frames, told>>

(* The invoke resolves.  The former handle and event closure, if any, are  *)
(* dropped.  A panel that is gone by now has nothing to set.               *)
Resolve(a) ==
    /\ a \in waiting /\ reply[a] # "none"
    /\ waiting' = waiting \ {a}
    /\ IF reply[a] = "ok" THEN phase' = "active" /\ screen' = a /\ heard' = a
       ELSE phase' = "idle" /\ UNCHANGED <<screen, heard>>
    /\ UNCHANGED <<worldVars, pins, commandVars, pc, reply, slot, conn, taskVars, pump,
                   frames, told>>

(* Disconnected arrives.  The closure it goes to lives in the future of    *)
(* `connect` until the invoke resolves, then in event_closure until the    *)
(* next one replaces it; a handle that was disposed of passes nothing on.  *)
Hear(a) ==
    /\ a \in told
    /\ told' = told \ {a}
    /\ IF a \in waiting \cup {heard}
       THEN screen' = NoAttempt /\ phase' = "idle"
       ELSE UNCHANGED <<screen, phase>>
    /\ UNCHANGED <<worldVars, pins, heard, waiting, commandVars, pc, reply, slot, conn,
                   taskVars, pump, frames>>

(* Drop for ActiveViewer *)
DropActiveKeepsFrames == slot' = NoAttempt /\ UNCHANGED frames
DropActive == slot' = NoAttempt /\ frames' = frames \ {slot}

(* ScreenHandle.disconnect() and viewer_disconnect, which ends whatever is *)
(* in the slot.                                                            *)
Disconnect ==
    IF screen = NoAttempt THEN UNCHANGED <<slot, frames, queue>>
    ELSE /\ DropActive
         /\ queue' = [a \in Attempts |-> IF a = slot /\ "input" \in tasks[a]
                                         THEN queue[a] \cup {"bye"} ELSE queue[a]]

(* The handle is disposed of: nothing gets through to the panel any more.  *)
Dispose == screen' = NoAttempt /\ heard' = NoAttempt

(* "Desconectar"                                                           *)
ClickDisconnect ==
    /\ phase = "active"
    /\ Disconnect /\ Dispose
    /\ phase' = "idle"
    /\ UNCHANGED <<worldVars, pins, waiting, commandVars, pc, reply, conn, tasks, events,
                   pump, told>>

(* The user goes to another screen and may come back: on_cleanup, and a    *)
(* new component.                                                          *)
Leave ==
    /\ Disconnect /\ Dispose
    /\ phase' = "idle" /\ waiting' = {}
    /\ UNCHANGED <<worldVars, pins, commandVars, pc, reply, conn, tasks, events, pump, told>>

(* viewer_input and viewer_select_monitor.  What is sent over a connection *)
(* that stands reaches the host and changes nothing here.                  *)
Input ==
    /\ slot # NoAttempt /\ "input" \in tasks[slot] /\ conn[slot] = "closed"
    /\ queue' = [queue EXCEPT ![slot] = @ \cup {"input"}]
    /\ UNCHANGED <<worldVars, pins, panelVars, commandVars, pc, reply, slot, conn, tasks,
                   events, pump, frames, told>>

PanelStep ==
    \/ \E t \in Targets : Click(t)
    \/ \E a \in Attempts : Resolve(a) \/ Hear(a)
    \/ ClickDisconnect \/ Leave \/ Input

-----------------------------------------------------------------------------
(* connect_viewer. *)

Goes(a, step) == pc' = [pc EXCEPT ![a] = step]

(* The command answers, and its locals are gone.                           *)
Returns(a, answer) ==
    /\ Goes(a, "done")
    /\ reply' = [reply EXCEPT ![a] = answer]
    /\ target' = [target EXCEPT ![a] = NoTarget]
    /\ known' = [known EXCEPT ![a] = NoId]
    /\ peer' = [peer EXCEPT ![a] = NoId]

(* An error is returned, by whatever fails first.                          *)
Fail(a) ==
    /\ pc[a] \in {"begin", "look up", "dial", "authenticate", "remember"}
    /\ IF pc[a] = "begin" THEN DropActive ELSE UNCHANGED <<slot, frames>>
    /\ Returns(a, "error")
    /\ UNCHANGED <<worldVars, pins, panelVars, clicks, conn, taskVars, pump, told>>

(* The slot is emptied, and expected_fingerprint reads the store, when the *)
(* target is of the LAN.                                                   *)
Begin(a) ==
    /\ pc[a] = "begin"
    /\ DropActive
    /\ IF target[a] \in InternetTargets
       THEN Goes(a, "look up") /\ UNCHANGED known
       ELSE Goes(a, "dial") /\ known' = [known EXCEPT ![a] = pins[target[a]]]
    /\ UNCHANGED <<worldVars, pins, panelVars, clicks, target, peer, reply, conn, taskVars,
                   pump, told>>

(* TofuVerifier and expected_iroh_identity                                 *)
MatchesAny(pin, id) == TRUE
Matches(pin, id) == pin \in {NoId, id}

(* The rendezvous server answers, and expected_iroh_identity compares with *)
(* the store.                                                              *)
LookUp(a) ==
    /\ pc[a] = "look up"
    /\ Matches(pins[target[a]], identity[target[a]])
    /\ known' = [known EXCEPT ![a] = pins[target[a]]]
    /\ peer' = [peer EXCEPT ![a] = identity[target[a]]]
    /\ Goes(a, "dial")
    /\ UNCHANGED <<worldVars, pins, panelVars, clicks, target, reply, slot, conn, taskVars,
                   pump, frames, told>>

(* verify_server_cert compares the certificate with the fingerprint read   *)
(* before, if any, and keeps it.                                           *)
DialLan(a) ==
    /\ target[a] \notin InternetTargets
    /\ Matches(known[a], identity[target[a]])
    /\ peer' = [peer EXCEPT ![a] = identity[target[a]]]

(* Iroh reaches the endpoint that was looked up, or none.                  *)
DialInternet(a) ==
    /\ target[a] \in InternetTargets
    /\ peer[a] = identity[target[a]] /\ UNCHANGED peer

Dial(a) ==
    /\ pc[a] = "dial"
    /\ DialLan(a) \/ DialInternet(a)
    /\ Goes(a, "authenticate")
    /\ UNCHANGED <<worldVars, pins, panelVars, clicks, target, known, reply, slot, conn,
                   taskVars, pump, frames, told>>

(* connect_over: the host accepts, and the session's tasks are spawned.    *)
Authenticate(a) ==
    /\ pc[a] = "authenticate"
    /\ conn' = [conn EXCEPT ![a] = "open"]
    /\ tasks' = [tasks EXCEPT ![a] = {"input", "control", "media"}]
    /\ Goes(a, "remember")
    /\ UNCHANGED <<worldVars, pins, panelVars, commandVars, reply, slot, queue, events,
                   pump, frames, told>>

(* remember_host, which inserts or overwrites, and spawn_frame_pump.       *)
Remember(a) ==
    /\ pc[a] = "remember"
    /\ pins' = [pins EXCEPT ![target[a]] = peer[a]]
    /\ frames' = frames \cup {a}
    /\ Goes(a, "publish")
    /\ UNCHANGED <<worldVars, panelVars, commandVars, reply, slot, conn, taskVars, pump, told>>

(* The slot takes the new ActiveViewer and drops the one another attempt   *)
(* has put there meanwhile; pump_events is spawned; Ok is returned.        *)
Publish(a) ==
    /\ pc[a] = "publish"
    /\ slot' = a
    /\ frames' = frames \ {slot}
    /\ pump' = pump \cup {a}
    /\ Returns(a, "ok")
    /\ UNCHANGED <<worldVars, pins, panelVars, clicks, conn, taskVars, told>>

Command(a) ==
    \/ Begin(a) \/ LookUp(a) \/ Dial(a) \/ Authenticate(a)
    \/ Remember(a) \/ Publish(a) \/ Fail(a)

-----------------------------------------------------------------------------
(* The tasks and threads of a session. *)

(* The ViewerHandle, with an input sender and the event receiver: first    *)
(* the command has it, then pump_events.                                   *)
HasHandle(a) == pc[a] \in {"remember", "publish"} \/ a \in pump

(* A task ends with Disconnected, which nobody sees without a handle.      *)
Disconnected(a, task) ==
    /\ tasks' = [tasks EXCEPT ![a] = @ \ {task}]
    /\ events' = IF HasHandle(a) THEN [events EXCEPT ![a] = @ + 1] ELSE events

(* spawn_input_task: what is queued is sent, or fails to be; the host gets *)
(* a Disconnect, or the end of the stream once no sender is left.          *)
SendBye(a) ==
    /\ "bye" \in queue[a] /\ conn[a] = "open"
    /\ queue' = [queue EXCEPT ![a] = {}]
    /\ UNCHANGED <<tasks, events>>

SendFailsGoesOn(a) ==
    /\ queue[a] # {} /\ conn[a] = "closed"
    /\ queue' = [queue EXCEPT ![a] = {}]
    /\ events' = IF HasHandle(a) THEN [events EXCEPT ![a] = @ + 1] ELSE events
    /\ UNCHANGED tasks

SendFails(a) ==
    /\ queue[a] # {} /\ conn[a] = "closed"
    /\ queue' = [queue EXCEPT ![a] = {}]
    /\ Disconnected(a, "input")

NoSender(a) ==
    /\ queue[a] = {} /\ slot # a /\ ~HasHandle(a)
    /\ tasks' = [tasks EXCEPT ![a] = @ \ {"input"}]
    /\ UNCHANGED <<queue, events>>

InputTask(a) ==
    /\ "input" \in tasks[a]
    /\ SendBye(a) \/ SendFails(a) \/ NoSender(a)
    /\ UNCHANGED <<worldVars, pins, panelVars, commandVars, pc, reply, slot, conn, pump, frames,
                   told>>

(* spawn_control_task and spawn_media_task, which read until they cannot:  *)
(* the connection is closed, or a frame is longer than recv_media reads.   *)
Reader(a, task) ==
    /\ task \in tasks[a]
    /\ conn[a] = "closed" \/ task = "media"
    /\ Disconnected(a, task)
    /\ UNCHANGED <<worldVars, pins, panelVars, commandVars, pc, reply, slot, conn, queue,
                   pump, frames, told>>

(* The host ends the session, or the network does.                         *)
Close(a) ==
    /\ conn[a] = "open"
    /\ conn' = [conn EXCEPT ![a] = "closed"]
    /\ UNCHANGED <<worldVars, pins, panelVars, commandVars, pc, reply, slot, taskVars,
                   pump, frames, told>>

(* pump_events: the first Disconnected is passed on and ends it, and the   *)
(* handle is dropped.  Other events only change what the panel writes.     *)
PumpKeepsFrames(a) ==
    /\ a \in pump /\ events[a] > 0
    /\ told' = told \cup {a}
    /\ pump' = pump \ {a}
    /\ events' = [events EXCEPT ![a] = 0]
    /\ UNCHANGED <<worldVars, pins, panelVars, commandVars, pc, reply, slot, conn, tasks,
                   queue, frames>>

Pump(a) ==
    /\ a \in pump /\ events[a] > 0
    /\ told' = told \cup {a}
    /\ pump' = pump \ {a}
    /\ events' = [events EXCEPT ![a] = 0]
    /\ frames' = frames \ {a}
    /\ UNCHANGED <<worldVars, pins, panelVars, commandVars, pc, reply, slot, conn, tasks,
                   queue>>

SessionStep(a) ==
    \/ InputTask(a) \/ Reader(a, "control") \/ Reader(a, "media") \/ Close(a)
    \/ Pump(a)

Next ==
    \/ \E t \in Targets : Move(t)
    \/ PanelStep
    \/ \E a \in Attempts : Command(a) \/ SessionStep(a)

Spec == Init /\ [][Next]_vars

-----------------------------------------------------------------------------
(* Every variable keeps its type, and no more events wait than the three   *)
(* tasks that send Disconnected.                                           *)
TypeOK ==
    /\ identity \in [Targets -> Ids] /\ moves \in 0..MaxMoves
    /\ pins \in [Targets -> Ids \cup {NoId}]
    /\ phase \in {"idle", "connecting", "active"}
    /\ screen \in Attempts \cup {NoAttempt} /\ heard \in Attempts \cup {NoAttempt}
    /\ waiting \subseteq Attempts
    /\ clicks \in 0..MaxAttempts
    /\ target \in [Attempts -> Targets \cup {NoTarget}]
    /\ pc \in [Attempts -> Progress]
    /\ known \in [Attempts -> Ids \cup {NoId}] /\ peer \in [Attempts -> Ids \cup {NoId}]
    /\ reply \in [Attempts -> {"none", "ok", "error"}]
    /\ slot \in Attempts \cup {NoAttempt}
    /\ conn \in [Attempts -> {"none", "open", "closed"}]
    /\ tasks \in [Attempts -> SUBSET {"input", "control", "media"}]
    /\ queue \in [Attempts -> SUBSET {"input", "bye"}]
    /\ events \in [Attempts -> 0..3]
    /\ pump \subseteq Attempts /\ frames \subseteq Attempts /\ told \subseteq Attempts

(* Of all the attempts that overlap, frames are only drawn of the session  *)
(* that gets the input, and of one that is about to.                       *)
OnePicture == \A a \in frames : slot = a \/ pc[a] = "publish"

(* Nothing of a session lingers: when its connection is closed, its answer *)
(* given and no step of it is left, then both pumps and all tasks have     *)
(* ended, the input task once another session or nobody is in the slot;    *)
(* and none of it stops before, waiting for what does not come.            *)
CanStep(a) ==
    \/ "input" \in tasks[a] /\ (queue[a] # {} \/ (slot # a /\ ~HasHandle(a)))
    \/ tasks[a] \cap {"control", "media"} # {}
    \/ a \in pump /\ events[a] > 0

NothingLingers == \A a \in Attempts :
    conn[a] = "closed" /\ pc[a] = "done" /\ ~CanStep(a) =>
        /\ a \notin pump \cup frames
        /\ tasks[a] \subseteq (IF slot = a THEN {"input"} ELSE {})

(* The identities that are kept: whatever attempts overlap, a session only *)
(* starts with the host that was known when its attempt asked, or with any *)
(* if none was (docs/protocol.md, "Pinning de identidade do alvo").        *)
Stage(a) ==
    CASE pc[a] \in {"none", "begin", "look up"} -> "out"
      [] pc[a] \in {"dial", "authenticate", "remember"} -> "asking"
      [] pc[a] = "publish" -> "in"
      [] pc[a] = "done" -> "over"

Trust == INSTANCE TrustOnFirstUse WITH
    stage <- [a \in Attempts |-> Stage(a)],
    asks <- [a \in Attempts |-> IF Stage(a) = "out" THEN NoTarget ELSE target[a]],
    basis <- known

KeepsTrust == Trust!Spec
=============================================================================

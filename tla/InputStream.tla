----------------------------- MODULE InputStream -----------------------------
(***************************************************************************)
(* The viewer's keys and buttons on their way to the host's desktop, over  *)
(* the sessions of one host that is started and stopped once: the choice   *)
(* of the backend and the portal session (build_backend, PortalHandle),    *)
(* the control loop that puts input in a channel, the injection thread of  *)
(* each session (session-host), which nobody joins, and the two injectors  *)
(* (PortalInjector of wayland-portal, EnigoInjector of input).  EisInput   *)
(* is the rest of the way on Wayland.                                      *)
(***************************************************************************)
EXTENDS EisInput

CONSTANTS
    Mute,           \* the keys to_keysym and to_key know no code for
    MaxSessions,    \* bound: sessions, one after the other
    MaxInputs       \* bound: input messages the viewers send

ASSUME InputAssumption ==
    /\ Mute \subseteq Keys
    /\ MaxSessions \in Nat /\ MaxInputs \in Nat

Sessions == 1..MaxSessions

VARIABLES
    host,       \* the host: what it does, or how far PortalHandle::drop is
    backend,    \* "none" until build_backend chose "portal" or "enigo"
    portal,     \* the portal session: "none", "open" or "closed"
    capture,    \* the PipeWire thread: "off", "running" or "ended"
    open,       \* a session's control loop runs
    session,    \* the number of the latest session
    sent,       \* the input messages so far, for the bound
    chan,       \* chan[s]: the crossbeam channel of session s
    injection,  \* injection[s]: "none", "running" or "done"
    held        \* held[s]: held_keys and held_buttons of its injector

hostVars == <<host, backend, portal, capture>>
loopVars == <<open, session, sent>>
threadVars == <<chan, injection, held>>
vars == <<eisVars, hostVars, loopVars, threadVars>>

(* A channel's entries: InputAction::Key and Button with press or release, *)
(* and Text, of one character.                                             *)
Input == [item : Items, act : {"press", "release", "type"}]

InputInit ==
    /\ Init
    /\ host = "asking" /\ backend = "none" /\ portal = "none" /\ capture = "off"
    /\ open = FALSE /\ session = 0 /\ sent = 0
    /\ chan = [s \in Sessions |-> <<>>]
    /\ injection = [s \in Sessions |-> "none"]
    /\ held = [s \in Sessions |-> {}]

-----------------------------------------------------------------------------
(* build_backend and PortalHandle::new: the user consents, the portal task *)
(* hands out the PipeWire and EIS sockets, both threads are spawned.       *)
Consent ==
    /\ host = "asking"
    /\ host' = "serving" /\ backend' = "portal" /\ portal' = "open"
    /\ capture' = "running"
    /\ StartEis
    /\ UNCHANGED <<dev, down, upsets, events, use, emulating, keymap, pending, calls,
                   loopVars, threadVars>>

(* setup_session fails at one of its calls: the fallback to enigo, which   *)
(* is also the only backend of a build without the portal.                 *)
Fallback ==
    /\ host = "asking"
    /\ host' = "serving" /\ backend' = "enigo"
    /\ UNCHANGED <<eisVars, portal, capture, loopVars, threadVars>>

(* stream_and_control reaches spawn_injection.  PortalHandle::injector     *)
(* cannot fail; EnigoInjector::new can, and the thread returns.            *)
BeginSession ==
    /\ host = "serving" /\ ~open /\ session < MaxSessions
    /\ open' = TRUE /\ session' = session + 1
    /\ \E started \in {"running", "done"} :
          /\ backend = "portal" => started = "running"
          /\ injection' = [injection EXCEPT ![session + 1] = started]
    /\ UNCHANGED <<eisVars, hostVars, sent, chan, held>>

(* control_loop receives a KeyEvent, a MouseButton or a Text.              *)
RecvInput(i, act) ==
    /\ open /\ sent < MaxInputs
    /\ act = "type" => i \in Keys
    /\ sent' = sent + 1
    /\ chan' = [chan EXCEPT ![session] = Append(@, [item |-> i, act |-> act])]
    /\ UNCHANGED <<eisVars, hostVars, open, session, injection, held>>

(* control_loop returns, for whatever reason, and input_tx is dropped.     *)
EndSession ==
    /\ open
    /\ open' = FALSE
    /\ UNCHANGED <<eisVars, hostVars, session, sent, threadVars>>

SenderAlive(s) == open /\ session = s

-----------------------------------------------------------------------------
(* The injection thread of session s. *)

(* PortalInjector::send; an error once the EIS thread dropped the channel. *)
SendCall(i, press) ==
    calls' = IF eis = "running" THEN Append(calls, [item |-> i, press |-> press]) ELSE calls

(* to_keysym, to_key and function_key have a code for the key.             *)
HasCodeAll(i) == TRUE
HasCode(i) == i \notin Mute

Holds(s, i, press) ==
    held' = [held EXCEPT ![s] = IF press THEN @ \cup {i} ELSE @ \ {i}]

Takeable(s) == injection[s] = "running" /\ chan[s] # <<>>

(* PortalInjector: `held` is updated before the command is sent.  A Text   *)
(* is a press and a release of each of its characters, in two steps: other *)
(* threads may send between them.                                          *)
PortalApply(s) ==
    /\ backend = "portal" /\ Takeable(s)
    /\ LET input == Head(chan[s])
           press == input.act # "release"
       IN  /\ IF HasCode(input.item)
              THEN Holds(s, input.item, press) /\ SendCall(input.item, press)
              ELSE UNCHANGED <<held, calls>>
           /\ chan' = [chan EXCEPT ![s] =
                 IF input.act = "type" /\ HasCode(input.item) /\ eis = "running"
                 THEN <<[item |-> input.item, act |-> "release"]>> \o Tail(@) ELSE Tail(@)]
    /\ UNCHANGED <<down, compositorVars, clientVars, hostVars, loopVars, injection>>

(* EnigoInjector: a key without a code and a failed call of enigo are      *)
(* errors that leave `held` alone; enigo.text leaves nothing down.         *)
EnigoApply(s) ==
    /\ backend = "enigo" /\ Takeable(s)
    /\ LET input == Head(chan[s])
           press == input.act = "press"
       IN  \/ /\ input.act # "type" /\ HasCode(input.item)
              /\ down' = IF press THEN down \cup {input.item} ELSE down \ {input.item}
              /\ Holds(s, input.item, press)
           \/ UNCHANGED <<down, held>>
    /\ chan' = [chan EXCEPT ![s] = Tail(@)]
    /\ UNCHANGED <<compositorVars, clientVars, calls, hostVars, loopVars, injection>>

(* The channel is closed and drained: release_all, one item after the      *)
(* other in an order left open.  `held` is here what is still to release.  *)
Drained(s) == injection[s] = "running" /\ chan[s] = <<>> /\ ~SenderAlive(s)

ReleaseOne(s) ==
    /\ Drained(s)
    /\ \E i \in held[s] :
          /\ Holds(s, i, FALSE)
          /\ IF backend = "portal" THEN SendCall(i, FALSE) /\ UNCHANGED down
             ELSE down' = down \ {i} /\ UNCHANGED calls
    /\ UNCHANGED <<compositorVars, clientVars, hostVars, loopVars, chan, injection>>

EndInjectionAtOnce(s) ==
    /\ Drained(s)
    /\ injection' = [injection EXCEPT ![s] = "done"]
    /\ UNCHANGED <<eisVars, hostVars, loopVars, chan, held>>

EndInjection(s) ==
    /\ Drained(s) /\ held[s] = {}
    /\ injection' = [injection EXCEPT ![s] = "done"]
    /\ UNCHANGED <<eisVars, hostVars, loopVars, chan, held>>

InjectionStep(s) ==
    \/ PortalApply(s) \/ EnigoApply(s) \/ ReleaseOne(s) \/ EndInjection(s)

-----------------------------------------------------------------------------
(* The host service ends and lets its factories go.                        *)
StopHost ==
    /\ host = "serving" /\ ~open
    /\ host' = "stopping"
    /\ UNCHANGED <<eisVars, backend, portal, capture, loopVars, threadVars>>

(* The last Arc of the portal is gone, the injection threads had one each: *)
(* PortalHandle::drop, which asks the PipeWire loop to quit ...            *)
DropPortal ==
    /\ host = "stopping"
    /\ \A s \in Sessions : injection[s] \in {"none", "done"}
    /\ host' = IF backend = "portal" THEN "joining capture" ELSE "stopped"
    /\ UNCHANGED <<eisVars, backend, portal, capture, loopVars, threadVars>>

(* run_loop returns, as it was asked to.  One that failed before makes no  *)
(* difference to the join.                                                 *)
CaptureEnds ==
    /\ host = "joining capture" /\ capture = "running"
    /\ capture' = "ended"
    /\ UNCHANGED <<eisVars, host, backend, portal, loopVars, threadVars>>

(* ... joins it, and sends Shutdown to the EIS thread, ...                 *)
StopEis ==
    /\ host = "joining capture" /\ capture = "ended"
    /\ host' = "joining eis"
    /\ calls' = IF eis = "running" THEN Append(calls, Shutdown) ELSE calls
    /\ UNCHANGED <<down, compositorVars, clientVars, backend, portal, capture,
                   loopVars, threadVars>>

(* ... joins that, signals the portal task ...                             *)
SignalTask ==
    /\ host = "joining eis" /\ eis = "done"
    /\ host' = "closing"
    /\ UNCHANGED <<eisVars, backend, portal, capture, loopVars, threadVars>>

(* portal_task: session.close().                                           *)
CloseSession ==
    /\ host \in {"closing", "stopped"} /\ portal = "open"
    /\ portal' = "closed"
    /\ UNCHANGED <<eisVars, host, backend, capture, loopVars, threadVars>>

(* ... and waits for it, two seconds at most: the wait also ends while the *)
(* session is still open.                                                  *)
WaitClosed ==
    /\ host = "closing"
    /\ host' = "stopped"
    /\ UNCHANGED <<eisVars, backend, portal, capture, loopVars, threadVars>>

HostStep ==
    \/ Consent \/ Fallback \/ StopHost \/ DropPortal \/ CaptureEnds \/ StopEis
    \/ SignalTask \/ CloseSession \/ WaitClosed

EisStep == (CompositorStep \/ ClientStep) /\ UNCHANGED <<hostVars, loopVars, threadVars>>

Next ==
    \/ BeginSession \/ EndSession
    \/ \E i \in Items, act \in {"press", "release", "type"} : RecvInput(i, act)
    \/ \E s \in Sessions : InjectionStep(s)
    \/ EisStep
    \/ HostStep

Spec == InputInit /\ [][Next]_vars

(* The threads run; a PipeWire loop that was asked to quit returns.  The   *)
(* compositor, the viewers and the user owe nothing.                       *)
Fairness ==
    /\ \A s \in Sessions : WF_vars(InjectionStep(s))
    /\ WF_vars(ClientStep /\ UNCHANGED <<hostVars, loopVars, threadVars>>)
    /\ WF_vars(DropPortal) /\ WF_vars(StopEis) /\ WF_vars(SignalTask) /\ WF_vars(WaitClosed)
    /\ WF_vars(CaptureEnds)

FairSpec == Spec /\ Fairness

-----------------------------------------------------------------------------
(* Every variable keeps its type, and an injector only ever holds what it  *)
(* has a key code for.                                                     *)
TypeOK ==
    /\ dev \in [Devices -> {"unknown", "paused", "live", "gone"}]
    /\ down \subseteq Items
    /\ upsets \in 0..MaxUpsets
    /\ link \in {"closed", "new", "unbound", "bound"}
    /\ events \in Seq(Event)
    /\ eis \in {"off", "running", "done"}
    /\ use \in [Classes -> Devices \cup {NoDevice}]
    /\ emulating \in [Classes -> BOOLEAN]
    /\ keymap \in Keyboards \cup {NoDevice}
    /\ pending \in [Classes -> Seq(Command)]
    /\ calls \in Seq(Command \cup {Shutdown})
    /\ host \in {"asking", "serving", "stopping", "joining capture", "joining eis",
                 "closing", "stopped"}
    /\ backend \in {"none", "portal", "enigo"}
    /\ portal \in {"none", "open", "closed"}
    /\ capture \in {"off", "running", "ended"}
    /\ open \in BOOLEAN
    /\ session \in 0..MaxSessions
    /\ sent \in 0..MaxInputs
    /\ chan \in [Sessions -> Seq(Input)]
    /\ injection \in [Sessions -> {"none", "running", "done"}]
    /\ held \in [Sessions -> SUBSET (Items \ Mute)]

(* What will be down once the commands on their way took effect: those in  *)
(* `pending` first, then those in the channel.                             *)
Settled == {i \in Items : i \in After(After(down, pending[ClassOf(i)]), calls)}

(* What some injector holds.                                               *)
Held == UNION {held[s] : s \in Sessions}

(* No key or button is down, or is still going to be pressed, that no      *)
(* injector holds and would release at the end of its session: whatever    *)
(* devices come, pause, resume and go while commands wait, and also while  *)
(* the threads of two sessions inject at the same time ("Releases every    *)
(* key and button this injector currently holds down", input/src/lib.rs).  *)
HeldIsAccounted == Settled \subseteq Held

(* After every session the desktop is let go ("so no modifier or button is *)
(* left stuck on the host"), and a host that stops comes to the end of     *)
(* PortalHandle::drop: no thread waits for one that waits for it.          *)
HostLetsGo ==
    /\ ~open ~> (open \/ down = {})
    /\ host = "stopping" ~> host = "stopped"
=============================================================================

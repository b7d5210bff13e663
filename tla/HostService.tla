----------------------------- MODULE HostService -----------------------------
(***************************************************************************)
(* The host service of crates/session-host: the accept loop of `run`, the  *)
(* handshake of `run_session` and `authenticate`, the approval, and the    *)
(* command and event channels that tie it to the application (the pump and *)
(* the host panel).  What happens inside a session, once it is set up, is  *)
(* the subject of MediaStream; here a session is the control state         *)
(* "Session" that a command, a closed channel or the viewer ends.          *)
(*                                                                         *)
(* Every member of Viewers is one connection attempt.  The host serves one *)
(* connection at a time; the other ones wait in a listener's queue.        *)
(***************************************************************************)
EXTENDS Naturals, Sequences, SequencesExt

CONSTANTS
    Viewers,          \* connection attempts
    Sources,          \* the addresses the brute-force guard can see
    Lan,              \* Lan[v]: the address of the machine v connects from
    Unspecified,      \* the address reported for every Iroh peer, 0.0.0.0
    Threshold,        \* FAILURES_BEFORE_BLOCK
    Internet,         \* config.internet is Some(_)
    MaxClicks,        \* bound: clicks of the user
    None              \* no viewer

ASSUME HostAssumption ==
    /\ Unspecified \in Sources
    /\ Lan \in [Viewers -> Sources]
    /\ Threshold \in Nat \ {0}
    /\ Internet \in BOOLEAN
    /\ MaxClicks \in Nat
    /\ None \notin Viewers

VARIABLES
    pc,         \* where the task `run` is
    cur,        \* the viewer being served
    code,       \* the number of codes issued; the newest one is code `code`
    reg,        \* internet_registration is Some(_): the Iroh listener exists
    refresh,    \* the codes whose refresh task is running
    strikes,    \* the brute-force guard, as in Lockout
    blocked,
    conn,       \* conn[v]: the host's end of the connection
    path,       \* path[v]: the transport v came by
    knows,      \* knows[v]: the code v presents, 0 for none ever issued
    left,       \* the viewers whose own end is gone
    events,     \* event_tx -> the pump
    commands,   \* the host panel -> command_rx
    pump,       \* the pump task holds the HostController
    slot,       \* the HostSlot holds a RunningHost, and its command sender
    panel,      \* what the host panel shows
    approval,   \* config.require_manual_approval
    clickLog,   \* history: the viewers the user's clicks were about
    approvedBy, \* history: the click whose Approve let v in, 0 for none
    usedCode    \* history: the code v was accepted with, 0 when it was not

hostVars == <<pc, cur, code, reg, refresh>>
guardVars == <<strikes, blocked>>
viewerVars == <<conn, path, knows, left>>
appVars == <<pump, slot, panel, approval>>
history == <<clickLog, approvedBy, usedCode>>
vars == <<hostVars, guardVars, viewerVars, events, commands, appVars,
          history>>

Guard == INSTANCE Lockout

-----------------------------------------------------------------------------
Peer == Viewers \cup {None}

Locations ==
    {"Register", "Announce", "Accept", "AcceptControl", "Hello", "Auth",
     "Approval", "Accepting", "Setup", "Session", "Replying", "Teardown",
     "Unregister", "LastUnregister", "Done"}

Handshaking == {"AcceptControl", "Hello", "Auth"}
InSession == {"Session", "Replying"}
Serving == Handshaking \cup InSession \cup
           {"Approval", "Accepting", "Setup", "Teardown"}

Event ==
    [type : {"code"}, of : Nat] \cup
    [type : {"request", "started", "ended"}, of : Viewers]
Command == [do : {"approve", "reject", "stop"}, click : Nat]

(* The code, the pending request and the session the panel displays. *)
Panel == [code : Nat, pending : Peer, session : Peer]

(* The match on HostUiEvent in the host panel. *)
Show(p, e) ==
    CASE e.type = "code" ->
            [code |-> e.of, pending |-> None, session |-> None]
      [] e.type = "request" -> [p EXCEPT !.pending = e.of]
      [] e.type = "started" -> [p EXCEPT !.pending = None, !.session = e.of]
      [] e.type = "ended" -> [p EXCEPT !.session = None]

(* event_tx.send: an error, ignored, once the pump dropped the receiver. *)
Emit(type, of) ==
    events' = IF pump THEN Append(events, [type |-> type, of |-> of]) ELSE events

(* command_rx.recv() returns None: every sender dropped, nothing queued. *)
CommandsClosed == ~pump /\ ~slot /\ commands = <<>>

(* connection.remote_address().ip() *)
GuardAddr(v) == IF path[v] = "iroh" THEN Unspecified ELSE Lan[v]

(* The connections the host gives up: their handles are dropped. *)
Close(S) == conn' = [v \in Viewers |-> IF v \in S THEN "closed" ELSE conn[v]]

Shaking == {v \in Viewers : conn[v] = "shaking"}
InQueue(ways) == {v \in Viewers : conn[v] \in {"queued", "shaking"} /\ path[v] \in ways}

Init ==
    /\ pc = "Register" /\ cur = None /\ code = 0 /\ reg = FALSE /\ refresh = {}
    /\ Guard!Init
    /\ conn = [v \in Viewers |-> "idle"]
    /\ path = [v \in Viewers |-> "lan"]
    /\ knows = [v \in Viewers |-> 0]
    /\ left = {}
    /\ events = <<>> /\ commands = <<>>
    /\ pump = TRUE /\ slot = TRUE /\ approval \in BOOLEAN
    /\ panel = [code |-> 0, pending |-> None, session |-> None]
    /\ clickLog = <<>>
    /\ approvedBy = [v \in Viewers |-> 0]
    /\ usedCode = [v \in Viewers |-> 0]

-----------------------------------------------------------------------------
(* The loop of `run`.                                                      *)

(* register_internet: on success the refresh task of the next code runs.   *)
Register(ok) ==
    /\ pc = "Register"
    /\ ok => Internet
    /\ pc' = "Announce"
    /\ reg' = ok
    /\ refresh' = IF ok THEN refresh \cup {code + 1} ELSE refresh
    /\ UNCHANGED <<cur, code, guardVars, viewerVars, events, commands,
                   appVars, history>>

(* Mutant: the code is generated once, before the loop. *)
AnnounceSameCode ==
    /\ pc = "Announce"
    /\ pump
    /\ code' = 1
    /\ Emit("code", code')
    /\ pc' = "Accept"
    /\ UNCHANGED <<cur, reg, refresh, guardVars, viewerVars, commands,
                   appVars, history>>

(* A fresh code, announced; with nobody to tell it to, the task returns    *)
(* and drops its listeners.                                                *)
Announce ==
    /\ pc = "Announce"
    /\ \/ /\ pump
          /\ code' = code + 1
          /\ Emit("code", code + 1)
          /\ pc' = "Accept"
          /\ UNCHANGED <<reg, conn>>
       \/ /\ ~pump
          /\ pc' = "Done"
          /\ reg' = FALSE
          /\ Close(InQueue({"lan", "iroh"}))
          /\ UNCHANGED <<code, events>>
    /\ UNCHANGED <<cur, refresh, guardVars, path, knows, left, commands,
                   appVars, history>>

(* A listener takes a connection off its queue and awaits its handshake.   *)
TakeIncoming(v) ==
    /\ pc = "Accept"
    /\ conn[v] = "queued"
    /\ \A w \in Shaking : path[w] # path[v]
    /\ conn' = [conn EXCEPT ![v] = "shaking"]
    /\ UNCHANGED <<hostVars, guardVars, path, knows, left, events,
                   commands, appVars, history>>

(* accept_any returns: the accept that lost the select! is cancelled, and  *)
(* with it the connection it was shaking hands with.                       *)
AcceptOk(v) ==
    /\ pc = "Accept"
    /\ conn[v] = "shaking"
    /\ pc' = "AcceptControl"
    /\ cur' = v
    /\ conn' = [w \in Viewers |-> CASE w = v -> "open"
                                    [] w \in Shaking \ {v} -> "closed"
                                    [] OTHER -> conn[w]]
    /\ UNCHANGED <<code, reg, refresh, guardVars, path, knows, left,
                   events, commands, appVars, history>>

(* The handshake fails: the viewer left, or offers nothing the host speaks. *)
AcceptFails(v) ==
    /\ pc = "Accept"
    /\ conn[v] = "shaking"
    /\ pc' = "Unregister"
    /\ Close(Shaking)
    /\ UNCHANGED <<cur, code, reg, refresh, guardVars, path, knows, left,
                   events, commands, appVars, history>>

(* The Iroh listener drops a connection made for another protocol, and     *)
(* goes on accepting.                                                      *)
WrongProtocol(v) ==
    /\ pc = "Accept"
    /\ conn[v] = "shaking"
    /\ path[v] = "iroh"
    /\ Close({v})
    /\ UNCHANGED <<hostVars, guardVars, path, knows, left, events,
                   commands, appVars, history>>

(* accept_any returns None: the endpoint is gone. *)
EndpointLost ==
    /\ pc = "Accept"
    /\ pc' = "LastUnregister"
    /\ Close(Shaking)
    /\ UNCHANGED <<cur, code, reg, refresh, guardVars, path, knows, left,
                   events, commands, appVars, history>>

(* Mutant: the refresh task is not aborted. *)
UnregisterNoAbort ==
    /\ pc \in {"Unregister", "LastUnregister"}
    /\ pc' = IF pc = "Unregister" THEN "Register" ELSE "Done"
    /\ reg' = FALSE
    /\ Close(InQueue(IF pc = "Unregister" THEN {"iroh"} ELSE {"lan", "iroh"}))
    /\ UNCHANGED <<cur, code, refresh, guardVars, path, knows, left,
                   events, commands, appVars, history>>

(* unregister_internet, then the next round or the return.  The Iroh       *)
(* listener is dropped with the registration.                              *)
Unregister ==
    /\ pc \in {"Unregister", "LastUnregister"}
    /\ pc' = IF pc = "Unregister" THEN "Register" ELSE "Done"
    /\ reg' = FALSE
    /\ refresh' = IF reg THEN refresh \ {code} ELSE refresh
    /\ Close(InQueue(IF pc = "Unregister" THEN {"iroh"} ELSE {"lan", "iroh"}))
    /\ UNCHANGED <<cur, code, guardVars, path, knows, left, events,
                   commands, appVars, history>>

-----------------------------------------------------------------------------
(* run_session and authenticate.                                           *)

(* Mutant: a way out that forgets to close the connection. *)
FinishOpen ==
    /\ pc' = "Unregister"
    /\ cur' = None
    /\ UNCHANGED <<code, reg, refresh, viewerVars>>

(* run_session returns: whatever the viewer got for a last answer, its     *)
(* connection is closed, and the loop goes on to unregister.               *)
Finish ==
    /\ pc' = "Unregister"
    /\ cur' = None
    /\ Close({cur})
    /\ UNCHANGED <<code, reg, refresh, path, knows, left>>

Proceed(location) ==
    /\ pc' = location
    /\ UNCHANGED <<cur, code, reg, refresh, viewerVars>>

(* accept_control has no timeout: it ends when the viewer opens the stream *)
(* or the connection fails.                                                *)
AcceptControl ==
    /\ pc = "AcceptControl"
    /\ \/ Proceed("Hello")
       \/ cur \in left /\ Finish
    /\ UNCHANGED <<guardVars, events, commands, appVars, history>>

(* Mutant: the handshake without its timeout. *)
RecvHelloNoTimeout ==
    /\ pc = "Hello"
    /\ cur \in left
    /\ Finish
    /\ UNCHANGED <<guardVars, events, commands, appVars, history>>

(* The first message: the Hello of this version, the Hello of another one, *)
(* or no Hello within HANDSHAKE_TIMEOUT.                                   *)
RecvHello ==
    /\ pc = "Hello"
    /\ \/ Proceed("Auth")
       \/ Finish
    /\ UNCHANGED <<guardVars, events, commands, appVars, history>>

RecvNoAuthRequest ==
    /\ pc = "Auth"
    /\ Finish
    /\ UNCHANGED <<guardVars, events, commands, appVars, history>>

(* The AuthRequest arrives: guard.check comes first, ... *)
RecvFromBlocked ==
    /\ pc = "Auth"
    /\ GuardAddr(cur) \in blocked
    /\ Finish
    /\ UNCHANGED <<guardVars, events, commands, appVars, history>>

(* ... then code.verify against the code of this round, ... *)
RecvWrongCode ==
    /\ pc = "Auth"
    /\ GuardAddr(cur) \notin blocked
    /\ knows[cur] # code
    /\ Guard!Strike(GuardAddr(cur))
    /\ Finish
    /\ UNCHANGED <<events, commands, appVars, history>>

(* Mutant: the right code is let through before the guard is asked. *)
RecvRightCodeUnguarded ==
    /\ pc = "Auth"
    /\ knows[cur] = code
    /\ Proceed("Accepting")
    /\ UNCHANGED <<events, guardVars, commands, appVars, history>>

(* Mutant: the codes of earlier rounds are still good. *)
RecvAnyIssuedCode ==
    /\ pc = "Auth"
    /\ GuardAddr(cur) \notin blocked
    /\ knows[cur] \in 1 .. code
    /\ Proceed("Accepting")
    /\ UNCHANGED <<events, guardVars, commands, appVars, history>>

(* ... and then the user's decision, when the configuration asks for one. *)
RecvRightCode ==
    /\ pc = "Auth"
    /\ GuardAddr(cur) \notin blocked
    /\ knows[cur] = code
    /\ \/ /\ approval
          /\ Proceed("Approval")
          /\ Emit("request", cur)
       \/ /\ ~approval
          /\ Proceed("Accepting")
          /\ UNCHANGED events
    /\ UNCHANGED <<guardVars, commands, appVars, history>>

(* Mutant: the decision is read and left in the channel. *)
DecidePeeks ==
    /\ pc = "Approval"
    /\ commands # <<>>
    /\ Head(commands).do = "approve"
    /\ Proceed("Accepting")
    /\ approvedBy' = [approvedBy EXCEPT ![cur] = Head(commands).click]
    /\ UNCHANGED <<commands, guardVars, events, appVars, clickLog,
                   usedCode>>

(* await_approval: the next command decides, whatever it was clicked for;  *)
(* only Approve accepts, and so does not a closed channel.                 *)
Decide ==
    /\ pc = "Approval"
    /\ \/ /\ commands # <<>>
          /\ commands' = Tail(commands)
          /\ \/ /\ Head(commands).do = "approve"
                /\ Proceed("Accepting")
                /\ approvedBy' = [approvedBy EXCEPT ![cur] = Head(commands).click]
             \/ /\ Head(commands).do # "approve"
                /\ Finish
                /\ UNCHANGED approvedBy
       \/ /\ CommandsClosed
          /\ Finish
          /\ UNCHANGED <<commands, approvedBy>>
    /\ UNCHANGED <<guardVars, events, appVars, clickLog, usedCode>>

(* record_success, then Accepted is sent; to a viewer that left, the send  *)
(* may or may not fail.                                                    *)
SendAccepted ==
    /\ pc = "Accepting"
    /\ Guard!Clear(GuardAddr(cur))
    /\ \/ /\ Proceed("Setup")
          /\ usedCode' = [usedCode EXCEPT ![cur] = code]
       \/ /\ cur \in left
          /\ Finish
          /\ UNCHANGED usedCode
    /\ UNCHANGED <<events, commands, appVars, clickLog, approvedBy>>

-----------------------------------------------------------------------------
(* stream_and_control, from outside.                                       *)

(* Codec, capturer and monitors are there: the session starts. *)
StartSession ==
    /\ pc = "Setup"
    /\ Proceed("Session")
    /\ Emit("started", cur)
    /\ UNCHANGED <<guardVars, commands, appVars, history>>

(* One of them is missing: an Error event, and the connection is closed.   *)
SetupFails ==
    /\ pc = "Setup"
    /\ Finish
    /\ UNCHANGED <<guardVars, events, commands, appVars, history>>

(* Mutant: the commands of a session are all ignored. *)
SessionIgnoresStop ==
    /\ pc = "Session"
    /\ commands # <<>>
    /\ commands' = Tail(commands)
    /\ Proceed("Session")
    /\ UNCHANGED <<guardVars, events, appVars, history>>

(* control_loop, the command branch: Stop ends the session, any other      *)
(* command is consumed and ignored.                                        *)
SessionCommand ==
    /\ pc = "Session"
    /\ commands # <<>>
    /\ commands' = Tail(commands)
    /\ Proceed(IF Head(commands).do = "stop" THEN "Teardown" ELSE "Session")
    /\ UNCHANGED <<guardVars, events, appVars, history>>

(* Mutant: the closed channel does not end the session. *)
SessionOutlivesChannel ==
    /\ pc = "Session"
    /\ CommandsClosed
    /\ UNCHANGED vars

(* ... and so does the closed channel. *)
SessionAbandoned ==
    /\ pc = "Session"
    /\ CommandsClosed
    /\ Proceed("Teardown")
    /\ UNCHANGED <<guardVars, events, commands, appVars, history>>

(* control_loop, the message branch: a Ping, or a SelectMonitor of a        *)
(* monitor there is, is answered inside the branch, ...                    *)
ViewerAsks ==
    /\ pc = "Session"
    /\ cur \notin left
    /\ Proceed("Replying")
    /\ UNCHANGED <<guardVars, events, commands, appVars, history>>

(* ... and while the send waits for the viewer to read, nobody looks at    *)
(* the commands.  That it may fail is ignored.                             *)
ReplySent ==
    /\ pc = "Replying"
    /\ Proceed("Session")
    /\ UNCHANGED <<guardVars, events, commands, appVars, history>>

(* A Disconnect ends the session, ... *)
ViewerDisconnects ==
    /\ pc = "Session"
    /\ cur \notin left
    /\ Proceed("Teardown")
    /\ UNCHANGED <<guardVars, events, commands, appVars, history>>

(* ... or an error: the connection is lost. *)
ConnectionLost ==
    /\ pc = "Session"
    /\ cur \in left
    /\ Proceed("Teardown")
    /\ UNCHANGED <<guardVars, events, commands, appVars, history>>

(* Mutant: the teardown of a session nobody is told about. *)
EndSessionSilently ==
    /\ pc = "Teardown"
    /\ Finish
    /\ UNCHANGED <<guardVars, events, commands, appVars, history>>

(* The connection is closed, the helpers are joined, and SessionEnded told. *)
EndSession ==
    /\ pc = "Teardown"
    /\ Finish
    /\ Emit("ended", cur)
    /\ UNCHANGED <<guardVars, commands, appVars, history>>

-----------------------------------------------------------------------------
(* The application: the pump task, the HostSlot and the host panel.        *)

(* The pump forwards an event and the panel shows it. *)
PumpEvent ==
    /\ pump
    /\ events # <<>>
    /\ events' = Tail(events)
    /\ panel' = Show(panel, Head(events))
    /\ UNCHANGED <<hostVars, guardVars, viewerVars, commands, pump, slot,
                   approval, history>>

(* The pump ends and drops the controller: on_event.send failed because    *)
(* the webview is gone, RunningHost was dropped, or the host returned.     *)
PumpEnds ==
    /\ pump
    /\ events # <<>> \/ ~slot \/ pc = "Done"
    /\ pump' = FALSE
    /\ events' = <<>>
    /\ panel' = [panel EXCEPT !.pending = None, !.session = None]
    /\ UNCHANGED <<hostVars, guardVars, viewerVars, commands, slot,
                   approval, history>>

(* stop_host, the exit of the application, or a new start_host: the slot   *)
(* is emptied, and RunningHost signals the pump when it is dropped.        *)
StopHost ==
    /\ slot
    /\ slot' = FALSE
    /\ UNCHANGED <<hostVars, guardVars, viewerVars, events, commands, pump,
                   panel, approval, history>>

(* A click on the approval dialog or on the session banner sends a command *)
(* through the slot; neither goes away before an event says so.            *)
Click(do) ==
    LET about == IF do = "stop" THEN panel.session ELSE panel.pending IN
    /\ slot
    /\ about # None
    /\ Len(clickLog) < MaxClicks
    /\ clickLog' = Append(clickLog, about)
    /\ commands' = Append(commands, [do |-> do, click |-> Len(clickLog')])
    /\ UNCHANGED <<hostVars, guardVars, viewerVars, events, appVars,
                   approvedBy, usedCode>>

-----------------------------------------------------------------------------
(* The viewers and the network.                                            *)

(* A viewer dials a listener that exists, with a code the panel showed, or *)
(* 0 for anything else its user typed.                                     *)
Connect(v, way, c) ==
    /\ conn[v] = "idle"
    /\ pc # "Done"
    /\ way = "iroh" => reg
    /\ conn' = [conn EXCEPT ![v] = "queued"]
    /\ path' = [path EXCEPT ![v] = way]
    /\ knows' = [knows EXCEPT ![v] = c]
    /\ UNCHANGED <<hostVars, guardVars, left, events, commands, appVars,
                   history>>

(* A viewer quits, crashes or loses the network. *)
Leave(v) ==
    /\ conn[v] \in {"queued", "shaking", "open"}
    /\ v \notin left
    /\ left' = left \cup {v}
    /\ UNCHANGED <<hostVars, guardVars, conn, path, knows, events,
                   commands, appVars, history>>

(* The guard's clock. *)
TimePasses ==
    /\ \E S \in SUBSET Sources : Guard!Lapse(S) \/ Guard!Forget(S)
    /\ UNCHANGED <<hostVars, viewerVars, events, commands, appVars,
                   history>>

-----------------------------------------------------------------------------
HostStep ==
    \/ \E ok \in BOOLEAN : Register(ok)
    \/ Announce \/ Unregister
    \/ \E v \in Viewers : TakeIncoming(v) \/ AcceptOk(v) \/ AcceptFails(v)
                         \/ WrongProtocol(v)
    \/ AcceptControl \/ RecvHello \/ RecvNoAuthRequest
    \/ RecvFromBlocked \/ RecvWrongCode \/ RecvRightCode
    \/ Decide \/ SendAccepted
    \/ StartSession \/ SetupFails
    \/ SessionCommand \/ SessionAbandoned \/ ReplySent \/ ConnectionLost
    \/ EndSession

AppStep ==
    \/ PumpEvent \/ PumpEnds \/ StopHost
    \/ \E do \in {"approve", "reject", "stop"} : Click(do)

ViewerStep ==
    \/ \E v \in Viewers, way \in {"lan", "iroh"} :
           \E c \in 0 .. panel.code : Connect(v, way, c)
    \/ \E v \in Viewers : Leave(v)
    \/ ViewerAsks \/ ViewerDisconnects

Next == HostStep \/ EndpointLost \/ AppStep \/ ViewerStep \/ TimePasses

Spec == Init /\ [][Next]_vars

-----------------------------------------------------------------------------
(***************************************************************************)
(*                               Properties                                *)
(***************************************************************************)

(* Type invariant. *)
TypeOK ==
    /\ pc \in Locations /\ cur \in Peer /\ code \in Nat /\ reg \in BOOLEAN
    /\ refresh \in SUBSET Nat
    /\ Guard!TypeOK
    /\ conn \in [Viewers -> {"idle", "queued", "shaking", "open", "closed"}]
    /\ path \in [Viewers -> {"lan", "iroh"}]
    /\ knows \in [Viewers -> Nat]
    /\ left \subseteq Viewers
    /\ events \in Seq(Event) /\ commands \in Seq(Command)
    /\ pump \in BOOLEAN /\ slot \in BOOLEAN
    /\ panel \in Panel /\ approval \in BOOLEAN
    /\ clickLog \in Seq(Viewers)
    /\ approvedBy \in [Viewers -> Nat]
    /\ usedCode \in [Viewers -> Nat]

(* While somebody listens, the events in flight bring the panel to where   *)
(* the host is: the banner names the viewer whose session is running and   *)
(* nobody else, the dialog the viewer waiting for a decision, and the code *)
(* shown is the one the host verifies.  A session that starts or ends on a *)
(* path without its event leaves the panel wrong for good.                 *)
Drained == FoldLeft(Show, panel, events)

PanelConverges ==
    pump =>
        /\ Drained.code = code
        /\ Drained.session = IF pc \in InSession \cup {"Teardown"} THEN cur ELSE None
        /\ pc = "Approval" => Drained.pending = cur
        /\ pc \in {"Accept"} \cup InSession \cup Handshaking => Drained.pending = None

(* A code admits at most one viewer, and only while it is the code of the  *)
(* round: a code is spent with the connection that used it.                *)
CodeAdmitsOnce ==
    \A v, w \in Viewers :
        usedCode[v] # 0 /\ usedCode[v] = usedCode[w] =>
            v = w /\ knows[v] = usedCode[v]

(* The host as its contract sees it: a viewer is in from Accepted until    *)
(* its connection is closed.                                               *)
Contract == INSTANCE HostContract WITH
    issued <- code,
    active <- IF pc \in InSession \cup {"Setup", "Teardown"} THEN cur ELSE None,
    admitted <- usedCode

(* The host implements the contract: one viewer at a time, with the newest *)
(* code, which no other viewer was let in with.                            *)
KeepsContract == Contract!Spec

(* The host keeps no connection but the one it serves: every way out of a  *)
(* session, a handshake or a lost select! drops the others.                *)
OnlyServedIsOpen ==
    /\ \A v \in Viewers : conn[v] = "open" <=> pc \in Serving /\ cur = v
    /\ pc # "Accept" => Shaking = {}

(* With manual approval, every viewer that is let in costs the user an     *)
(* Approve of its own: a click is spent on one viewer at most.             *)
ApprovalAdmitsOnce ==
    approval =>
        \A v, w \in Viewers :
            /\ usedCode[v] # 0 => approvedBy[v] # 0
            /\ approvedBy[v] # 0 /\ approvedBy[v] = approvedBy[w] => v = w

(* A viewer whose source is blocked is never admitted or put to the user,  *)
(* whatever code it knows, also while other sources collect strikes.       *)
BlockedIsNeverServed ==
    pc \in {"Approval", "Accepting"} => GuardAddr(cur) \notin blocked

(* The refresh tasks that run are those of the registration that is up:    *)
(* a registration given up is never renewed again.                         *)
RefreshOnlyWhileRegistered ==
    pc # "Done" =>
        refresh = IF ~reg THEN {}
                  ELSE IF pc = "Announce" THEN {code + 1} ELSE {code}

(***************************************************************************)
(* Liveness.  The host task and the pump are scheduled and make progress   *)
(* where they wait for nobody: at a message that has a time-out, at a      *)
(* command that is there, at the end of a connection that is gone.         *)
(* Handshakes of QUIC end, by the idle time-out if by nothing else.  In    *)
(* control_loop the commands are looked at only between two messages;      *)
(* tokio's select! picks among its ready branches at random, so the        *)
(* command branch is taken when it is ready again and again: that is       *)
(* strong fairness.  The user, the viewers and the rendezvous server owe   *)
(* nothing: a viewer need not open the control stream nor read an answer,  *)
(* unless it leaves, and an HTTP call need not be answered.  The few short *)
(* messages the host sends before the session fit in the window quinn      *)
(* grants a new stream: nobody has to read for them to be sent.            *)
(***************************************************************************)
Fairness ==
    /\ WF_vars(~Internet /\ Register(FALSE))
    /\ WF_vars(Announce) /\ WF_vars(~reg /\ Unregister)
    /\ \A v \in Viewers :
           /\ WF_vars(TakeIncoming(v))
           /\ WF_vars(AcceptOk(v) \/ AcceptFails(v) \/ WrongProtocol(v))
    /\ WF_vars(cur \in left /\ AcceptControl) /\ WF_vars(RecvHello)
    /\ WF_vars(RecvNoAuthRequest \/ RecvFromBlocked \/ RecvWrongCode
                 \/ RecvRightCode)
    /\ WF_vars(Decide) /\ WF_vars(SendAccepted)
    /\ WF_vars(StartSession \/ SetupFails)
    /\ SF_vars(SessionCommand) /\ SF_vars(SessionAbandoned)
    /\ WF_vars(cur \in left /\ ReplySent)
    /\ WF_vars(ConnectionLost) /\ WF_vars(EndSession)
    /\ WF_vars(PumpEvent \/ PumpEnds)
    /\ WF_vars(PumpEnds /\ ~slot)

FairSpec == Spec /\ Fairness

(* Where `run` waits, without a time-out and without a look at its         *)
(* channels, for a viewer to open its stream or to read, or for an answer  *)
(* of the rendezvous server.                                               *)
HeldUp ==
    {"AcceptControl", "Replying"} \cup
    (IF Internet THEN {"Register", "Unregister", "LastUnregister"} ELSE {})

StopQueued == \E i \in DOMAIN commands : commands[i].do = "stop"

(* A Stop that reached the channel during a session ends it, however many  *)
(* messages the viewer keeps sending, unless the viewer asks for an answer *)
(* and never reads it.                                                     *)
StopEndsSession ==
    \/ pc \in InSession /\ StopQueued ~> pc \notin InSession
    \/ <>[](pc = "Replying")

(* A viewer in a listener's queue is eventually served or turned away,     *)
(* unless the host is held up for good: by a request nobody decides, by a  *)
(* session nobody ends, or in one of the waits of HeldUp.                  *)
QueueMoves ==
    \/ \A v \in Viewers : conn[v] = "queued" ~> conn[v] # "queued"
    \/ <>[](pc \in {"Approval"} \cup InSession \cup HeldUp)

(* When the application let go of the host, neither a request nobody       *)
(* decided nor a busy session keeps it: it returns or is back at its       *)
(* listeners, unless it is held up for good in one of the waits of HeldUp. *)
StopReachesListeners ==
    \/ ~slot /\ ~pump ~> pc \in {"Accept", "Done"}
    \/ <>[](pc \in HeldUp)

-----------------------------------------------------------------------------
(***************************************************************************)
(* What the documentation says and the code does not do.                   *)
(***************************************************************************)

(* The host waits for the user's decision on a request before it accepts   *)
(* it: a command left over from another request decides as well.           *)
DecisionIsAboutRequest ==
    \A v \in Viewers : approvedBy[v] # 0 => clickLog[approvedBy[v]] = v

(* Dropping the controller ends the host accept loop: it does not while    *)
(* accept_any waits for a connection.                                      *)
DroppedHostReturns == ~slot /\ ~pump ~> pc = "Done"

(* The registration is renewed while its code is valid, and not after the  *)
(* host returned: the return after a failed CodeReady leaves it renewed.   *)
NoRefreshAfterReturn == pc = "Done" => refresh = {}

=============================================================================

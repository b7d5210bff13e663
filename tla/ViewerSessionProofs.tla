------------------------- MODULE ViewerSessionProofs -------------------------
(***************************************************************************)
(* Proofs about ViewerSession, for any targets, identities and number of   *)
(* attempts: frames are drawn of one session, no session lingers, and the  *)
(* identities are kept as TrustOnFirstUse promises.                        *)
(***************************************************************************)
EXTENDS ViewerSession, TLAPS

(* Before the host accepts there are no tasks and no events.               *)
Early == \A a \in Attempts :
    pc[a] \in {"none", "begin", "look up", "dial", "authenticate"} =>
        tasks[a] = {} /\ events[a] = 0

(* Each of the three tasks tells its end once.                             *)
Ended(a, task) == IF task \in tasks[a] THEN 0 ELSE 1

Counted == \A a \in Attempts :
    events[a] <= Ended(a, "input") + Ended(a, "control") + Ended(a, "media")

(* Whoever has the handle of a session that lost a reader finds an event.  *)
EventsTell == \A a \in Attempts :
    HasHandle(a) => {"control", "media"} \subseteq tasks[a] \/ events[a] > 0

(* Frames are drawn while there is an event pump to stop it, or about to.  *)
FramesPumped == \A a \in frames : pc[a] = "publish" \/ a \in pump

(* pump_events is spawned when connect_viewer is through.                  *)
PumpLater == \A a \in pump : pc[a] = "done"

TaskInv == Early /\ Counted /\ EventsTell /\ FramesPumped /\ PumpLater /\ OnePicture

(* A connect under way has a target; it has nothing from the store before  *)
(* it asks and after it answers; and the host it is connected to, or the   *)
(* endpoint that was looked up for it, matches what it has.                *)
Targeted == \A a \in Attempts :
    IF pc[a] \in {"none", "done"} THEN target[a] = NoTarget ELSE target[a] \in Targets

Fresh == \A a \in Attempts : a > clicks => pc[a] = "none"

Unread == \A a \in Attempts :
    pc[a] \in {"none", "begin", "look up", "done"} => known[a] = NoId

Checked == \A a \in Attempts :
    \/ pc[a] \in {"authenticate", "remember", "publish"}
    \/ pc[a] = "dial" /\ target[a] \in InternetTargets
    => peer[a] \in Ids /\ Matches(known[a], peer[a])

TrustInv == Targeted /\ Fresh /\ Unread /\ Checked

Inv == TypeOK /\ TrustInv /\ TaskInv

-----------------------------------------------------------------------------
(* Types. *)

LEMMA MoreMoves == moves \in 0..MaxMoves /\ moves < MaxMoves => moves + 1 \in 0..MaxMoves
BY ViewerAssumption

LEMMA MoreClicks ==
    clicks \in 0..MaxAttempts /\ clicks < MaxAttempts =>
        clicks + 1 \in 0..MaxAttempts /\ clicks + 1 \in Attempts
BY ViewerAssumption DEF Attempts

LEMMA MoveTypes == ASSUME TypeOK, NEW t \in Targets, Move(t) PROVE TypeOK'
BY MoreMoves DEF TypeOK, Move, panelVars, commandVars, taskVars

LEMMA ReturnsTypes ==
    ASSUME TypeOK, NEW a \in Attempts, NEW answer \in {"ok", "error"}, Returns(a, answer)
    PROVE  /\ pc' \in [Attempts -> Progress]
           /\ reply' \in [Attempts -> {"none", "ok", "error"}]
           /\ target' \in [Attempts -> Targets \cup {NoTarget}]
           /\ known' \in [Attempts -> Ids \cup {NoId}]
           /\ peer' \in [Attempts -> Ids \cup {NoId}]
BY DEF TypeOK, Returns, Goes, Progress

LEMMA PanelTypes == ASSUME TypeOK, PanelStep PROVE TypeOK'
<1>1. ASSUME NEW t \in Targets, Click(t) PROVE TypeOK'
      BY <1>1, MoreClicks DEF TypeOK, Click, ConnectScreen, Progress, worldVars, taskVars
<1>2. ASSUME NEW a \in Attempts, Resolve(a) PROVE TypeOK'
      BY <1>2 DEF TypeOK, Resolve, worldVars, commandVars, taskVars
<1>3. ASSUME NEW a \in Attempts, Hear(a) PROVE TypeOK'
      BY <1>3 DEF TypeOK, Hear, worldVars, commandVars, taskVars
<1>4. CASE ClickDisconnect
      BY <1>4 DEF TypeOK, ClickDisconnect, Dispose, Disconnect, DropActive, worldVars, commandVars
<1>5. CASE Leave
      BY <1>5 DEF TypeOK, Leave, Dispose, Disconnect, DropActive, worldVars, commandVars
<1>6. CASE Input
      BY <1>6 DEF TypeOK, Input, worldVars, panelVars, commandVars
<1> QED BY <1>1, <1>2, <1>3, <1>4, <1>5, <1>6 DEF PanelStep

LEMMA CommandTypes ==
    ASSUME TypeOK, TrustInv, NEW a \in Attempts, Command(a) PROVE TypeOK'
<1>1. pc[a] \notin {"none", "done"} => target[a] \in Targets BY DEF TrustInv, Targeted
<1>2. CASE Begin(a)
      <2>1. pins[target[a]] \in Ids \cup {NoId} BY <1>1, <1>2 DEF TypeOK, Begin
      <2>2. known' \in [Attempts -> Ids \cup {NoId}] BY <1>2, <2>1 DEF TypeOK, Begin
      <2>3. pc' \in [Attempts -> Progress] BY <1>2 DEF TypeOK, Begin, Goes, Progress
      <2> QED BY <1>2, <2>2, <2>3 DEF TypeOK, Begin, DropActive, worldVars, panelVars, taskVars
<1>3. CASE LookUp(a)
      <2>1. identity[target[a]] \in Ids /\ pins[target[a]] \in Ids \cup {NoId}
            BY <1>1, <1>3 DEF TypeOK, LookUp
      <2>2. /\ known' \in [Attempts -> Ids \cup {NoId}]
            /\ peer' \in [Attempts -> Ids \cup {NoId}]
            /\ pc' \in [Attempts -> Progress]
            BY <1>3, <2>1 DEF TypeOK, LookUp, Goes, Progress
      <2> QED BY <1>3, <2>2 DEF TypeOK, LookUp, worldVars, panelVars, taskVars
<1>4. CASE Dial(a)
      <2>1. identity[target[a]] \in Ids BY <1>1, <1>4 DEF TypeOK, Dial, DialLan, DialInternet
      <2>2. peer' \in [Attempts -> Ids \cup {NoId}] /\ pc' \in [Attempts -> Progress]
            BY <1>4, <2>1 DEF TypeOK, Dial, DialLan, DialInternet, Goes, Progress
      <2> QED BY <1>4, <2>2 DEF TypeOK, Dial, DialLan, DialInternet, worldVars, panelVars, taskVars
<1>5. CASE Authenticate(a)
      BY <1>5 DEF TypeOK, Authenticate, Goes, Progress, worldVars, panelVars, commandVars
<1>6. CASE Remember(a)
      <2>1. peer[a] \in Ids BY <1>6 DEF Remember, TrustInv, Checked
      <2> QED BY <1>1, <1>6, <2>1
          DEF TypeOK, Remember, Goes, Progress, worldVars, panelVars, commandVars, taskVars
<1>7. CASE Publish(a)
      BY <1>7, ReturnsTypes DEF TypeOK, Publish, worldVars, panelVars, taskVars
<1>8. CASE Fail(a)
      BY <1>8, ReturnsTypes DEF TypeOK, Fail, DropActive, worldVars, panelVars, taskVars
<1> QED BY <1>2, <1>3, <1>4, <1>5, <1>6, <1>7, <1>8 DEF Command

(* An event more than before is still one of three.                        *)
LEMMA MoreEvents ==
    ASSUME TypeOK, Counted, NEW a \in Attempts, NEW task \in {"input", "control", "media"},
           task \in tasks[a]
    PROVE  events[a] + 1 \in 0..3
<1>1. events[a] \in 0..3 BY DEF TypeOK
<1>2. events[a] <= 2 BY <1>1 DEF Counted, Ended
<1> QED BY <1>1, <1>2

LEMMA DisconnectedTypes ==
    ASSUME TypeOK, Counted, NEW a \in Attempts, NEW task \in {"input", "control", "media"},
           task \in tasks[a], Disconnected(a, task)
    PROVE  /\ tasks' \in [Attempts -> SUBSET {"input", "control", "media"}]
           /\ events' \in [Attempts -> 0..3]
BY MoreEvents DEF TypeOK, Disconnected

LEMMA SessionTypes ==
    ASSUME TypeOK, Counted, NEW a \in Attempts, SessionStep(a) PROVE TypeOK'
<1>1. CASE InputTask(a)
      <2>1. UNCHANGED <<worldVars, pins, panelVars, commandVars, pc, reply, slot, conn, pump,
                        frames, told>> /\ "input" \in tasks[a]
            BY <1>1 DEF InputTask
      <2>2. CASE SendBye(a)
            BY <2>1, <2>2 DEF TypeOK, SendBye, worldVars, panelVars, commandVars
      <2>3. CASE SendFails(a)
            BY <2>1, <2>3, DisconnectedTypes DEF TypeOK, SendFails, worldVars, panelVars, commandVars
      <2>4. CASE NoSender(a)
            BY <2>1, <2>4 DEF TypeOK, NoSender, worldVars, panelVars, commandVars
      <2> QED BY <1>1, <2>2, <2>3, <2>4 DEF InputTask
<1>2. ASSUME NEW task \in {"control", "media"}, Reader(a, task) PROVE TypeOK'
      BY <1>2, DisconnectedTypes DEF TypeOK, Reader, worldVars, panelVars, commandVars
<1>3. CASE Close(a)
      BY <1>3 DEF TypeOK, Close, worldVars, panelVars, commandVars, taskVars
<1>4. CASE Pump(a)
      BY <1>4 DEF TypeOK, Pump, worldVars, panelVars, commandVars
<1> QED BY <1>1, <1>2, <1>3, <1>4 DEF SessionStep

LEMMA TypeStep == ASSUME Inv, [Next]_vars PROVE TypeOK'
<1>1. CASE Next
      BY <1>1, MoveTypes, PanelTypes, CommandTypes, SessionTypes DEF Next, Inv, TaskInv
<1>2. CASE UNCHANGED vars
      <2>1. UNCHANGED <<worldVars, panelVars, commandVars, taskVars>> BY <1>2 DEF vars
      <2> QED BY <1>2, <2>1 DEF Inv, TypeOK, vars, worldVars, panelVars, commandVars, taskVars
<1> QED BY <1>1, <1>2

-----------------------------------------------------------------------------
(* What the connects know. *)

LEMMA TrustSame ==
    ASSUME TrustInv, UNCHANGED <<clicks, target, known, peer, pc>> PROVE TrustInv'
BY DEF TrustInv, Targeted, Fresh, Unread, Checked, Matches

LEMMA ClickTrust ==
    ASSUME TypeOK, TrustInv, NEW t \in Targets, Click(t) PROVE TrustInv'
<1>1. /\ clicks' = clicks + 1 /\ clicks' \in Attempts /\ clicks \in Nat
      /\ target' = [target EXCEPT ![clicks'] = t]
      /\ pc' = [pc EXCEPT ![clicks'] = "begin"]
      /\ UNCHANGED <<known, peer>>
      BY MoreClicks DEF Click, ConnectScreen, TypeOK
<1>2. pc[clicks'] = "none" BY <1>1 DEF TrustInv, Fresh, Attempts
<1>3. Targeted' BY <1>1 DEF TypeOK, TrustInv, Targeted
<1>4. Fresh' BY <1>1 DEF TypeOK, TrustInv, Fresh, Attempts
<1>5. Unread' BY <1>1, <1>2 DEF TypeOK, TrustInv, Unread
<1>6. Checked' BY <1>1 DEF TypeOK, TrustInv, Checked, Matches
<1> QED BY <1>3, <1>4, <1>5, <1>6 DEF TrustInv

LEMMA ReturnsTrust ==
    ASSUME TypeOK, TrustInv, NEW a \in Attempts, NEW answer, pc[a] # "none",
           Returns(a, answer), UNCHANGED clicks
    PROVE  TrustInv'
BY ZenonT(30) DEF TypeOK, TrustInv, Targeted, Fresh, Unread, Checked, Matches, Returns, Goes

(* A step of a connect that stays under way.                               *)
LEMMA GoesTrust ==
    ASSUME TypeOK, TrustInv, NEW a \in Attempts, NEW step,
           pc[a] \notin {"none", "done"}, step \notin {"none", "done"},
           Goes(a, step), UNCHANGED <<clicks, target>>
    PROVE  Targeted' /\ Fresh'
BY DEF TypeOK, TrustInv, Targeted, Fresh, Goes

LEMMA CommandTrust ==
    ASSUME TypeOK, TrustInv, NEW a \in Attempts, Command(a) PROVE TrustInv'
<1> USE DEF TypeOK, TrustInv
<1>1. CASE Begin(a)
      <2>1. \E step \in {"look up", "dial"} : Goes(a, step) BY <1>1 DEF Begin
      <2>2. Targeted' /\ Fresh' BY <1>1, <2>1, GoesTrust DEF Begin
      <2>3. Unread' BY <1>1 DEF Begin, Goes, Unread
      <2>4. Checked' BY <1>1, ZenonT(30) DEF Begin, Goes, Checked, Matches
      <2> QED BY <2>2, <2>3, <2>4
<1>2. CASE LookUp(a)
      <2>1. Targeted' /\ Fresh' BY <1>2, GoesTrust DEF LookUp
      <2>2. Unread' BY <1>2 DEF LookUp, Goes, Unread
      <2>3. identity[target[a]] \in Ids BY <1>2 DEF LookUp, Targeted
      <2>4. Checked' BY <1>2, <2>3 DEF LookUp, Goes, Checked, Matches
      <2> QED BY <2>1, <2>2, <2>4
<1>3. CASE Dial(a)
      <2>1. Targeted' /\ Fresh' BY <1>3, GoesTrust DEF Dial, DialLan, DialInternet
      <2>2. Unread' BY <1>3 DEF Dial, DialLan, DialInternet, Goes, Unread
      <2>3. identity[target[a]] \in Ids BY <1>3 DEF Dial, DialLan, DialInternet, Targeted
      <2>4. Checked' BY <1>3, <2>3 DEF Dial, DialLan, DialInternet, Goes, Checked, Matches
      <2> QED BY <2>1, <2>2, <2>4
<1>4. CASE Authenticate(a)
      <2>1. Targeted' /\ Fresh' BY <1>4, GoesTrust DEF Authenticate, commandVars
      <2>2. Unread' /\ Checked'
            BY <1>4 DEF Authenticate, commandVars, Goes, Unread, Checked, Matches
      <2> QED BY <2>1, <2>2
<1>5. CASE Remember(a)
      <2>1. Targeted' /\ Fresh' BY <1>5, GoesTrust DEF Remember, commandVars
      <2>2. Unread' /\ Checked'
            BY <1>5 DEF Remember, commandVars, Goes, Unread, Checked, Matches
      <2> QED BY <2>1, <2>2
<1>6. CASE Publish(a) BY <1>6, ReturnsTrust DEF Publish
<1>7. CASE Fail(a) BY <1>7, ReturnsTrust DEF Fail
<1> QED BY <1>1, <1>2, <1>3, <1>4, <1>5, <1>6, <1>7 DEF Command

LEMMA TrustStep == ASSUME Inv, [Next]_vars PROVE TrustInv'
<1> USE DEF Inv
<1>1. ASSUME NEW t \in Targets, Move(t) PROVE TrustInv'
      BY <1>1, TrustSame DEF Move, commandVars
<1>2. CASE PanelStep
      <2>1. ASSUME NEW t \in Targets, Click(t) PROVE TrustInv' BY <2>1, ClickTrust
      <2>2. ASSUME NEW a \in Attempts, Resolve(a) \/ Hear(a) PROVE TrustInv'
            BY <2>2, TrustSame DEF Resolve, Hear, commandVars
      <2>3. CASE ClickDisconnect \/ Leave \/ Input
            BY <2>3, TrustSame DEF ClickDisconnect, Leave, Dispose, Input, commandVars
      <2> QED BY <1>2, <2>1, <2>2, <2>3 DEF PanelStep
<1>3. ASSUME NEW a \in Attempts, Command(a) PROVE TrustInv' BY <1>3, CommandTrust
<1>4. ASSUME NEW a \in Attempts, SessionStep(a) PROVE TrustInv'
      BY <1>4, TrustSame DEF SessionStep, InputTask, Reader, Close, Pump, commandVars
<1>5. CASE UNCHANGED vars BY <1>5, TrustSame DEF vars, commandVars
<1> QED BY <1>1, <1>2, <1>3, <1>4, <1>5 DEF Next

-----------------------------------------------------------------------------
(* The tasks and pumps of the sessions. *)

LEMMA TaskSame ==
    ASSUME TaskInv, UNCHANGED <<pc, tasks, events, pump, frames, slot>> PROVE TaskInv'
BY DEF TaskInv, Early, Counted, Ended, EventsTell, HasHandle, FramesPumped, PumpLater, OnePicture

(* The slot loses its viewer, and the frames of that stop.                 *)
LEMMA DropTask ==
    ASSUME TaskInv, DropActive, UNCHANGED <<pc, tasks, events, pump>> PROVE TaskInv'
BY DEF TaskInv, Early, Counted, Ended, EventsTell, HasHandle, FramesPumped, PumpLater, OnePicture, DropActive

LEMMA PanelTask == ASSUME TypeOK, TrustInv, TaskInv, PanelStep PROVE TaskInv'
<1>1. ASSUME NEW t \in Targets, Click(t) PROVE TaskInv'
      <2>1. /\ clicks' \in Attempts /\ pc[clicks'] = "none"
            /\ pc' = [pc EXCEPT ![clicks'] = "begin"]
            /\ UNCHANGED <<tasks, events, pump, frames, slot>>
            BY <1>1, MoreClicks DEF Click, ConnectScreen, TypeOK, TrustInv, Fresh, Attempts, taskVars
      <2> QED BY <2>1, ZenonT(30)
          DEF TypeOK, TaskInv, Early, Counted, Ended, EventsTell, HasHandle, FramesPumped, PumpLater, OnePicture
<1>2. ASSUME NEW a \in Attempts, Resolve(a) \/ Hear(a) PROVE TaskInv'
      BY <1>2, TaskSame DEF Resolve, Hear, taskVars
<1>3. CASE ClickDisconnect \/ Leave
      <2>1. UNCHANGED <<pc, tasks, events, pump>> /\ (DropActive \/ UNCHANGED <<slot, frames>>)
            BY <1>3 DEF ClickDisconnect, Leave, Dispose, Disconnect
      <2> QED BY <2>1, DropTask, TaskSame
<1>4. CASE Input BY <1>4, TaskSame DEF Input
<1> QED BY <1>1, <1>2, <1>3, <1>4 DEF PanelStep

LEMMA CommandTask ==
    ASSUME TypeOK, TrustInv, TaskInv, NEW a \in Attempts, Command(a) PROVE TaskInv'
<1> USE DEF TypeOK, TaskInv
<1>1. CASE Begin(a)
      <2>1. /\ UNCHANGED <<tasks, events, pump>> /\ DropActive /\ pc[a] = "begin"
            /\ \E step \in {"look up", "dial"} : pc' = [pc EXCEPT ![a] = step]
            BY <1>1 DEF Begin, taskVars, Goes
      <2>2. Early' /\ Counted' BY <2>1 DEF Early, Counted, Ended
      <2>3. EventsTell' BY <2>1 DEF EventsTell, HasHandle
      <2>4. FramesPumped' /\ PumpLater' /\ OnePicture' BY <2>1 DEF FramesPumped, PumpLater, OnePicture, DropActive
      <2> QED BY <2>2, <2>3, <2>4
<1>2. CASE LookUp(a) \/ Dial(a)
      <2>1. /\ UNCHANGED <<tasks, events, pump, slot, frames>>
            /\ pc[a] \in {"look up", "dial"}
            /\ \E step \in {"dial", "authenticate"} : pc' = [pc EXCEPT ![a] = step]
            BY <1>2 DEF LookUp, Dial, DialLan, DialInternet, taskVars, Goes
      <2>2. Early' /\ Counted' BY <2>1 DEF Early, Counted, Ended
      <2>3. EventsTell' BY <2>1 DEF EventsTell, HasHandle
      <2>4. FramesPumped' /\ PumpLater' /\ OnePicture' BY <2>1 DEF FramesPumped, PumpLater, OnePicture
      <2> QED BY <2>2, <2>3, <2>4
<1>3. CASE Authenticate(a)
      <2>1. /\ UNCHANGED <<events, pump, slot, frames>> /\ pc[a] = "authenticate"
            /\ tasks' = [tasks EXCEPT ![a] = {"input", "control", "media"}]
            /\ pc' = [pc EXCEPT ![a] = "remember"]
            BY <1>3 DEF Authenticate, Goes
      <2>2. Early' BY <2>1 DEF Early
      <2>3. Counted'
            <3>1. ASSUME NEW b \in Attempts PROVE
                     events'[b] <= Ended(b, "input")' + Ended(b, "control")' + Ended(b, "media")'
                  <4>1. CASE b = a
                        <5>1. events'[b] = 0 BY <2>1, <4>1 DEF Early
                        <5>2. \A t \in {"input", "control", "media"} : Ended(b, t)' = 0
                              BY <2>1, <4>1 DEF Ended
                        <5> QED BY <5>1, <5>2
                  <4>2. CASE b # a
                        <5>1. tasks'[b] = tasks[b] /\ events'[b] = events[b] BY <2>1, <4>2
                        <5> QED BY <5>1 DEF Counted, Ended
                  <4> QED BY <4>1, <4>2
            <3> QED BY <3>1 DEF Counted
      <2>4. EventsTell' BY <2>1 DEF EventsTell, HasHandle
      <2>5. FramesPumped' /\ PumpLater' /\ OnePicture' BY <2>1 DEF FramesPumped, PumpLater, OnePicture
      <2> QED BY <2>2, <2>3, <2>4, <2>5
<1>4. CASE Remember(a)
      <2>1. /\ UNCHANGED <<tasks, events, pump, slot>> /\ pc[a] = "remember"
            /\ frames' = frames \cup {a} /\ pc' = [pc EXCEPT ![a] = "publish"]
            BY <1>4 DEF Remember, taskVars, Goes
      <2>2. Early' /\ Counted' BY <2>1 DEF Early, Counted, Ended
      <2>3. EventsTell' BY <2>1 DEF EventsTell, HasHandle
      <2>4. FramesPumped' /\ PumpLater' /\ OnePicture' BY <2>1 DEF FramesPumped, PumpLater, OnePicture
      <2> QED BY <2>2, <2>3, <2>4
<1>5. CASE Publish(a)
      <2>1. /\ UNCHANGED <<tasks, events>> /\ pc[a] = "publish" /\ slot' = a
            /\ frames' = frames \ {slot} /\ pump' = pump \cup {a}
            /\ pc' = [pc EXCEPT ![a] = "done"]
            BY <1>5 DEF Publish, Returns, taskVars, Goes
      <2>2. Early' /\ Counted' BY <2>1 DEF Early, Counted, Ended
      <2>3. EventsTell' BY <2>1 DEF EventsTell, HasHandle
      <2>4. FramesPumped' /\ PumpLater' /\ OnePicture' BY <2>1 DEF FramesPumped, PumpLater, OnePicture
      <2> QED BY <2>2, <2>3, <2>4
<1>6. CASE Fail(a)
      <2>1. /\ UNCHANGED <<tasks, events, pump>> /\ (DropActive \/ UNCHANGED <<slot, frames>>)
            /\ pc[a] # "publish" /\ pc' = [pc EXCEPT ![a] = "done"]
            BY <1>6 DEF Fail, Returns, taskVars, Goes
      <2>2. Early' /\ Counted' BY <2>1 DEF Early, Counted, Ended
      <2>3. EventsTell' BY <2>1 DEF EventsTell, HasHandle
      <2>4. FramesPumped' /\ PumpLater' /\ OnePicture' BY <2>1 DEF FramesPumped, PumpLater, OnePicture, DropActive
      <2> QED BY <2>2, <2>3, <2>4
<1> QED BY <1>1, <1>2, <1>3, <1>4, <1>5, <1>6 DEF Command

LEMMA DisconnectedTask ==
    ASSUME TypeOK, TaskInv, NEW a \in Attempts, NEW task \in {"input", "control", "media"},
           task \in tasks[a], Disconnected(a, task), UNCHANGED <<pc, pump, frames, slot>>
    PROVE  TaskInv'
<1> USE DEF TypeOK, TaskInv
<1>1. Early' BY DEF Early, Disconnected
<1>2. Counted' BY DEF Counted, Ended, Disconnected
<1>3. EventsTell' BY DEF EventsTell, HasHandle, Disconnected
<1>4. FramesPumped' /\ PumpLater' /\ OnePicture' BY DEF FramesPumped, PumpLater, OnePicture
<1> QED BY <1>1, <1>2, <1>3, <1>4

LEMMA SessionTask ==
    ASSUME TypeOK, TaskInv, NEW a \in Attempts, SessionStep(a) PROVE TaskInv'
<1>1. CASE InputTask(a)
      <2>1. UNCHANGED <<pc, slot, pump, frames>> /\ "input" \in tasks[a]
            BY <1>1 DEF InputTask
      <2>2. CASE SendBye(a) BY <2>1, <2>2, TaskSame DEF SendBye
      <2>3. CASE SendFails(a) BY <2>1, <2>3, DisconnectedTask DEF SendFails
      <2>4. CASE NoSender(a)
            <3> USE DEF TypeOK, TaskInv
            <3>1. /\ tasks' = [tasks EXCEPT ![a] = @ \ {"input"}] /\ UNCHANGED events
                  /\ ~HasHandle(a)
                  BY <2>4 DEF NoSender
            <3>2. Early' BY <2>1, <3>1 DEF Early
            <3>3. Counted' BY <2>1, <3>1 DEF Counted, Ended
            <3>4. EventsTell' BY <2>1, <3>1 DEF EventsTell, HasHandle
            <3>5. FramesPumped' /\ PumpLater' /\ OnePicture' BY <2>1 DEF FramesPumped, PumpLater, OnePicture
            <3> QED BY <3>2, <3>3, <3>4, <3>5
      <2> QED BY <1>1, <2>2, <2>3, <2>4 DEF InputTask
<1>2. ASSUME NEW task \in {"control", "media"}, Reader(a, task) PROVE TaskInv'
      BY <1>2, DisconnectedTask DEF Reader
<1>3. CASE Close(a) BY <1>3, TaskSame DEF Close, taskVars
<1>4. CASE Pump(a)
      <2> USE DEF TypeOK, TaskInv
      <2>1. /\ pump' = pump \ {a} /\ frames' = frames \ {a}
            /\ events' = [events EXCEPT ![a] = 0] /\ UNCHANGED <<pc, slot, tasks>>
            /\ a \in pump /\ events[a] > 0
            BY <1>4 DEF Pump
      <2>2. pc[a] \notin {"remember", "publish"} BY <1>4 DEF PumpLater, Pump
      <2>3. Early' BY <2>1 DEF Early
      <2>4. Counted' BY <2>1 DEF Counted, Ended
      <2>5. EventsTell' BY <2>1, <2>2 DEF EventsTell, HasHandle
      <2>6. FramesPumped' /\ PumpLater' /\ OnePicture' BY <2>1 DEF FramesPumped, PumpLater, OnePicture
      <2> QED BY <2>3, <2>4, <2>5, <2>6
<1> QED BY <1>1, <1>2, <1>3, <1>4 DEF SessionStep

LEMMA TaskStep == ASSUME Inv, [Next]_vars PROVE TaskInv'
<1> USE DEF Inv
<1>1. ASSUME NEW t \in Targets, Move(t) PROVE TaskInv'
      BY <1>1, TaskSame DEF Move, taskVars
<1>2. CASE PanelStep BY <1>2, PanelTask
<1>3. ASSUME NEW a \in Attempts, Command(a) PROVE TaskInv' BY <1>3, CommandTask
<1>4. ASSUME NEW a \in Attempts, SessionStep(a) PROVE TaskInv' BY <1>4, SessionTask
<1>5. CASE UNCHANGED vars BY <1>5, TaskSame DEF vars, taskVars
<1> QED BY <1>1, <1>2, <1>3, <1>4, <1>5 DEF Next

LEMMA InvInit == Init => Inv
<1> SUFFICES ASSUME Init PROVE Inv OBVIOUS
<1> USE ViewerAssumption DEF Init
<1>1. TypeOK BY DEF TypeOK, Progress
<1>2. TrustInv BY DEF TrustInv, Targeted, Fresh, Unread, Checked
<1>3. TaskInv
      BY DEF TaskInv, Early, Counted, Ended, EventsTell, HasHandle, FramesPumped, PumpLater, OnePicture
<1> QED BY <1>1, <1>2, <1>3 DEF Inv

LEMMA InvAlways == Spec => []Inv
<1>1. Inv /\ [Next]_vars => Inv'
      BY TypeStep, TrustStep, TaskStep DEF Inv
<1> QED BY InvInit, <1>1, PTL DEF Spec

(* Every variable of the viewer keeps its type, for any number of connects *)
(* that overlap.                                                           *)
THEOREM TypeCorrect == Spec => []TypeOK
<1>1. Inv => TypeOK BY DEF Inv
<1> QED BY <1>1, InvAlways, PTL

(* Whatever connects overlap, frames are drawn of the session that gets    *)
(* the input, and of one that is about to.                                 *)
THEOREM OnePictureHolds == Spec => []OnePicture
<1>1. Inv => OnePicture BY DEF Inv, TaskInv
<1> QED BY <1>1, InvAlways, PTL

(* A session whose connection is closed and that can do no more has ended: *)
(* its pumps, its readers, and its input task unless it is in the slot.    *)
THEOREM NothingLingersHolds == Spec => []NothingLingers
<1>1. Inv => NothingLingers
      <2> SUFFICES ASSUME Inv, NEW a \in Attempts, pc[a] = "done", ~CanStep(a)
                   PROVE  /\ a \notin pump \cup frames
                          /\ tasks[a] \subseteq (IF slot = a THEN {"input"} ELSE {})
          BY DEF NothingLingers
      <2> USE DEF Inv, TypeOK, TaskInv
      <2>1. tasks[a] \cap {"control", "media"} = {} BY DEF CanStep
      <2>2. a \notin pump BY <2>1 DEF CanStep, EventsTell, HasHandle
      <2>3. a \notin frames BY <2>2 DEF FramesPumped
      <2>4. "input" \in tasks[a] => slot = a BY <2>2 DEF CanStep, HasHandle
      <2> QED BY <2>1, <2>2, <2>3, <2>4
<1> QED BY <1>1, InvAlways, PTL

-----------------------------------------------------------------------------
(* The identities of hosts. *)

LEMMA TrustInit == Init => Trust!Init
BY ViewerAssumption DEF Init, Trust!Init, Stage

(* Steps that are none of a connect.                                       *)
LEMMA TrustStutters ==
    ASSUME UNCHANGED <<pins, target, known, pc>> PROVE UNCHANGED Trust!vars
BY DEF Trust!vars, Stage

(* The next stage of an attempt; the other attempts keep theirs.           *)
LEMMA StageMoves ==
    ASSUME TypeOK, NEW a \in Attempts, NEW step \in Progress, Goes(a, step)
    PROVE  \A b \in Attempts : Stage(b)' = IF b = a
               THEN CASE step \in {"none", "begin", "look up"} -> "out"
                      [] step \in {"dial", "authenticate", "remember"} -> "asking"
                      [] step = "publish" -> "in"
                      [] step = "done" -> "over"
               ELSE Stage(b)
BY DEF TypeOK, Goes, Stage, Progress

LEMMA AskIsNext ==
    ASSUME NEW a \in Attempts, NEW t \in Targets, Trust!Ask(a, t) PROVE Trust!Next
BY DEF Trust!Next

LEMMA BeginTrust ==
    ASSUME Inv, NEW a \in Attempts, Begin(a) PROVE [Trust!Next]_(Trust!vars)
<1> USE DEF Inv
<1>1. pc[a] = "begin" /\ UNCHANGED <<pins, target>> /\ target[a] \in Targets
      BY DEF Begin, TrustInv, Targeted
<1>2. CASE target[a] \in InternetTargets
      <2>1. UNCHANGED known /\ Goes(a, "look up") BY <1>2 DEF Begin
      <2>2. \A b \in Attempts : Stage(b)' = IF b = a THEN "out" ELSE Stage(b)
            BY <2>1, StageMoves DEF Progress
      <2>3. Stage(a) = "out" BY <1>1 DEF Stage
      <2> QED BY <1>1, <2>1, <2>2, <2>3 DEF Trust!vars
<1>3. CASE target[a] \notin InternetTargets
      <2>1. known' = [known EXCEPT ![a] = pins[target[a]]] /\ Goes(a, "dial")
            BY <1>3 DEF Begin
      <2>2. \A b \in Attempts : Stage(b)' = IF b = a THEN "asking" ELSE Stage(b)
            BY <2>1, StageMoves DEF Progress
      <2>3. Stage(a) = "out" BY <1>1 DEF Stage
      <2>4. PICK t \in Targets : t = target[a] BY <1>1
      <2>5. Trust!Ask(a, t) BY <1>1, <2>1, <2>2, <2>3, <2>4 DEF Trust!Ask
      <2> QED BY <2>5, AskIsNext
<1> QED BY <1>2, <1>3

LEMMA LookUpTrust ==
    ASSUME Inv, NEW a \in Attempts, LookUp(a) PROVE Trust!Next
<1> USE DEF Inv
<1>1. /\ pc[a] = "look up" /\ UNCHANGED <<pins, target>> /\ target[a] \in Targets
      /\ known' = [known EXCEPT ![a] = pins[target[a]]] /\ Goes(a, "dial")
      BY DEF LookUp, TrustInv, Targeted
<1>2. \A b \in Attempts : Stage(b)' = IF b = a THEN "asking" ELSE Stage(b)
      BY <1>1, StageMoves DEF Progress
<1>3. Stage(a) = "out" BY <1>1 DEF Stage
<1>4. PICK t \in Targets : t = target[a] BY <1>1
<1>5. Trust!Ask(a, t) BY <1>1, <1>2, <1>3, <1>4 DEF Trust!Ask
<1> QED BY <1>5, AskIsNext

LEMMA DialTrust ==
    ASSUME Inv, NEW a \in Attempts, Dial(a) \/ Authenticate(a) PROVE UNCHANGED Trust!vars
<1> USE DEF Inv
<1>1. /\ pc[a] \in {"dial", "authenticate"} /\ UNCHANGED <<pins, target, known>>
      /\ Goes(a, "authenticate") \/ Goes(a, "remember")
      BY DEF Dial, DialLan, DialInternet, Authenticate, commandVars
<1>2. \A b \in Attempts : Stage(b)' = IF b = a THEN "asking" ELSE Stage(b)
      BY <1>1, StageMoves, ZenonT(30) DEF Progress
<1>3. Stage(a) = "asking" BY <1>1 DEF Stage
<1> QED BY <1>1, <1>2, <1>3 DEF Trust!vars

LEMMA RememberTrust ==
    ASSUME Inv, NEW a \in Attempts, Remember(a) PROVE Trust!Next
<1> USE DEF Inv
<1>1. /\ pc[a] = "remember" /\ UNCHANGED <<target, known>> /\ target[a] \in Targets
      /\ pins' = [pins EXCEPT ![target[a]] = peer[a]] /\ Goes(a, "publish")
      /\ peer[a] \in Ids /\ known[a] \in {NoId, peer[a]}
      BY DEF Remember, TrustInv, Targeted, Checked, Matches, commandVars
<1>2. \A b \in Attempts : Stage(b)' = IF b = a THEN "in" ELSE Stage(b)
      BY <1>1, StageMoves, ZenonT(30) DEF Progress
<1>3. Stage(a) = "asking" BY <1>1 DEF Stage
<1>4. \A b \in Attempts : Stage(b)' = "out" <=> Stage(b) = "out" BY <1>2, <1>3
<1>5. Trust!Admit(a, peer[a]) BY <1>1, <1>2, <1>3, <1>4 DEF Trust!Admit
<1> QED BY <1>1, <1>5 DEF Trust!Next

LEMMA ReturnsOver ==
    ASSUME Inv, NEW a \in Attempts, NEW answer, pc[a] # "done", Returns(a, answer),
           UNCHANGED pins
    PROVE  Trust!Next
<1> USE DEF Inv
<1>1. /\ target' = [target EXCEPT ![a] = NoTarget] /\ known' = [known EXCEPT ![a] = NoId]
      /\ Goes(a, "done")
      BY DEF Returns
<1>2. \A b \in Attempts : Stage(b)' = IF b = a THEN "over" ELSE Stage(b)
      BY <1>1, StageMoves, ZenonT(30) DEF Progress
<1>3. Stage(a) # "over" BY DEF Stage, TypeOK, Progress
<1>4. /\ target'[a] = NoTarget /\ known'[a] = NoId
      /\ \A b \in Attempts : b # a => target'[b] = target[b] /\ known'[b] = known[b]
      BY <1>1 DEF TypeOK
<1>5. Trust!Over(a) BY <1>1, <1>2, <1>3, <1>4 DEF Trust!Over
<1> QED BY <1>5 DEF Trust!Next

LEMMA TrustSteps == ASSUME Inv, [Next]_vars PROVE [Trust!Next]_(Trust!vars)
<1>1. ASSUME NEW t \in Targets, Move(t) PROVE UNCHANGED Trust!vars
      BY <1>1, TrustStutters DEF Move, commandVars
<1>2. CASE PanelStep
      <2>1. ASSUME NEW t \in Targets, Click(t) PROVE UNCHANGED Trust!vars
            <3>1. /\ clicks' \in Attempts /\ pc[clicks'] = "none" /\ UNCHANGED <<pins, known>>
                  /\ pc' = [pc EXCEPT ![clicks'] = "begin"]
                  /\ target' = [target EXCEPT ![clicks'] = t]
                  BY <2>1, MoreClicks DEF Click, ConnectScreen, Inv, TypeOK, TrustInv, Fresh, Attempts
            <3>2. \A b \in Attempts : Stage(b)' = Stage(b)
                  BY <3>1 DEF Inv, TypeOK, Stage
            <3>3. Stage(clicks') = "out" BY <3>1 DEF Stage
            <3>4. \A b \in Attempts : b # clicks' => target'[b] = target[b]
                  BY <3>1 DEF Inv, TypeOK
            <3> QED BY <3>1, <3>2, <3>3, <3>4 DEF Trust!vars
      <2>2. ASSUME NEW a \in Attempts, Resolve(a) \/ Hear(a) PROVE UNCHANGED Trust!vars
            BY <2>2, TrustStutters DEF Resolve, Hear, commandVars
      <2>3. CASE ClickDisconnect \/ Leave \/ Input
            BY <2>3, TrustStutters DEF ClickDisconnect, Leave, Dispose, Input, commandVars
      <2> QED BY <1>2, <2>1, <2>2, <2>3 DEF PanelStep
<1>3. ASSUME NEW a \in Attempts, Command(a) PROVE [Trust!Next]_(Trust!vars)
      <2>1. CASE Publish(a) \/ Fail(a)
            BY <2>1, ReturnsOver DEF Publish, Fail
      <2> QED BY <1>3, <2>1, BeginTrust, LookUpTrust, DialTrust, RememberTrust DEF Command
<1>4. ASSUME NEW a \in Attempts, SessionStep(a) PROVE UNCHANGED Trust!vars
      BY <1>4, TrustStutters DEF SessionStep, InputTask, Reader, Close, Pump, commandVars
<1>5. CASE UNCHANGED vars BY <1>5, TrustStutters DEF vars, commandVars
<1> QED BY <1>1, <1>2, <1>3, <1>4, <1>5 DEF Next

(* The viewer implements TrustOnFirstUse: whatever connects overlap and    *)
(* whichever hosts move, a session only starts with the host known when    *)
(* its connect asked, or with any if none was known.                       *)
THEOREM TrustKept == Spec => KeepsTrust
<1>1. Inv /\ [Next]_vars => [Trust!Next]_(Trust!vars) BY TrustSteps
<1> QED BY TrustInit, InvAlways, <1>1, PTL DEF Spec, KeepsTrust, Trust!Spec
=============================================================================

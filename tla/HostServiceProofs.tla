-------------------------- MODULE HostServiceProofs --------------------------
(***************************************************************************)
(* Proofs about HostService, for any number of viewers and sources, any    *)
(* threshold, with and without an Internet registration.                   *)
(***************************************************************************)
EXTENDS HostService, SequenceTheorems, TLAPS

(* The host serves somebody exactly between accept and close. *)
SomebodyServed == cur # None <=> pc \in Serving

(* Where a viewer is in. *)
In == InSession \cup {"Setup", "Teardown"}

(* What the code of the round was used for.                                *)
CodeSpent ==
    /\ pc \in {"Accept", "Unregister", "LastUnregister"} \cup Serving => code > 0
    /\ pc \in {"Approval", "Accepting"} => knows[cur] = code
    /\ \A v \in Viewers :
           usedCode[v] # 0 =>
               /\ usedCode[v] <= code
               /\ knows[v] = usedCode[v]
               /\ conn[v] \in {"open", "closed"}
               /\ usedCode[v] = code =>
                      pc \notin {"Accept", "Accepting", "Approval"} \cup Handshaking
               /\ cur = v => pc \in In
    /\ \A v, w \in Viewers :
           usedCode[v] # 0 /\ usedCode[v] = usedCode[w] => v = w

(* A round begins without a registration. *)
Unregistered == pc = "Register" => ~reg

(* The steps of the listeners on one connection. *)
ListenerStep(v) ==
    TakeIncoming(v) \/ AcceptOk(v) \/ AcceptFails(v) \/ WrongProtocol(v)

(* The inductive invariant. *)
HostInv ==
    /\ TypeOK
    /\ SomebodyServed
    /\ OnlyServedIsOpen
    /\ Unregistered
    /\ RefreshOnlyWhileRegistered
    /\ BlockedIsNeverServed
    /\ CodeSpent

-----------------------------------------------------------------------------
LEMMA GuardAddrType ==
    ASSUME TypeOK, NEW v \in Viewers
    PROVE  GuardAddr(v) \in Sources
BY HostAssumption DEF TypeOK, GuardAddr

(* The steps of the lockout keep its types. *)
LEMMA StrikeKeepsTypes ==
    ASSUME Guard!TypeOK, NEW s \in Sources, Guard!Strike(s)
    PROVE  Guard!TypeOK'
BY HostAssumption DEF Guard!TypeOK, Guard!Strike

LEMMA ClearKeepsTypes ==
    ASSUME Guard!TypeOK, NEW s \in Sources, Guard!Clear(s)
    PROVE  Guard!TypeOK'
BY HostAssumption DEF Guard!TypeOK, Guard!Clear

LEMMA TimeKeepsTypes ==
    ASSUME Guard!TypeOK, NEW S \in SUBSET Sources, Guard!Lapse(S) \/ Guard!Forget(S)
    PROVE  Guard!TypeOK'
BY HostAssumption DEF Guard!TypeOK, Guard!Lapse, Guard!Forget

(* Emit appends an event of its type. *)
LEMMA EmitKeepsTypes ==
    ASSUME events \in Seq(Event), pump \in BOOLEAN, NEW type, NEW of,
           [type |-> type, of |-> of] \in Event, Emit(type, of)
    PROVE  events' \in Seq(Event)
BY DEF Emit

(* Taking from the front of a queue. *)
LEMMA HeadTailTypes ==
    ASSUME NEW S, NEW seq \in Seq(S), seq # <<>>
    PROVE  Head(seq) \in S /\ Tail(seq) \in Seq(S)
OBVIOUS

(* Showing an event of its type keeps the panel in its own. *)
LEMMA ShowType ==
    ASSUME NEW p \in Panel, NEW e \in Event
    PROVE  Show(p, e) \in Panel
<1>1. CASE e.type = "code"
  BY <1>1 DEF Show, Panel, Event, Peer
<1>2. CASE e.type = "request"
  BY <1>2 DEF Show, Panel, Event, Peer
<1>3. CASE e.type = "started"
  BY <1>3 DEF Show, Panel, Event, Peer
<1>4. CASE e.type = "ended"
  BY <1>4 DEF Show, Panel, Event, Peer
<1>. QED
  BY <1>1, <1>2, <1>3, <1>4 DEF Event

-----------------------------------------------------------------------------
(* Steps keep the types.  Where a step emits an event or strikes, the      *)
(* lemmas above say so of `events` and the guard.                          *)
LEMMA HostStepTypes ==
    ASSUME TypeOK, SomebodyServed, HostStep
    PROVE  TypeOK'
<1>. USE DEF hostVars, guardVars, viewerVars, appVars, history, Locations, Peer,
             Handshaking, Serving, InSession, SomebodyServed
<1>0. code \in Nat /\ code + 1 \in Nat /\ refresh \in SUBSET Nat
  <2>1. code \in Nat /\ refresh \in SUBSET Nat
    BY DEF TypeOK
  <2>. QED
    BY <2>1
<1>1. ASSUME NEW ok \in BOOLEAN, Register(ok) PROVE TypeOK'
  <2>1. refresh' = refresh \/ refresh' = refresh \cup {code + 1}
    BY <1>1 DEF Register
  <2>2. refresh' \in SUBSET Nat
    BY <2>1, <1>0
  <2>. QED
    BY <1>1, <2>2 DEF TypeOK, Guard!TypeOK, Register
<1>2. CASE Announce
  <2>1. CASE pump /\ code' = code + 1 /\ Emit("code", code + 1)
    <3>1. [type |-> "code", of |-> code + 1] \in Event
      BY <1>0 DEF Event
    <3>2. events' \in Seq(Event)
      BY <2>1, <3>1, EmitKeepsTypes DEF TypeOK
    <3>3. code' \in Nat
      BY <2>1, <1>0
    <3>4. /\ pc' = "Accept" /\ reg' = reg /\ conn' = conn
          /\ UNCHANGED <<cur, refresh, guardVars, path, knows, left, commands,
                         appVars, history>>
      BY <1>2, <2>1 DEF Announce
    <3>. QED
      BY <3>2, <3>3, <3>4 DEF TypeOK, Guard!TypeOK
  <2>2. CASE ~pump
    BY <1>2, <2>2 DEF TypeOK, Guard!TypeOK, Announce, Close
  <2>. QED
    BY <1>2, <2>1, <2>2 DEF Announce
<1>3. CASE Unregister
  BY <1>3 DEF TypeOK, Guard!TypeOK, Unregister, Close
<1>4. ASSUME NEW v \in Viewers, ListenerStep(v)
      PROVE  TypeOK'
  BY <1>4, ZenonT(30) DEF TypeOK, Guard!TypeOK, ListenerStep, TakeIncoming,
                          AcceptOk, AcceptFails, WrongProtocol, Close
<1>5. CASE AcceptControl \/ RecvHello \/ RecvNoAuthRequest \/ RecvFromBlocked
  BY <1>5, ZenonT(30) DEF TypeOK, Guard!TypeOK, AcceptControl, RecvHello,
                          RecvNoAuthRequest, RecvFromBlocked, Proceed, Finish, Close
<1>6. CASE RecvWrongCode
  <2>1. cur \in Viewers
    BY <1>6 DEF TypeOK, RecvWrongCode
  <2>2. Guard!TypeOK'
    BY <1>6, <2>1, GuardAddrType, StrikeKeepsTypes DEF TypeOK, RecvWrongCode
  <2>. QED
    BY <1>6, <2>2 DEF TypeOK, RecvWrongCode, Finish, Close
<1>7. CASE RecvRightCode
  <2>1. cur \in Viewers
    BY <1>7 DEF TypeOK, RecvRightCode
  <2>2. events' \in Seq(Event)
    BY <1>7, <2>1, EmitKeepsTypes DEF TypeOK, Event, RecvRightCode
  <2>. QED
    BY <1>7, <2>2 DEF TypeOK, Guard!TypeOK, RecvRightCode, Proceed
<1>8. CASE Decide
  <2>1. commands # <<>> =>
            Head(commands).click \in Nat /\ Tail(commands) \in Seq(Command)
    <3>1. commands \in Seq(Command)
      BY DEF TypeOK
    <3>2. commands # <<>> =>
              Head(commands) \in Command /\ Tail(commands) \in Seq(Command)
      BY <3>1, HeadTailTypes
    <3>. QED
      BY <3>2 DEF Command
  <2>2. commands' \in Seq(Command) /\ approvedBy' \in [Viewers -> Nat]
    BY <1>8, <2>1 DEF TypeOK, Decide
  <2>. QED
    BY <1>8, <2>2 DEF TypeOK, Guard!TypeOK, Decide, Proceed, Finish, Close
<1>9. CASE SendAccepted
  <2>1. cur \in Viewers
    BY <1>9 DEF TypeOK, SendAccepted
  <2>2. Guard!TypeOK'
    BY <1>9, <2>1, GuardAddrType, ClearKeepsTypes DEF TypeOK, SendAccepted
  <2>. QED
    BY <1>9, <2>1, <2>2, ZenonT(30) DEF TypeOK, SendAccepted, Proceed, Finish, Close
<1>10. CASE StartSession
  <2>1. cur \in Viewers
    BY <1>10 DEF TypeOK, StartSession
  <2>2. events' \in Seq(Event)
    BY <1>10, <2>1, EmitKeepsTypes DEF TypeOK, Event, StartSession
  <2>. QED
    BY <1>10, <2>2 DEF TypeOK, Guard!TypeOK, StartSession, Proceed
<1>11. CASE SetupFails \/ SessionAbandoned \/ ConnectionLost \/ ReplySent
  BY <1>11 DEF TypeOK, Guard!TypeOK, SetupFails, SessionAbandoned, ConnectionLost,
               ReplySent, Proceed, Finish, Close
<1>12. CASE SessionCommand
  <2>1. Tail(commands) \in Seq(Command)
    BY <1>12, HeadTailTypes DEF TypeOK, SessionCommand
  <2>. QED
    BY <1>12, <2>1 DEF TypeOK, Guard!TypeOK, SessionCommand, Proceed
<1>13. CASE EndSession
  <2>1. cur \in Viewers
    BY <1>13 DEF TypeOK, EndSession
  <2>2. events' \in Seq(Event)
    BY <1>13, <2>1, EmitKeepsTypes DEF TypeOK, Event, EndSession
  <2>. QED
    BY <1>13, <2>1, <2>2 DEF TypeOK, Guard!TypeOK, EndSession, Finish, Close
<1>. QED
  BY <1>1, <1>2, <1>3, <1>4, <1>5, <1>6, <1>7, <1>8, <1>9, <1>10, <1>11, <1>12,
     <1>13 DEF HostStep, ListenerStep

LEMMA OtherStepTypes ==
    ASSUME TypeOK, SomebodyServed,
           EndpointLost \/ AppStep \/ ViewerStep \/ TimePasses \/ UNCHANGED vars
    PROVE  TypeOK'
<1>. USE DEF hostVars, guardVars, viewerVars, appVars, history, Locations, Peer
<1>1. CASE EndpointLost
  BY <1>1 DEF TypeOK, Guard!TypeOK, EndpointLost, Close
<1>2. CASE PumpEvent
  <2>1. Head(events) \in Event /\ Tail(events) \in Seq(Event)
    BY <1>2 DEF TypeOK, PumpEvent
  <2>2. panel' \in Panel
    BY <1>2, <2>1, ShowType DEF TypeOK, PumpEvent
  <2>. QED
    BY <1>2, <2>1, <2>2 DEF TypeOK, Guard!TypeOK, PumpEvent
<1>3. CASE PumpEnds
  <2>1. panel' \in Panel
    BY <1>3 DEF TypeOK, PumpEnds, Panel
  <2>2. events' \in Seq(Event)
    BY <1>3 DEF PumpEnds
  <2>. QED
    BY <1>3, <2>1, <2>2 DEF TypeOK, Guard!TypeOK, PumpEnds
<1>4. CASE StopHost
  BY <1>4 DEF TypeOK, Guard!TypeOK, StopHost
<1>5. ASSUME NEW do \in {"approve", "reject", "stop"}, Click(do) PROVE TypeOK'
  <2>. DEFINE about == IF do = "stop" THEN panel.session ELSE panel.pending
  <2>1. about \in Viewers
    BY <1>5 DEF Click, TypeOK, Panel
  <2>2. clickLog' \in Seq(Viewers)
    BY <1>5, <2>1 DEF Click, TypeOK
  <2>3. [do |-> do, click |-> Len(clickLog')] \in Command
    BY <2>2 DEF Command
  <2>4. commands' \in Seq(Command)
    BY <1>5, <2>3 DEF Click, TypeOK
  <2>. QED
    BY <1>5, <2>2, <2>4 DEF TypeOK, Guard!TypeOK, Click
<1>6. ASSUME NEW v \in Viewers, NEW way \in {"lan", "iroh"},
             NEW c \in 0 .. panel.code, Connect(v, way, c)
      PROVE  TypeOK'
  <2>1. c \in Nat
    BY <1>6 DEF TypeOK, Panel
  <2>. QED
    BY <1>6, <2>1 DEF TypeOK, Guard!TypeOK, Connect
<1>7. ASSUME NEW v \in Viewers, Leave(v) PROVE TypeOK'
  BY <1>7 DEF TypeOK, Guard!TypeOK, Leave
<1>8. CASE ViewerDisconnects \/ ViewerAsks
  BY <1>8 DEF TypeOK, Guard!TypeOK, ViewerDisconnects, ViewerAsks, Proceed, InSession
<1>9. CASE TimePasses
  <2>1. Guard!TypeOK'
    BY <1>9, TimeKeepsTypes DEF TypeOK, TimePasses
  <2>. QED
    BY <1>9, <2>1 DEF TypeOK, TimePasses
<1>10. CASE UNCHANGED vars
  BY <1>10 DEF TypeOK, Guard!TypeOK, vars
<1>. QED
  BY <1>1, <1>2, <1>3, <1>4, <1>5, <1>6, <1>7, <1>8, <1>9, <1>10
     DEF AppStep, ViewerStep

-----------------------------------------------------------------------------
(* The steps of the application, of the viewers and of the clock that      *)
(* touch neither the control state nor a connection.                       *)
Outside ==
    \/ AppStep
    \/ \E v \in Viewers : Leave(v)
    \/ UNCHANGED vars

LEMMA OutsideChanges ==
    ASSUME Outside
    PROVE  UNCHANGED <<hostVars, guardVars, conn, path, knows, usedCode>>
BY DEF Outside, AppStep, PumpEvent, PumpEnds, StopHost, Click, Leave, vars,
       hostVars, guardVars, viewerVars, appVars, history

(* The steps within the service of one viewer: where they lead.            *)
ServingStep ==
    \/ AcceptControl \/ RecvHello \/ RecvNoAuthRequest
    \/ RecvFromBlocked \/ RecvWrongCode \/ RecvRightCode
    \/ Decide \/ SendAccepted
    \/ StartSession \/ SetupFails
    \/ SessionCommand \/ SessionAbandoned \/ ConnectionLost \/ EndSession
    \/ ViewerDisconnects \/ ViewerAsks \/ ReplySent

(* Either the viewer stays, and nothing happens to any connection, or it   *)
(* goes and its connection is closed.                                      *)
Stays == pc' \in Serving /\ cur' = cur /\ conn' = conn
Goes == pc' = "Unregister" /\ cur' = None /\ Close({cur})

LEMMA ServingStepEffect ==
    ASSUME TypeOK, ServingStep
    PROVE  /\ pc \in Serving
           /\ Stays \/ Goes
           /\ UNCHANGED <<code, reg, refresh, path, knows, left>>
<1>. USE DEF Serving, InSession, Handshaking, Stays, Goes, viewerVars
<1>1. CASE AcceptControl
  BY <1>1 DEF AcceptControl, Proceed, Finish
<1>2. CASE RecvHello
  BY <1>2 DEF RecvHello, Proceed, Finish
<1>3. CASE RecvNoAuthRequest \/ RecvFromBlocked \/ RecvWrongCode
  BY <1>3 DEF RecvNoAuthRequest, RecvFromBlocked, RecvWrongCode, Finish
<1>4. CASE RecvRightCode
  BY <1>4 DEF RecvRightCode, Proceed
<1>5. CASE Decide
  BY <1>5 DEF Decide, Proceed, Finish
<1>6. CASE SendAccepted
  BY <1>6 DEF SendAccepted, Proceed, Finish
<1>7. CASE StartSession \/ SessionAbandoned \/ ConnectionLost \/ ViewerDisconnects
           \/ ViewerAsks \/ ReplySent
  BY <1>7 DEF StartSession, SessionAbandoned, ConnectionLost, ViewerDisconnects,
              ViewerAsks, ReplySent, Proceed
<1>8. CASE SetupFails \/ EndSession
  BY <1>8 DEF SetupFails, EndSession, Finish
<1>9. CASE SessionCommand
  BY <1>9 DEF SessionCommand, Proceed
<1>. QED
  BY <1>1, <1>2, <1>3, <1>4, <1>5, <1>6, <1>7, <1>8, <1>9 DEF ServingStep

(* The cases of a step. *)
LEMMA StepCases ==
    ASSUME [Next]_vars
    PROVE  \/ \E ok \in BOOLEAN : Register(ok)
           \/ Announce \/ Unregister \/ EndpointLost
           \/ \E v \in Viewers : ListenerStep(v)
           \/ ServingStep
           \/ \E v \in Viewers, way \in {"lan", "iroh"} :
                  \E c \in 0 .. panel.code : Connect(v, way, c)
           \/ TimePasses
           \/ Outside
BY DEF Next, HostStep, ServingStep, ListenerStep, Outside, ViewerStep

-----------------------------------------------------------------------------
(* Only the viewer that is served has an open connection. *)
LEMMA ServedStep ==
    ASSUME TypeOK, SomebodyServed, OnlyServedIsOpen, [Next]_vars
    PROVE  SomebodyServed' /\ OnlyServedIsOpen'
<1>. USE DEF SomebodyServed, OnlyServedIsOpen, Shaking, Serving, InSession, Handshaking
<1>1. ASSUME NEW ok \in BOOLEAN, Register(ok)
      PROVE  SomebodyServed' /\ OnlyServedIsOpen'
  BY <1>1 DEF Register, viewerVars
<1>2. CASE Announce
  BY <1>2 DEF Announce, Close, InQueue, TypeOK
<1>3. CASE Unregister
  BY <1>3 DEF Unregister, Close, InQueue, TypeOK
<1>4. CASE EndpointLost
  BY <1>4 DEF EndpointLost, Close, TypeOK
<1>5. ASSUME NEW v \in Viewers, TakeIncoming(v)
      PROVE  SomebodyServed' /\ OnlyServedIsOpen'
  BY <1>5 DEF TakeIncoming, TypeOK, hostVars
<1>6. ASSUME NEW v \in Viewers, AcceptOk(v)
      PROVE  SomebodyServed' /\ OnlyServedIsOpen'
  BY <1>6, HostAssumption DEF AcceptOk, TypeOK
<1>7. ASSUME NEW v \in Viewers, AcceptFails(v) \/ WrongProtocol(v)
      PROVE  SomebodyServed' /\ OnlyServedIsOpen'
  BY <1>7 DEF AcceptFails, WrongProtocol, Close, hostVars, TypeOK
<1>8. CASE ServingStep
  <2>1. pc \in Serving
    BY <1>8, ServingStepEffect
  <2>2. CASE Stays
    BY <2>1, <2>2 DEF Stays
  <2>3. CASE Goes
    BY <2>1, <2>3 DEF Goes, Close, TypeOK
  <2>. QED
    BY <1>8, <2>2, <2>3, ServingStepEffect
<1>9. ASSUME NEW v \in Viewers, NEW way \in {"lan", "iroh"},
             NEW c \in 0 .. panel.code, Connect(v, way, c)
      PROVE  SomebodyServed' /\ OnlyServedIsOpen'
  BY <1>9 DEF Connect, TypeOK, hostVars
<1>10. CASE TimePasses \/ Outside
  BY <1>10, OutsideChanges DEF TimePasses, hostVars, viewerVars
<1>. QED
  BY <1>1, <1>2, <1>3, <1>4, <1>5, <1>6, <1>7, <1>8, <1>9, <1>10, StepCases
     DEF ListenerStep

(* The refresh tasks are those of the registration that is up. *)
LEMMA RefreshStep ==
    ASSUME TypeOK, Unregistered, RefreshOnlyWhileRegistered, [Next]_vars
    PROVE  Unregistered' /\ RefreshOnlyWhileRegistered'
<1>. USE DEF Unregistered, RefreshOnlyWhileRegistered
<1>1. ASSUME NEW ok \in BOOLEAN, Register(ok)
      PROVE  Unregistered' /\ RefreshOnlyWhileRegistered'
  BY <1>1 DEF Register
<1>2. CASE Announce
  BY <1>2 DEF Announce
<1>3. CASE Unregister
  BY <1>3 DEF Unregister
<1>4. CASE EndpointLost
  BY <1>4 DEF EndpointLost
<1>5. ASSUME NEW v \in Viewers, ListenerStep(v)
      PROVE  Unregistered' /\ RefreshOnlyWhileRegistered'
  BY <1>5 DEF ListenerStep, TakeIncoming, AcceptOk, AcceptFails, WrongProtocol, hostVars
<1>6. CASE ServingStep
  BY <1>6, ServingStepEffect DEF Stays, Goes, Serving, InSession, Handshaking
<1>7. ASSUME NEW v \in Viewers, NEW way \in {"lan", "iroh"},
             NEW c \in 0 .. panel.code, Connect(v, way, c)
      PROVE  Unregistered' /\ RefreshOnlyWhileRegistered'
  BY <1>7 DEF Connect, hostVars
<1>8. CASE TimePasses \/ Outside
  BY <1>8, OutsideChanges DEF TimePasses, hostVars
<1>. QED
  BY <1>1, <1>2, <1>3, <1>4, <1>5, <1>6, <1>7, <1>8, StepCases

(* A source is not blocked while the host lets its viewer in: nobody else  *)
(* is served meanwhile, and time only ends blocks.                         *)
LEMMA BlockedStep ==
    ASSUME TypeOK, OnlyServedIsOpen, BlockedIsNeverServed, [Next]_vars
    PROVE  BlockedIsNeverServed'
<1>. USE DEF BlockedIsNeverServed, GuardAddr
<1>1. CASE pc' \notin {"Approval", "Accepting"}
  BY <1>1
<1>2. CASE RecvRightCode
  BY <1>2 DEF RecvRightCode, Proceed, guardVars, viewerVars
<1>3. CASE Decide
  BY <1>3 DEF Decide, Proceed, Finish, guardVars, viewerVars
<1>4. CASE ServingStep /\ ~RecvRightCode /\ ~Decide
  <2>1. pc' \notin {"Approval", "Accepting"}
    BY <1>4 DEF ServingStep, AcceptControl, RecvHello, RecvNoAuthRequest,
                RecvFromBlocked, RecvWrongCode, SendAccepted, StartSession,
                SetupFails, SessionCommand, SessionAbandoned, ConnectionLost,
                EndSession, ViewerDisconnects, ViewerAsks, ReplySent, Proceed, Finish
  <2>. QED
    BY <2>1
<1>5. CASE pc \in {"Approval", "Accepting"} /\ ~ServingStep
  <2>1. conn[cur] = "open" \/ cur \notin Viewers
    BY <1>5 DEF OnlyServedIsOpen, Serving, InSession
  <2>2. ASSUME NEW v \in Viewers, NEW way \in {"lan", "iroh"},
               NEW c \in 0 .. panel.code, Connect(v, way, c)
        PROVE  BlockedIsNeverServed'
    BY <2>1, <2>2 DEF Connect, hostVars, guardVars, TypeOK
  <2>3. CASE TimePasses
    BY <2>3 DEF TimePasses, Guard!Lapse, Guard!Forget, hostVars, viewerVars
  <2>4. CASE Outside
    BY <2>4, OutsideChanges DEF hostVars, guardVars
  <2>. QED
    BY <1>5, <2>2, <2>3, <2>4, StepCases
       DEF Register, Announce, Unregister, EndpointLost, ListenerStep,
           TakeIncoming, AcceptOk, AcceptFails, WrongProtocol
<1>6. CASE pc \notin {"Approval", "Accepting"} /\ ~ServingStep
  <2>1. pc' \notin {"Approval", "Accepting"}
    BY <1>6, StepCases, OutsideChanges
       DEF Register, Announce, Unregister, EndpointLost, ListenerStep,
           TakeIncoming, AcceptOk, AcceptFails, WrongProtocol, Connect, TimePasses, hostVars
  <2>. QED
    BY <2>1
<1>. QED
  BY <1>2, <1>3, <1>4, <1>5, <1>6

(* What the codes were used for.                                           *)
LEMMA CodeStep ==
    ASSUME TypeOK, SomebodyServed, OnlyServedIsOpen, CodeSpent, [Next]_vars
    PROVE  CodeSpent'
<1>. USE DEF CodeSpent, Handshaking, Serving, InSession, In
<1>1. ASSUME NEW ok \in BOOLEAN, Register(ok) PROVE CodeSpent'
  BY <1>1 DEF Register, viewerVars, history, TypeOK
<1>2. CASE Announce
  BY <1>2 DEF Announce, Close, InQueue, history, TypeOK, SomebodyServed
<1>3. CASE Unregister
  BY <1>3 DEF Unregister, Close, InQueue, history, TypeOK
<1>4. CASE EndpointLost
  BY <1>4 DEF EndpointLost, Close, history, TypeOK
<1>5. ASSUME NEW v \in Viewers, TakeIncoming(v) PROVE CodeSpent'
  BY <1>5 DEF TakeIncoming, hostVars, history, TypeOK
<1>6. ASSUME NEW v \in Viewers, AcceptOk(v) PROVE CodeSpent'
  BY <1>6 DEF AcceptOk, history, TypeOK
<1>7. ASSUME NEW v \in Viewers, AcceptFails(v) \/ WrongProtocol(v) PROVE CodeSpent'
  BY <1>7 DEF AcceptFails, WrongProtocol, Close, hostVars, history, TypeOK
<1>8. CASE SendAccepted
  <2>1. cur \in Viewers /\ usedCode[cur] = 0 /\ knows[cur] = code /\ code > 0
    BY <1>8 DEF SendAccepted, SomebodyServed, TypeOK, Peer
  <2>2. CASE /\ Proceed("Setup")
             /\ usedCode' = [usedCode EXCEPT ![cur] = code]
    <3>1. \A v \in Viewers : usedCode[v] # code
      BY <1>8, <2>1 DEF SendAccepted
    <3>2. conn[cur] = "open"
      BY <1>8, <2>1 DEF SendAccepted, OnlyServedIsOpen
    <3>. QED
      BY <2>1, <2>2, <3>1, <3>2 DEF Proceed, viewerVars, TypeOK
  <2>3. CASE Finish /\ usedCode' = usedCode
    BY <1>8, <2>1, <2>3, HostAssumption DEF SendAccepted, Finish, Close, TypeOK
  <2>. QED
    BY <1>8, <2>2, <2>3 DEF SendAccepted
<1>9. CASE ServingStep /\ ~SendAccepted
  <2>1. usedCode' = usedCode
    BY <1>9 DEF ServingStep, AcceptControl, RecvHello, RecvNoAuthRequest,
                RecvFromBlocked, RecvWrongCode, RecvRightCode, Decide, StartSession,
                SetupFails, SessionCommand, SessionAbandoned, ConnectionLost,
                EndSession, ViewerDisconnects, ViewerAsks, ReplySent, history
  <2>2. /\ pc \in Serving /\ cur \in Viewers
        /\ UNCHANGED <<code, reg, refresh, path, knows, left>>
    BY <1>9, ServingStepEffect DEF SomebodyServed, TypeOK, Peer
  <2>3. CASE Goes
    BY <2>1, <2>2, <2>3, HostAssumption DEF Goes, Close, TypeOK
  <2>4. CASE Stays
    <3>1. pc' \in In => pc \in In
      BY <1>9, <2>4
         DEF ServingStep, AcceptControl, RecvHello, RecvNoAuthRequest,
             RecvFromBlocked, RecvWrongCode, RecvRightCode, Decide, StartSession,
             SetupFails, SessionCommand, SessionAbandoned, ConnectionLost,
             EndSession, ViewerDisconnects, ViewerAsks, ReplySent, Proceed, Finish
    <3>2. pc \in In => pc' \in In
      BY <1>9, <2>4
         DEF ServingStep, AcceptControl, RecvHello, RecvNoAuthRequest,
             RecvFromBlocked, RecvWrongCode, RecvRightCode, Decide, StartSession,
             SetupFails, SessionCommand, SessionAbandoned, ConnectionLost,
             EndSession, ViewerDisconnects, ViewerAsks, ReplySent, Proceed, Finish, Stays
    <3>3. pc' \in {"Approval", "Accepting"} =>
              pc \in {"Approval", "Accepting"} \/ knows[cur] = code
      BY <1>9, <2>4
         DEF ServingStep, AcceptControl, RecvHello, RecvNoAuthRequest,
             RecvFromBlocked, RecvWrongCode, RecvRightCode, Decide, StartSession,
             SetupFails, SessionCommand, SessionAbandoned, ConnectionLost,
             EndSession, ViewerDisconnects, ViewerAsks, ReplySent, Proceed, Finish
    <3>. QED
      BY <2>1, <2>2, <2>4, <3>1, <3>2, <3>3 DEF Stays, TypeOK
  <2>. QED
    BY <1>9, <2>3, <2>4, ServingStepEffect
<1>10. ASSUME NEW v \in Viewers, NEW way \in {"lan", "iroh"},
             NEW c \in 0 .. panel.code, Connect(v, way, c)
       PROVE CodeSpent'
  <2>1. cur # v \/ pc \notin {"Approval", "Accepting"}
    BY <1>10 DEF Connect, OnlyServedIsOpen
  <2>2. usedCode[v] = 0
    BY <1>10 DEF Connect, TypeOK
  <2>. QED
    BY <1>10, <2>1, <2>2 DEF Connect, hostVars, history, TypeOK
<1>11. CASE TimePasses \/ Outside
  BY <1>11, OutsideChanges DEF TimePasses, hostVars, viewerVars, history
<1>. QED
  BY <1>1, <1>2, <1>3, <1>4, <1>5, <1>6, <1>7, <1>8, <1>9, <1>10, <1>11, StepCases
     DEF ListenerStep

-----------------------------------------------------------------------------
LEMMA InitHostInv == Init => HostInv
<1>. SUFFICES ASSUME Init PROVE HostInv
  OBVIOUS
<1>1. Guard!TypeOK
  BY HostAssumption DEF Init, Guard!Init, Guard!TypeOK
<1>2. panel \in Panel /\ approval \in BOOLEAN
  BY DEF Init, Panel, Peer
<1>3. events \in Seq(Event) /\ commands \in Seq(Command) /\ clickLog \in Seq(Viewers)
  BY DEF Init
<1>4. TypeOK
  BY <1>1, <1>2, <1>3 DEF Init, TypeOK, Locations, Peer
<1>. QED
  BY <1>4 DEF Init, HostInv, SomebodyServed, OnlyServedIsOpen, Unregistered,
              RefreshOnlyWhileRegistered, BlockedIsNeverServed, CodeSpent, Shaking,
              Serving, InSession, Handshaking

LEMMA StepKeepsHostInv == HostInv /\ [Next]_vars => HostInv'
<1>. SUFFICES ASSUME HostInv, [Next]_vars PROVE HostInv'
  OBVIOUS
<1>1. TypeOK'
  BY HostStepTypes, OtherStepTypes DEF HostInv, Next
<1>. QED
  BY <1>1, ServedStep, RefreshStep, BlockedStep, CodeStep DEF HostInv

(* The invariant holds in every reachable state. *)
THEOREM HostInvariant == Spec => []HostInv
BY InitHostInv, StepKeepsHostInv, PTL DEF Spec

(* The variables of the host, the channels and the panel have their types; *)
(* in particular only viewers are ever announced to the user.              *)
THEOREM HostTypes == Spec => []TypeOK
<1>1. HostInv => TypeOK
  BY DEF HostInv
<1>. QED
  BY <1>1, HostInvariant, PTL

(* A code lets in one viewer at most. *)
THEOREM OneViewerPerCode == Spec => []CodeAdmitsOnce
<1>1. HostInv => CodeAdmitsOnce
  BY DEF HostInv, CodeSpent, CodeAdmitsOnce
<1>. QED
  BY <1>1, HostInvariant, PTL

(* No connection outlives the service of its viewer. *)
THEOREM NoConnectionLeftOpen == Spec => []OnlyServedIsOpen
<1>1. HostInv => OnlyServedIsOpen
  BY DEF HostInv
<1>. QED
  BY <1>1, HostInvariant, PTL

(* As long as the host runs, no registration but the current one is renewed. *)
THEOREM RefreshFollowsRegistration == Spec => []RefreshOnlyWhileRegistered
<1>1. HostInv => RefreshOnlyWhileRegistered
  BY DEF HostInv
<1>. QED
  BY <1>1, HostInvariant, PTL

(* A viewer of a blocked source is neither put to the user nor let in. *)
THEOREM BlockedSourcesWait == Spec => []BlockedIsNeverServed
<1>1. HostInv => BlockedIsNeverServed
  BY DEF HostInv
<1>. QED
  BY <1>1, HostInvariant, PTL

-----------------------------------------------------------------------------
(* Every step of the host is a step of its contract, or changes nothing    *)
(* the contract speaks of.                                                 *)

LEMMA ServingStepKeepsContract ==
    ASSUME HostInv, ServingStep
    PROVE  [Contract!Next]_(Contract!contractVars)
<1>. DEFINE Active == IF pc \in In THEN cur ELSE None
<1>0. /\ TypeOK /\ pc \in Serving /\ cur \in Viewers
      /\ Stays \/ Goes
      /\ code' = code
  BY ServingStepEffect DEF HostInv, SomebodyServed, TypeOK, Peer
<1>1. CASE SendAccepted
  <2>1. CASE /\ Proceed("Setup")
             /\ usedCode' = [usedCode EXCEPT ![cur] = code]
    <3>1. Active = None /\ Active' = cur
      BY <1>1, <2>1 DEF SendAccepted, Proceed, In, InSession
    <3>2. /\ code > 0 /\ usedCode[cur] = 0
          /\ \A v \in Viewers : usedCode[v] # code
      <4>1. CodeSpent /\ pc = "Accepting"
        BY <1>1 DEF HostInv, SendAccepted
      <4>. QED
        BY <4>1, <1>0 DEF CodeSpent
    <3>. QED
      BY <1>0, <2>1, <3>1, <3>2 DEF Contract!Admit, Contract!Next, In, InSession
  <2>2. CASE Finish /\ usedCode' = usedCode
    BY <1>0, <1>1, <2>2 DEF SendAccepted, Finish, In, InSession, Contract!contractVars
  <2>. QED
    BY <1>1, <2>1, <2>2 DEF SendAccepted
<1>2. CASE ~SendAccepted
  <2>1. usedCode' = usedCode
    BY <1>2 DEF ServingStep, AcceptControl, RecvHello, RecvNoAuthRequest,
                RecvFromBlocked, RecvWrongCode, RecvRightCode, Decide, StartSession,
                SetupFails, SessionCommand, SessionAbandoned, ConnectionLost,
                EndSession, ViewerDisconnects, ViewerAsks, ReplySent, history
  <2>2. pc' \in In => pc \in In
    BY <1>2 DEF In, InSession, ServingStep, AcceptControl, RecvHello, RecvNoAuthRequest,
                RecvFromBlocked, RecvWrongCode, RecvRightCode, Decide, StartSession,
                SetupFails, SessionCommand, SessionAbandoned, ConnectionLost,
                EndSession, ViewerDisconnects, ViewerAsks, ReplySent, Proceed, Finish
  <2>3. CASE pc \in In /\ pc' \notin In
    <3>1. cur # None
      BY <1>0, HostAssumption
    <3>2. Active = cur /\ Active' = None
      BY <2>3
    <3>3. Contract!Dismiss
      BY <1>0, <2>1, <3>1, <3>2 DEF Contract!Dismiss, In, InSession
    <3>. QED
      BY <3>3 DEF Contract!Next
  <2>4. CASE pc \in In /\ pc' \in In
    BY <1>0, <2>1, <2>4 DEF Stays, Goes, In, InSession, Contract!contractVars
  <2>5. CASE pc \notin In
    BY <1>0, <2>1, <2>2, <2>5 DEF In, InSession, Contract!contractVars
  <2>. QED
    BY <2>3, <2>4, <2>5
<1>. QED
  BY <1>1, <1>2

LEMMA StepKeepsContract ==
    HostInv /\ [Next]_vars => [Contract!Next]_(Contract!contractVars)
<1>. SUFFICES ASSUME HostInv, [Next]_vars
              PROVE  [Contract!Next]_(Contract!contractVars)
  OBVIOUS
<1>. USE DEF Contract!contractVars, InSession
<1>1. ASSUME NEW ok \in BOOLEAN, Register(ok)
      PROVE  UNCHANGED Contract!contractVars
  BY <1>1 DEF Register, history
<1>2. CASE Announce
  BY <1>2 DEF Announce, history, Contract!Next, Contract!Issue
<1>3. CASE Unregister \/ EndpointLost
  BY <1>3 DEF Unregister, EndpointLost, history
<1>4. ASSUME NEW v \in Viewers, ListenerStep(v)
      PROVE  UNCHANGED Contract!contractVars
  BY <1>4 DEF ListenerStep, TakeIncoming, AcceptOk, AcceptFails, WrongProtocol,
              hostVars, history
<1>5. CASE ServingStep
  BY <1>5, ServingStepKeepsContract
<1>6. ASSUME NEW v \in Viewers, NEW way \in {"lan", "iroh"},
             NEW c \in 0 .. panel.code, Connect(v, way, c)
      PROVE  UNCHANGED Contract!contractVars
  BY <1>6 DEF Connect, hostVars, history
<1>7. CASE TimePasses \/ Outside
  BY <1>7, OutsideChanges DEF TimePasses, hostVars, history
<1>. QED
  BY <1>1, <1>2, <1>3, <1>4, <1>5, <1>6, <1>7, StepCases

(* The host, with its listeners, approval and channels, implements what it *)
(* promises: one viewer at a time, let in with the newest code, which no   *)
(* other viewer was let in with.                                           *)
THEOREM HostKeepsContract == Spec => KeepsContract
<1>1. Init => Contract!Init
  BY DEF Init, Contract!Init
<1>. QED
  BY <1>1, StepKeepsContract, HostInvariant, PTL
     DEF Spec, KeepsContract, Contract!Spec

-----------------------------------------------------------------------------
(* The clicks in the command channel are numbered upwards, and are younger *)
(* than every click that was used: so none is used twice.                  *)
ClicksInOrder ==
    /\ \A i \in 1 .. Len(commands) :
           /\ commands[i].click \in 1 .. Len(clickLog)
           /\ \A v \in Viewers : approvedBy[v] < commands[i].click
    /\ \A i, j \in 1 .. Len(commands) :
           i < j => commands[i].click < commands[j].click

ApprovalsSpent ==
    /\ \A v \in Viewers : approvedBy[v] <= Len(clickLog)
    /\ \A v, w \in Viewers :
           approvedBy[v] # 0 /\ approvedBy[v] = approvedBy[w] => v = w
    /\ approval => /\ \A v \in Viewers : usedCode[v] # 0 => approvedBy[v] # 0
                   /\ pc = "Accepting" => approvedBy[cur] # 0

ApprovalInv == ClicksInOrder /\ ApprovalsSpent

clickVars == <<commands, clickLog, approvedBy, approval>>

LEMMA TailOfCommands ==
    ASSUME TypeOK, commands # <<>>, commands' = Tail(commands), clickLog' = clickLog,
           ClicksInOrder
    PROVE  /\ Head(commands).click \in 1 .. Len(clickLog)
           /\ \A v \in Viewers : approvedBy[v] < Head(commands).click
           /\ \A i \in 1 .. Len(commands') :
                  /\ commands'[i].click \in 1 .. Len(clickLog)
                  /\ Head(commands).click < commands'[i].click
           /\ \A i, j \in 1 .. Len(commands') :
                  i < j => commands'[i].click < commands'[j].click
<1>1. /\ commands \in Seq(Command) /\ Len(commands) \in Nat /\ Len(commands) > 0
      /\ Head(commands) = commands[1]
  BY DEF TypeOK
<1>2. /\ Len(commands') = Len(commands) - 1
      /\ \A i \in 1 .. Len(commands') : commands'[i] = commands[i + 1]
  BY <1>1, HeadTailProperties
<1>. QED
  BY <1>1, <1>2 DEF ClicksInOrder

LEMMA ClickStep ==
    ASSUME TypeOK, ApprovalInv, NEW do \in {"approve", "reject", "stop"}, Click(do)
    PROVE  ApprovalInv'
<1>. DEFINE n == Len(clickLog)
            entry == [do |-> do, click |-> Len(clickLog')]
<1>1. clickLog \in Seq(Viewers) /\ commands \in Seq(Command) /\ n \in Nat
  BY DEF TypeOK
<1>2. Len(clickLog') = n + 1
  BY <1>1 DEF Click
<1>3. entry.click = n + 1
  BY <1>2
<1>4. commands' = Append(commands, entry)
  BY DEF Click
<1>. HIDE DEF entry
<1>5. /\ Len(commands') = Len(commands) + 1
      /\ \A i \in 1 .. Len(commands) : commands'[i] = commands[i]
      /\ commands'[Len(commands) + 1] = entry
  BY <1>1, <1>4
<1>6. ClicksInOrder'
  <2>1. Len(commands) \in Nat /\ UNCHANGED approvedBy
    BY <1>1 DEF Click
  <2>2. \A v \in Viewers : approvedBy[v] < n + 1
    BY <1>1 DEF ApprovalInv, ApprovalsSpent, TypeOK
  <2>3. ASSUME NEW i \in 1 .. Len(commands')
        PROVE  /\ commands'[i].click \in 1 .. Len(clickLog')
               /\ \A v \in Viewers : approvedBy'[v] < commands'[i].click
    <3>1. CASE i \in 1 .. Len(commands)
      BY <3>1, <2>1, <1>1, <1>2, <1>5 DEF ApprovalInv, ClicksInOrder
    <3>2. CASE i = Len(commands) + 1
      BY <3>2, <2>1, <2>2, <1>1, <1>2, <1>3, <1>5
    <3>. QED
      BY <3>1, <3>2, <2>1, <1>5
  <2>4. ASSUME NEW i \in 1 .. Len(commands'), NEW j \in 1 .. Len(commands'), i < j
        PROVE  commands'[i].click < commands'[j].click
    <3>1. i \in 1 .. Len(commands)
      BY <2>1, <2>4, <1>5
    <3>2. CASE j \in 1 .. Len(commands)
      BY <3>1, <3>2, <2>4, <1>5 DEF ApprovalInv, ClicksInOrder
    <3>3. CASE j = Len(commands) + 1
      BY <3>1, <3>3, <1>1, <1>3, <1>5 DEF ApprovalInv, ClicksInOrder
    <3>. QED
      BY <3>2, <3>3, <2>1, <1>5
  <2>. QED
    BY <2>3, <2>4 DEF ClicksInOrder
<1>7. ApprovalsSpent'
  <2>1. UNCHANGED <<approvedBy, approval, usedCode, pc, cur>>
    BY DEF Click, appVars, hostVars
  <2>. QED
    BY <2>1, <1>1, <1>2 DEF ApprovalInv, ApprovalsSpent, TypeOK
<1>. QED
  BY <1>6, <1>7 DEF ApprovalInv

(* The other steps that touch no click. *)
LEMMA QuietStep ==
    ASSUME ApprovalInv, UNCHANGED clickVars, UNCHANGED usedCode,
           approval /\ pc' = "Accepting" => pc = "Accepting" /\ cur' = cur
    PROVE  ApprovalInv'
BY DEF ApprovalInv, ClicksInOrder, ApprovalsSpent, clickVars

LEMMA ApprovalStep ==
    ASSUME HostInv, ApprovalInv, [Next]_vars
    PROVE  ApprovalInv'
<1>0. TypeOK
  BY DEF HostInv
<1>1. CASE Decide
  <2>1. cur \in Viewers /\ pc = "Approval" /\ usedCode' = usedCode
        /\ clickLog' = clickLog /\ approval' = approval
    BY <1>0, <1>1 DEF Decide, HostInv, SomebodyServed, Serving, InSession, TypeOK, Peer, appVars
  <2>2. CASE /\ commands # <<>> /\ commands' = Tail(commands)
             /\ Proceed("Accepting")
             /\ approvedBy' = [approvedBy EXCEPT ![cur] = Head(commands).click]
    <3>. DEFINE click == Head(commands).click
    <3>1. ClicksInOrder /\ ApprovalsSpent
      BY DEF ApprovalInv
    <3>2. /\ click \in 1 .. Len(clickLog)
          /\ \A v \in Viewers : approvedBy[v] < click
          /\ \A i \in 1 .. Len(commands') :
                 /\ commands'[i].click \in 1 .. Len(clickLog)
                 /\ click < commands'[i].click
          /\ \A i, j \in 1 .. Len(commands') :
                 i < j => commands'[i].click < commands'[j].click
      BY <1>0, <2>1, <2>2, <3>1, TailOfCommands
    <3>3. /\ approvedBy'[cur] = click
          /\ \A v \in Viewers \ {cur} : approvedBy'[v] = approvedBy[v]
          /\ \A v \in Viewers : approvedBy[v] \in Nat
      BY <1>0, <2>1, <2>2 DEF TypeOK
    <3>4. Len(clickLog) \in Nat
      BY <1>0 DEF TypeOK
    <3>5. pc' = "Accepting" /\ cur' = cur
      BY <2>2 DEF Proceed
    <3>. HIDE DEF click
    <3>6. \A v \in Viewers, i \in 1 .. Len(commands') :
              approvedBy'[v] < commands'[i].click
      BY <3>2, <3>3, <3>4
    <3>7. ClicksInOrder'
      BY <2>1, <3>2, <3>6 DEF ClicksInOrder
    <3>8. ApprovalsSpent'
      BY <2>1, <3>1, <3>2, <3>3, <3>4, <3>5 DEF ApprovalsSpent
    <3>. QED
      BY <3>7, <3>8 DEF ApprovalInv
  <2>3. CASE /\ commands # <<>> /\ commands' = Tail(commands)
             /\ Finish /\ UNCHANGED approvedBy
    <3>. DEFINE click == Head(commands).click
    <3>1. ClicksInOrder /\ ApprovalsSpent
      BY DEF ApprovalInv
    <3>2. /\ click \in 1 .. Len(clickLog)
          /\ \A v \in Viewers : approvedBy[v] < click
          /\ \A i \in 1 .. Len(commands') :
                 /\ commands'[i].click \in 1 .. Len(clickLog)
                 /\ click < commands'[i].click
          /\ \A i, j \in 1 .. Len(commands') :
                 i < j => commands'[i].click < commands'[j].click
      BY <1>0, <2>1, <2>3, <3>1, TailOfCommands
    <3>3. \A v \in Viewers : approvedBy[v] \in Nat /\ approvedBy'[v] = approvedBy[v]
      BY <1>0, <2>3 DEF TypeOK
    <3>4. Len(clickLog) \in Nat
      BY <1>0 DEF TypeOK
    <3>. HIDE DEF click
    <3>5. \A v \in Viewers, i \in 1 .. Len(commands') :
              approvedBy'[v] < commands'[i].click
      BY <3>2, <3>3, <3>4
    <3>6. ClicksInOrder'
      BY <2>1, <3>2, <3>5 DEF ClicksInOrder
    <3>. QED
      BY <3>1, <3>6, <2>1, <2>3 DEF ApprovalInv, ApprovalsSpent, Finish
  <2>4. CASE Finish /\ UNCHANGED <<commands, approvedBy>>
    BY <2>1, <2>4, QuietStep DEF clickVars, Finish
  <2>. QED
    BY <1>1, <2>2, <2>3, <2>4 DEF Decide
<1>2. CASE SessionCommand
  <2>1. /\ commands # <<>> /\ commands' = Tail(commands) /\ pc' # "Accepting"
        /\ UNCHANGED <<clickLog, approvedBy, approval, usedCode>>
    BY <1>2 DEF SessionCommand, Proceed, appVars, history
  <2>2. ClicksInOrder'
    BY <1>0, <2>1, TailOfCommands, SMTT(30) DEF ApprovalInv, ClicksInOrder, TypeOK
  <2>. QED
    BY <2>1, <2>2 DEF ApprovalInv, ApprovalsSpent
<1>3. ASSUME NEW do \in {"approve", "reject", "stop"}, Click(do) PROVE ApprovalInv'
  BY <1>0, <1>3, ClickStep
<1>4. CASE SendAccepted
  <2>1. cur \in Viewers /\ pc = "Accepting" /\ UNCHANGED clickVars /\ pc' # "Accepting"
        /\ (usedCode' = usedCode \/ usedCode' = [usedCode EXCEPT ![cur] = code])
    BY <1>0, <1>4 DEF SendAccepted, HostInv, SomebodyServed, Serving, InSession, TypeOK, Peer,
                      appVars, clickVars, Proceed, Finish
  <2>. QED
    BY <1>0, <2>1 DEF ApprovalInv, ClicksInOrder, ApprovalsSpent, clickVars, TypeOK
<1>5. CASE ServingStep /\ ~Decide /\ ~SessionCommand /\ ~SendAccepted
  <2>1. UNCHANGED clickVars /\ UNCHANGED usedCode
    BY <1>5 DEF ServingStep, AcceptControl, RecvHello, RecvNoAuthRequest,
                RecvFromBlocked, RecvWrongCode, RecvRightCode, StartSession,
                SetupFails, SessionAbandoned, ConnectionLost, EndSession,
                ViewerDisconnects, ViewerAsks, ReplySent, history, appVars, clickVars
  <2>2. approval /\ pc' = "Accepting" => FALSE
    BY <1>5 DEF ServingStep, AcceptControl, RecvHello, RecvNoAuthRequest,
                RecvFromBlocked, RecvWrongCode, RecvRightCode, StartSession,
                SetupFails, SessionAbandoned, ConnectionLost, EndSession,
                ViewerDisconnects, ViewerAsks, ReplySent, Proceed, Finish
  <2>. QED
    BY <2>1, <2>2, QuietStep
<1>6. ASSUME NEW ok \in BOOLEAN, Register(ok) PROVE ApprovalInv'
  BY <1>6, QuietStep DEF Register, clickVars, appVars, history
<1>7. CASE Announce \/ Unregister \/ EndpointLost \/ TimePasses
  BY <1>7, QuietStep DEF Announce, Unregister, EndpointLost, TimePasses, clickVars,
                         appVars, history, hostVars
<1>8. ASSUME NEW v \in Viewers, ListenerStep(v)
      PROVE  ApprovalInv'
  BY <1>8, QuietStep DEF ListenerStep, TakeIncoming, AcceptOk, AcceptFails,
                         WrongProtocol, clickVars, appVars, history, hostVars
<1>9. ASSUME NEW v \in Viewers, NEW way \in {"lan", "iroh"},
             NEW c \in 0 .. panel.code, Connect(v, way, c)
      PROVE  ApprovalInv'
  BY <1>9, QuietStep DEF Connect, clickVars, appVars, history, hostVars
<1>10. CASE Outside /\ ~ \E do \in {"approve", "reject", "stop"} : Click(do)
  <2>1. UNCHANGED clickVars /\ UNCHANGED <<usedCode, pc, cur>>
    BY <1>10 DEF Outside, AppStep, PumpEvent, PumpEnds, StopHost, Leave, vars,
                 hostVars, guardVars, viewerVars, appVars, history, clickVars
  <2>. QED
    BY <2>1, QuietStep
<1>. QED
  BY <1>1, <1>2, <1>3, <1>4, <1>5, <1>6, <1>7, <1>8, <1>9, <1>10, StepCases

(* With manual approval, every viewer that is let in costs the user an     *)
(* Approve of its own.                                                     *)
THEOREM OneApproveOneViewer == Spec => []ApprovalAdmitsOnce
<1>1. Init => ApprovalInv
  BY DEF Init, ApprovalInv, ClicksInOrder, ApprovalsSpent
<1>2. HostInv /\ ApprovalInv /\ [Next]_vars => ApprovalInv'
  BY ApprovalStep
<1>3. ApprovalInv => ApprovalAdmitsOnce
  BY DEF ApprovalInv, ApprovalsSpent, ApprovalAdmitsOnce
<1>. QED
  BY <1>1, <1>2, <1>3, HostInvariant, PTL DEF Spec
-----------------------------------------------------------------------------
(* The panel.  Drained is a fold over the events in flight: an event that  *)
(* is emitted is shown last, and one that the pump takes is shown already. *)
Shows == INSTANCE FoldTheorems WITH Op <- Show

LEMMA FoldOfShows == \A p, s : FoldLeft(Show, p, s) = Shows!FoldLeft(Show, p, s)
BY DEF FoldLeft, Shows!FoldLeft, MapThenFoldSet, Shows!MapThenFoldSet, Max, Shows!Max

LEMMA NothingShown == \A p : FoldLeft(Show, p, <<>>) = p
BY FoldOfShows, Shows!FoldLeftEmpty

LEMMA ShownLast ==
    ASSUME NEW p, NEW s \in Seq(Event), NEW e \in Event
    PROVE  FoldLeft(Show, p, Append(s, e)) = Show(FoldLeft(Show, p, s), e)
<1>1. Shows!FoldLeft(Show, p, Append(s, e)) = Show(Shows!FoldLeft(Show, p, s), e)
  BY Shows!FoldLeftAppend
<1>. QED
  BY <1>1, FoldOfShows

LEMMA ShownFirst ==
    ASSUME NEW p, NEW s \in Seq(Event), s # <<>>
    PROVE  FoldLeft(Show, p, s) = FoldLeft(Show, Show(p, Head(s)), Tail(s))
<1>1. Shows!FoldLeft(Show, p, s) = Shows!FoldLeft(Show, Show(p, Head(s)), Tail(s))
  BY Shows!FoldLeftTail
<1>. QED
  BY <1>1, FoldOfShows

LEMMA DrainedAfterEmit ==
    ASSUME TypeOK, pump, panel' = panel, NEW type, NEW of,
           [type |-> type, of |-> of] \in Event, Emit(type, of)
    PROVE  Drained' = Show(Drained, [type |-> type, of |-> of])
<1>1. events \in Seq(Event) /\ events' = Append(events, [type |-> type, of |-> of])
  BY DEF TypeOK, Emit
<1>. QED
  BY <1>1, ShownLast DEF Drained

LEMMA DrainedAfterPump ==
    ASSUME TypeOK, PumpEvent
    PROVE  Drained' = Drained
<1>1. events \in Seq(Event) /\ events # <<>>
  BY DEF TypeOK, PumpEvent
<1>2. panel' = Show(panel, Head(events)) /\ events' = Tail(events)
  BY DEF PumpEvent
<1>3. FoldLeft(Show, panel, events) = FoldLeft(Show, Show(panel, Head(events)), Tail(events))
  BY <1>1, ShownFirst
<1>. QED
  BY <1>2, <1>3 DEF Drained

(* What PanelConverges asks of a panel d.                                  *)
Converged(d) ==
    /\ d \in Panel
    /\ d.code = code
    /\ d.session = IF pc \in InSession \cup {"Teardown"} THEN cur ELSE None
    /\ pc = "Approval" => d.pending = cur
    /\ pc \in {"Accept"} \cup InSession \cup Handshaking => d.pending = None

PanelInv == pump => Converged(Drained)

(* The four places where the host tells the panel something.               *)
LEMMA TellingStep ==
    ASSUME HostInv, Converged(Drained), pump,
           \/ Announce
           \/ RecvRightCode /\ approval
           \/ StartSession
           \/ EndSession
    PROVE  PanelInv'
<1>0. /\ TypeOK /\ Drained \in Panel /\ code + 1 \in Nat /\ None \in Peer
      /\ cur \in Viewers \/ pc \notin Serving
  <2>1. TypeOK /\ code \in Nat /\ cur \in Peer /\ SomebodyServed
    BY DEF HostInv, TypeOK
  <2>. QED
    BY <2>1 DEF SomebodyServed, Peer, Converged
<1>. USE DEF Converged, Panel, Handshaking, InSession
<1>1. CASE Announce
  <2>1. [type |-> "code", of |-> code + 1] \in Event
    BY <1>0 DEF Event
  <2>2. /\ Emit("code", code + 1) /\ panel' = panel /\ code' = code + 1 /\ pc' = "Accept"
    BY <1>1 DEF Announce, appVars
  <2>3. Drained' = Show(Drained, [type |-> "code", of |-> code + 1])
    BY <1>0, <2>1, <2>2, DrainedAfterEmit
  <2>4. Drained' = [code |-> code + 1, pending |-> None, session |-> None]
    BY <2>3 DEF Show
  <2>. QED
    BY <1>0, <2>2, <2>4 DEF PanelInv
<1>2. CASE RecvRightCode /\ approval
  <2>1. /\ Emit("request", cur) /\ panel' = panel /\ code' = code /\ cur' = cur
        /\ pc = "Auth" /\ pc' = "Approval"
    BY <1>2 DEF RecvRightCode, Proceed, appVars
  <2>2. cur \in Viewers /\ [type |-> "request", of |-> cur] \in Event
    BY <1>0, <2>1 DEF Event, Serving, InSession
  <2>3. Drained' = Show(Drained, [type |-> "request", of |-> cur])
    BY <1>0, <2>1, <2>2, DrainedAfterEmit
  <2>4. Drained' = [Drained EXCEPT !.pending = cur]
    BY <2>3 DEF Show
  <2>. QED
    BY <1>0, <2>1, <2>2, <2>4 DEF PanelInv, Peer
<1>3. CASE StartSession
  <2>1. /\ Emit("started", cur) /\ panel' = panel /\ code' = code /\ cur' = cur
        /\ pc = "Setup" /\ pc' = "Session"
    BY <1>3 DEF StartSession, Proceed, appVars
  <2>2. cur \in Viewers /\ [type |-> "started", of |-> cur] \in Event
    BY <1>0, <2>1 DEF Event, Serving, InSession
  <2>3. Drained' = Show(Drained, [type |-> "started", of |-> cur])
    BY <1>0, <2>1, <2>2, DrainedAfterEmit
  <2>4. Drained' = [Drained EXCEPT !.pending = None, !.session = cur]
    BY <2>3 DEF Show
  <2>. QED
    BY <1>0, <2>1, <2>2, <2>4 DEF PanelInv, Peer
<1>4. CASE EndSession
  <2>1. /\ Emit("ended", cur) /\ panel' = panel /\ code' = code
        /\ pc = "Teardown" /\ pc' = "Unregister"
    BY <1>4 DEF EndSession, Finish, appVars
  <2>2. cur \in Viewers /\ [type |-> "ended", of |-> cur] \in Event
    BY <1>0, <2>1 DEF Event, Serving, InSession
  <2>3. Drained' = Show(Drained, [type |-> "ended", of |-> cur])
    BY <1>0, <2>1, <2>2, DrainedAfterEmit
  <2>4. Drained' = [Drained EXCEPT !.session = None]
    BY <2>3 DEF Show
  <2>. QED
    BY <1>0, <2>1, <2>4 DEF PanelInv, Peer
<1>. QED
  BY <1>1, <1>2, <1>3, <1>4

(* Every other step leaves the panel right by what it does not do.         *)
LEMMA ServingStepIsSilent ==
    ASSUME TypeOK, ServingStep, ~(RecvRightCode /\ approval), ~StartSession, ~EndSession
    PROVE  /\ events' = events /\ panel' = panel
           /\ pc' # "Approval" /\ pc' \notin {"Accept"}
           /\ pc' \in InSession \cup {"Teardown"} <=> pc \in InSession \cup {"Teardown"}
           /\ pc' \in InSession => pc \in InSession
           /\ pc' \in Handshaking => pc \in Handshaking
<1>. USE DEF Handshaking, InSession, appVars
<1>1. CASE AcceptControl \/ RecvHello \/ RecvNoAuthRequest \/ RecvFromBlocked
           \/ RecvWrongCode
  BY <1>1 DEF AcceptControl, RecvHello, RecvNoAuthRequest, RecvFromBlocked,
              RecvWrongCode, Proceed, Finish
<1>2. CASE RecvRightCode /\ ~approval
  BY <1>2 DEF RecvRightCode, Proceed
<1>3. CASE Decide \/ SendAccepted
  BY <1>3 DEF Decide, SendAccepted, Proceed, Finish
<1>4. CASE SetupFails \/ SessionAbandoned \/ ConnectionLost \/ ViewerDisconnects
           \/ ViewerAsks \/ ReplySent
  BY <1>4 DEF SetupFails, SessionAbandoned, ConnectionLost, ViewerDisconnects,
              ViewerAsks, ReplySent, Proceed, Finish
<1>5. CASE SessionCommand
  BY <1>5 DEF SessionCommand, Proceed
<1>. QED
  BY <1>1, <1>2, <1>3, <1>4, <1>5 DEF ServingStep

LEMMA PanelStep ==
    ASSUME HostInv, PanelInv, [Next]_vars
    PROVE  PanelInv'
<1>. SUFFICES ASSUME pump' PROVE Converged(Drained)'
  BY DEF PanelInv
<1>1. pump /\ TypeOK
  <2>1. pump' # pump => PumpEnds
    BY DEF Next, HostStep, AppStep, ViewerStep, Register, Announce, Unregister,
           TakeIncoming, AcceptOk, AcceptFails, WrongProtocol, AcceptControl,
           RecvHello, RecvNoAuthRequest, RecvFromBlocked, RecvWrongCode, RecvRightCode, Decide,
           SendAccepted, StartSession, SetupFails, SessionCommand, SessionAbandoned,
           ConnectionLost, EndSession, EndpointLost, PumpEvent, PumpEnds, StopHost,
           Click, Connect, Leave, ViewerDisconnects, ViewerAsks, ReplySent,
           TimePasses, vars, appVars
  <2>. QED
    BY <2>1 DEF PumpEnds, HostInv
<1>2. Converged(Drained)
  BY <1>1 DEF PanelInv
<1>3. ASSUME events' = events, panel' = panel PROVE Drained' = Drained
  BY <1>3 DEF Drained
<1>. USE DEF Converged, Handshaking, InSession
<1>4. ASSUME NEW ok \in BOOLEAN, Register(ok) PROVE Converged(Drained)'
  BY <1>2, <1>3, <1>4 DEF Register, appVars
<1>5. CASE Announce
  BY <1>1, <1>2, <1>5, TellingStep DEF PanelInv
<1>6. CASE Unregister \/ EndpointLost
  BY <1>2, <1>3, <1>6 DEF Unregister, EndpointLost, appVars
<1>7. ASSUME NEW v \in Viewers, ListenerStep(v)
      PROVE  Converged(Drained)'
  BY <1>2, <1>3, <1>7 DEF ListenerStep, TakeIncoming, AcceptOk, AcceptFails, WrongProtocol,
                          appVars, hostVars
<1>8. CASE ServingStep
  <2>1. CASE (RecvRightCode /\ approval) \/ StartSession \/ EndSession
    BY <1>1, <1>2, <2>1, TellingStep DEF PanelInv
  <2>2. CASE ~(RecvRightCode /\ approval) /\ ~StartSession /\ ~EndSession
    <3>1. Drained' = Drained /\ code' = code
      BY <1>1, <1>3, <1>8, <2>2, ServingStepIsSilent, ServingStepEffect
    <3>2. pc' \in InSession \cup {"Teardown"} => cur' = cur
      BY <1>1, <1>8, ServingStepEffect DEF Stays, Goes
    <3>. QED
      BY <1>1, <1>2, <1>8, <2>2, <3>1, <3>2, ServingStepIsSilent
  <2>. QED
    BY <2>1, <2>2
<1>9. ASSUME NEW v \in Viewers, NEW way \in {"lan", "iroh"},
             NEW c \in 0 .. panel.code, Connect(v, way, c)
      PROVE  Converged(Drained)'
  BY <1>2, <1>3, <1>9 DEF Connect, appVars, hostVars
<1>10. CASE TimePasses
  BY <1>2, <1>3, <1>10 DEF TimePasses, appVars, hostVars
<1>11. CASE Outside
  <2>1. pc' = pc /\ cur' = cur /\ code' = code
    BY <1>11, OutsideChanges DEF hostVars
  <2>2. Drained' = Drained
    <3>1. CASE PumpEvent
      BY <1>1, <3>1, DrainedAfterPump
    <3>2. CASE ~PumpEvent
      <4>1. ~PumpEnds
        BY DEF PumpEnds
      <4>. QED
        BY <1>3, <1>11, <3>2, <4>1 DEF Outside, AppStep, StopHost, Click, Leave, vars, appVars
    <3>. QED
      BY <3>1, <3>2
  <2>. QED
    BY <1>2, <2>1, <2>2
<1>. QED
  BY <1>4, <1>5, <1>6, <1>7, <1>8, <1>9, <1>10, <1>11, StepCases

(* Once the events in flight are shown, the panel names the code the host  *)
(* verifies, the viewer whose session runs and the one that waits for the  *)
(* user, however many events wait and however the session ended.           *)
THEOREM PanelShowsTheHost == Spec => []PanelConverges
<1>1. Init => PanelInv
  <2>. SUFFICES ASSUME Init PROVE Converged(Drained)
    BY DEF PanelInv
  <2>1. Drained = panel
    BY NothingShown DEF Init, Drained
  <2>. QED
    BY <2>1 DEF Init, Converged, Panel, Peer, Handshaking, InSession
<1>2. HostInv /\ PanelInv /\ [Next]_vars => PanelInv'
  BY PanelStep
<1>3. PanelInv => PanelConverges
  BY DEF PanelInv, PanelConverges, Converged
<1>. QED
  BY <1>1, <1>2, <1>3, HostInvariant, PTL DEF Spec
=============================================================================

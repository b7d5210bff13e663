-------------------------- MODULE InputStreamProofs --------------------------
(***************************************************************************)
(* Proofs about InputStream, for any keys and buttons, any devices of      *)
(* which one per class exists at a time (EisInput), any number of sessions *)
(* and inputs, and any number of pauses and removals: nothing stays down   *)
(* that no injector accounts for.                                          *)
(***************************************************************************)
EXTENDS InputStream, SequenceTheorems, TLAPS

(* Commands only wait for a device that cannot take them.                  *)
NothingWaits == \A c \in Classes : CanApply(c) => pending[c] = <<>>

(* The EIS thread runs for the portal only, and has nothing else.          *)
EisOfPortal ==
    /\ backend # "portal" => eis = "off"
    /\ eis # "running" => calls = <<>> /\ \A c \in Classes : pending[c] = <<>>
    /\ eis = "off" => \A c \in Classes : ~emulating[c]
    /\ eis = "done" => down = {}

(* A device that was announced stays announced, and is used for what it is.*)
Announced ==
    /\ \A n \in DOMAIN events : dev[events[n].dev] # "unknown"
    /\ \A c \in Classes : use[c] # NoDevice =>
          use[c] \in DevicesOf(c) /\ dev[use[c]] # "unknown"

Present(d) == dev[d] \in {"paused", "live"}

IsDevice(n, c) == events[n].kind = "device" /\ DeviceClass(events[n].dev) = c

(* One device of a class at a time, also as the client is going to see it: *)
(* the announcement of a present device is the last one of its class.      *)
OneAtATime ==
    /\ \A c \in Classes, d \in Devices, e \in Devices :
          d \in DevicesOf(c) /\ e \in DevicesOf(c) /\ d # e /\ Present(d) => ~Present(e)
    /\ \A c \in Classes, n \in DOMAIN events, m \in DOMAIN events :
          n < m /\ IsDevice(n, c) /\ IsDevice(m, c) => ~Present(events[n].dev)
    /\ \A c \in Classes, n \in DOMAIN events :
          use[c] # NoDevice /\ Present(use[c]) => ~IsDevice(n, c)

(* On the portal only a device the client uses, and whose keymap or        *)
(* interfaces it goes by, has items down: it will let them go.             *)
DownIsTaken ==
    backend = "portal" => \A i \in down : Takes(i, use[ClassOf(i)], keymap)

(* Nothing is down before a backend is there, and the portal's EIS thread  *)
(* starts with it.                                                         *)
Started ==
    /\ backend = "portal" => eis # "off"
    /\ backend = "none" => down = {}
    /\ host = "asking" => backend = "none"

DeviceInv == NothingWaits /\ EisOfPortal /\ Announced /\ OneAtATime /\ DownIsTaken

Inv == TypeOK /\ DeviceInv /\ Started /\ HeldIsAccounted

-----------------------------------------------------------------------------
(* Runs of commands. *)

LEMMA AfterItems == \A D, cs : After(D, cs) \subseteq Items
BY DEF After

(* What is down after a run grows with what was down before, item by item. *)
LEMMA AfterMono ==
    ASSUME NEW D, NEW E, NEW cs, NEW i \in After(D, cs), i \in D => i \in E
    PROVE  i \in After(E, cs)
BY DEF After

LEMMA AfterNone == ASSUME NEW D, NEW i \in After(D, <<>>) PROVE i \in D
BY DEF After

LEMMA NoneAfter == ASSUME NEW D, NEW i \in D, i \in Items PROVE i \in After(D, <<>>)
BY DEF After

(* A command added at the end: an item it is not about is as before, and   *)
(* one it releases is up.                                                  *)
LEMMA AfterAppend ==
    ASSUME NEW S, NEW cs \in Seq(S), NEW x \in S, NEW D, NEW i \in After(D, Append(cs, x))
    PROVE  IF x.item = i THEN x.press ELSE i \in After(D, cs)
<1> DEFINE ds == Append(cs, x)
<1>1. /\ ds \in Seq(S) /\ Len(ds) = Len(cs) + 1 /\ ds[Len(cs) + 1] = x
      /\ \A n \in 1 .. Len(cs) : ds[n] = cs[n]
      BY AppendProperties
<1>2. DOMAIN ds = 1 .. Len(cs) + 1 /\ DOMAIN cs = 1 .. Len(cs) /\ Len(cs) \in Nat
      BY <1>1, LenProperties
<1> HIDE DEF ds
<1>3. i \in Items /\ i \in After(D, ds) BY AfterItems DEF ds
<1>4. CASE x.item = i
      <2>1. PICK n \in DOMAIN ds : /\ ds[n].item = i /\ ds[n].press
                                   /\ \A m \in DOMAIN ds : m > n => ds[m].item # i
            BY <1>1, <1>2, <1>3, <1>4 DEF After
      <2>2. n = Len(cs) + 1 BY <1>1, <1>2, <1>4, <2>1
      <2> QED BY <1>1, <1>4, <2>1, <2>2
<1>5. CASE x.item # i
      <2>1. CASE i \in D /\ \A n \in DOMAIN ds : ds[n].item # i
            <3>1. \A n \in DOMAIN cs : cs[n].item # i BY <1>1, <1>2, <2>1
            <3> QED BY <1>3, <1>5, <2>1, <3>1 DEF After
      <2>2. CASE \E n \in DOMAIN ds : /\ ds[n].item = i /\ ds[n].press
                                      /\ \A m \in DOMAIN ds : m > n => ds[m].item # i
            <3>1. PICK n \in DOMAIN ds : /\ ds[n].item = i /\ ds[n].press
                                        /\ \A m \in DOMAIN ds : m > n => ds[m].item # i
                  BY <2>2
            <3>2. n \in DOMAIN cs /\ cs[n] = ds[n] BY <1>1, <1>2, <1>5, <3>1
            <3>3. \A m \in DOMAIN cs : m > n => cs[m].item # i BY <1>1, <1>2, <3>1
            <3> QED BY <1>3, <1>5, <3>1, <3>2, <3>3 DEF After
      <2> QED BY <1>3, <2>1, <2>2 DEF After
<1> QED BY <1>4, <1>5

(* A run of one command.                                                   *)
LEMMA AfterOne ==
    ASSUME NEW D, NEW x, NEW i \in Items
    PROVE  i \in After(D, <<x>>) <=> IF x.item = i THEN x.press = TRUE ELSE i \in D
<1>1. DOMAIN <<x>> = {1} /\ <<x>>[1] = x OBVIOUS
<1> QED BY <1>1 DEF After

(* The first command of a run taken on its own.                            *)
LEMMA AfterHead ==
    ASSUME NEW S, NEW cs \in Seq(S), cs # <<>>, \A x \in S : x.press \in BOOLEAN,
           NEW D, NEW i \in After(After(D, <<Head(cs)>>), Tail(cs))
    PROVE  i \in After(D, cs)
<1> DEFINE ds == Tail(cs)
<1>1. /\ Len(cs) \in Nat /\ DOMAIN cs = 1 .. Len(cs) /\ Head(cs) = cs[1] /\ Len(cs) >= 1
      /\ ds \in Seq(S) /\ Len(ds) = Len(cs) - 1 /\ \A n \in 1 .. Len(ds) : ds[n] = cs[n + 1]
      BY HeadTailProperties, LenProperties, EmptySeq
<1>2. DOMAIN ds = 1 .. Len(cs) - 1 BY <1>1, LenProperties
<1> HIDE DEF ds
<1>3. i \in Items /\ i \in After(After(D, <<Head(cs)>>), ds) BY AfterItems DEF ds
<1>4. CASE \E n \in DOMAIN ds : /\ ds[n].item = i /\ ds[n].press
                                /\ \A m \in DOMAIN ds : m > n => ds[m].item # i
      <2>1. PICK n \in DOMAIN ds : /\ ds[n].item = i /\ ds[n].press
                                  /\ \A m \in DOMAIN ds : m > n => ds[m].item # i
            BY <1>4
      <2>2. n + 1 \in DOMAIN cs /\ cs[n + 1] = ds[n] BY <1>1, <1>2, <2>1
      <2>3. \A m \in DOMAIN cs : m > n + 1 => m - 1 \in DOMAIN ds /\ m - 1 > n /\ ds[m - 1] = cs[m]
            BY <1>1, <1>2, <2>1
      <2> QED BY <1>3, <2>1, <2>2, <2>3, SMTT(30) DEF After
<1>5. CASE i \in After(D, <<Head(cs)>>) /\ \A n \in DOMAIN ds : ds[n].item # i
      <2>1. \A m \in DOMAIN cs : m > 1 => cs[m].item # i
            <3> SUFFICES ASSUME NEW m \in DOMAIN cs, m > 1 PROVE cs[m].item # i OBVIOUS
            <3>1. m - 1 \in DOMAIN ds /\ ds[m - 1] = cs[m] BY <1>1, <1>2
            <3> QED BY <1>5, <3>1
      <2>2. IF cs[1].item = i THEN cs[1].press = TRUE ELSE i \in D BY <1>1, <1>3, <1>5, AfterOne
      <2>3. CASE cs[1].item = i
            <3>1. 1 \in DOMAIN cs BY <1>1
            <3> QED BY <1>3, <2>1, <2>2, <2>3, <3>1 DEF After
      <2>4. CASE cs[1].item # i
            <3>1. \A m \in DOMAIN cs : m = 1 \/ m > 1 BY <1>1
            <3> QED BY <1>3, <2>1, <2>2, <2>4, <3>1 DEF After
      <2> QED BY <2>3, <2>4
<1> QED BY <1>3, <1>4, <1>5 DEF After

-----------------------------------------------------------------------------
(* Types. *)

Message == Command \cup {Shutdown}

LEMMA MessageFields == \A x \in Message : x.press \in BOOLEAN /\ x.item \in Items \cup {NoItem}
<1>1. \A x \in Command : x.press \in BOOLEAN /\ x.item \in Items BY DEF Command
<1>2. Shutdown.press = FALSE /\ Shutdown.item = NoItem BY DEF Shutdown
<1> QED BY <1>1, <1>2 DEF Message

LEMMA CommandIsMessage ==
    /\ \A i \in Items, press \in BOOLEAN : [item |-> i, press |-> press] \in Message
    /\ Shutdown \in Message
    /\ \A x \in Message : x # Shutdown => x \in Command
BY DEF Message, Command

LEMMA ClassFacts ==
    /\ \A i : ClassOf(i) \in Classes
    /\ \A d : DeviceClass(d) \in Classes
    /\ \A d \in Pointers : d \in Devices /\ DeviceClass(d) = "pointer"
    /\ \A d \in Keyboards : d \in Devices /\ DeviceClass(d) = "keyboard"
BY EisAssumption DEF ClassOf, DeviceClass, Classes, Devices

LEMMA SendCallType ==
    ASSUME NEW i \in Items, NEW press \in BOOLEAN, calls \in Seq(Message), SendCall(i, press)
    PROVE  calls' \in Seq(Message)
BY AppendProperties, CommandIsMessage DEF SendCall

LEMMA HoldsType ==
    ASSUME NEW s \in Sessions, NEW i \in Items \ Mute, NEW press \in BOOLEAN,
           held \in [Sessions -> SUBSET (Items \ Mute)], Holds(s, i, press)
    PROVE  held' \in [Sessions -> SUBSET (Items \ Mute)]
<1>1. held[s] \cup {i} \in SUBSET (Items \ Mute) /\ held[s] \ {i} \in SUBSET (Items \ Mute) OBVIOUS
<1> QED BY <1>1 DEF Holds

LEMMA TakeType ==
    ASSUME NEW s \in Sessions, chan \in [Sessions -> Seq(Input)], chan[s] # <<>>
    PROVE  /\ Head(chan[s]) \in Input /\ Tail(chan[s]) \in Seq(Input)
           /\ [chan EXCEPT ![s] = Tail(@)] \in [Sessions -> Seq(Input)]
           /\ \A x \in Input :
                 [chan EXCEPT ![s] = <<x>> \o Tail(@)] \in [Sessions -> Seq(Input)]
<1>1. chan[s] \in Seq(Input) OBVIOUS
<1>2. Head(chan[s]) \in Input /\ Tail(chan[s]) \in Seq(Input) BY <1>1, HeadTailProperties
<1>3. \A x \in Input : <<x>> \o Tail(chan[s]) \in Seq(Input) BY <1>2, ConcatProperties
<1> QED BY <1>2, <1>3

LEMMA NoItemsType == \A c \in Classes : [pending EXCEPT ![c] = <<>>] \in [Classes -> Seq(Command)]
                        \/ pending \notin [Classes -> Seq(Command)]
BY EmptySeq

LEMMA ReceivesType ==
    ASSUME TypeOK, NEW kind, NEW d \in Devices, Receives(kind, d)
    PROVE  /\ events' \in Seq(Event)
           /\ events # <<>> /\ Head(events) = [kind |-> kind, dev |-> d]
           /\ eis = "running" /\ UNCHANGED <<dev, upsets, link, eis, calls>>
BY HeadTailProperties DEF Receives, TypeOK

(* The steps of the EIS thread and the compositor keep the types.          *)
EisTypes ==
    /\ dev \in [Devices -> {"unknown", "paused", "live", "gone"}]
    /\ down \subseteq Items
    /\ upsets \in 0..MaxUpsets
    /\ link \in {"closed", "new", "unbound", "bound"}
    /\ events \in Seq(Event)
    /\ eis \in {"off", "running", "done"}
    /\ use \in [Classes -> Devices \cup {NoDevice}]
    /\ emulating \in [Classes -> BOOLEAN]
    /\ keymap \in Keyboards \cup {NoDevice}
    /\ pending \in [Classes -> Seq(Command)]
    /\ calls \in Seq(Message)

LEMMA NextUpset == upsets \in 0..MaxUpsets /\ upsets < MaxUpsets => upsets + 1 \in 0..MaxUpsets
BY EisAssumption

LEMMA CompositorTypes == ASSUME TypeOK, CompositorStep PROVE EisTypes'
<1> USE DEF EisTypes, TypeOK, Message, clientVars
<1>1. ASSUME NEW d \in Devices, NEW kind \in {"device", "resumed", "paused"}, Send(kind, d)
      PROVE  events' \in Seq(Event)
      BY <1>1, AppendProperties DEF Send, Event
<1>u. upsets < MaxUpsets => upsets + 1 \in 0..MaxUpsets BY NextUpset
<1>v. \A X : down \ X \subseteq Items OBVIOUS
<1>2. ASSUME NEW d \in Devices, Announce(d) PROVE EisTypes' BY <1>1, <1>2 DEF Announce
<1>3. ASSUME NEW d \in Devices, ResumeDevice(d) PROVE EisTypes' BY <1>1, <1>3 DEF ResumeDevice
<1>4. ASSUME NEW d \in Devices, PauseDevice(d) PROVE EisTypes'
      <2>1. /\ events' \in Seq(Event) /\ upsets' \in 0..MaxUpsets /\ down' \subseteq Items
            /\ UNCHANGED <<link, clientVars, calls>>
            BY <1>1, <1>4, <1>u, <1>v DEF PauseDevice, LetGo
      <2>2. dev' \in [Devices -> {"unknown", "paused", "live", "gone"}] BY <1>4 DEF PauseDevice
      <2> QED BY <2>1, <2>2
<1>5. ASSUME NEW d \in Devices, RemoveDevice(d) PROVE EisTypes'
      <2>1. /\ upsets' \in 0..MaxUpsets /\ down' \subseteq Items
            /\ UNCHANGED <<link, events, clientVars, calls>>
            BY <1>5, <1>u, <1>v DEF RemoveDevice, LetGo
      <2>2. dev' \in [Devices -> {"unknown", "paused", "live", "gone"}] BY <1>5 DEF RemoveDevice
      <2> QED BY <2>1, <2>2
<1>6. CASE HangUp BY <1>6, <1>u DEF HangUp
<1> QED BY <1>2, <1>3, <1>4, <1>5, <1>6 DEF CompositorStep

LEMMA ClientTypes == ASSUME TypeOK, ClientStep PROVE EisTypes'
<1> USE DEF EisTypes, TypeOK, Message, clientVars, compositorVars
<1>0. \A cs, c, m : Applied(cs, c, m) \subseteq Items BY DEF Applied
<1>1. ASSUME NEW c \in Classes, NEW m, Flush(c, m)
      PROVE  pending' \in [Classes -> Seq(Command)] /\ down' \subseteq Items
      BY <1>0, <1>1, NoItemsType DEF Flush
<1>2. ASSUME NEW c \in Classes, NEW d \in Devices, FinishDevice(c, d)
      PROVE  use' \in [Classes -> Devices \cup {NoDevice}] /\ emulating' \in [Classes -> BOOLEAN]
      BY <1>2 DEF FinishDevice
<1>3. CASE Bind BY <1>3 DEF Bind
<1>4. ASSUME NEW d \in Devices, OnPointer(d) PROVE EisTypes'
      BY <1>2, <1>4, ReceivesType DEF OnPointer, Classes
<1>5. ASSUME NEW d \in Devices, OnKeyboard(d) PROVE EisTypes'
      <2>1. events' \in Seq(Event) /\ UNCHANGED <<dev, upsets, link, eis, calls>>
            BY <1>5, ReceivesType DEF OnKeyboard
      <2>2. use' \in [Classes -> Devices \cup {NoDevice}] /\ emulating' \in [Classes -> BOOLEAN]
            BY <1>2, <1>5 DEF OnKeyboard, Classes
      <2>3. keymap' \in Keyboards \cup {NoDevice} BY <1>5 DEF OnKeyboard
      <2>4. pending' \in [Classes -> Seq(Command)] /\ down' \subseteq Items
            BY <1>1, <1>5 DEF OnKeyboard, Classes
      <2> QED BY <2>1, <2>2, <2>3, <2>4
<1>6. ASSUME NEW d \in Devices, Resume(d) PROVE EisTypes'
      <2>1. events' \in Seq(Event) /\ UNCHANGED <<dev, upsets, link, eis, calls>>
            BY <1>6, ReceivesType DEF Resume
      <2>2. UNCHANGED <<use, keymap>> /\ emulating' \in [Classes -> BOOLEAN]
            BY <1>6, ClassFacts DEF Resume
      <2>3. pending' \in [Classes -> Seq(Command)] /\ down' \subseteq Items
            BY <1>1, <1>6, ClassFacts DEF Resume
      <2> QED BY <2>1, <2>2, <2>3
<1>7. ASSUME NEW d \in Devices, Paused(d) PROVE EisTypes'
      BY <1>7, ReceivesType, ClassFacts DEF Paused
<1>8. CASE OnInput
      <2>1. Head(calls) \in Command /\ calls' \in Seq(Message)
            BY <1>8, HeadTailProperties, CommandIsMessage DEF OnInput
      <2>2. ASSUME NEW c \in Classes PROVE Append(pending[c], Head(calls)) \in Seq(Command)
            BY <2>1, AppendProperties
      <2>3. pending' \in [Classes -> Seq(Command)] /\ down' \subseteq Items
            <3> DEFINE c == ClassOf(Head(calls).item)
            <3>1. c \in Classes /\ Append(pending[c], Head(calls)) \in Seq(Command)
                  BY <2>2, ClassFacts
            <3>2. [pending EXCEPT ![c] = Append(@, Head(calls))] \in [Classes -> Seq(Command)]
                  BY <3>1
            <3>3. \/ UNCHANGED pending /\ down' = Applied(<<Head(calls)>>, c, keymap)
                  \/ /\ pending' = [pending EXCEPT ![c] = Append(@, Head(calls))]
                     /\ UNCHANGED down
                  BY <1>8 DEF OnInput
            <3> QED BY <1>0, <3>2, <3>3
      <2> QED BY <1>8, <2>1, <2>3 DEF OnInput
<1>9. CASE Teardown BY <1>9, EmptySeq DEF Teardown
<1> QED BY <1>3, <1>4, <1>5, <1>6, <1>7, <1>8, <1>9 DEF ClientStep, OnReadable

HostTypes ==
    /\ host \in {"asking", "serving", "stopping", "joining capture", "joining eis",
                 "closing", "stopped"}
    /\ backend \in {"none", "portal", "enigo"}
    /\ portal \in {"none", "open", "closed"}
    /\ capture \in {"off", "running", "ended"}
    /\ open \in BOOLEAN
    /\ session \in 0..MaxSessions
    /\ sent \in 0..MaxInputs
    /\ chan \in [Sessions -> Seq(Input)]
    /\ injection \in [Sessions -> {"none", "running", "done"}]
    /\ held \in [Sessions -> SUBSET (Items \ Mute)]

LEMMA TypeParts == TypeOK <=> EisTypes /\ HostTypes
BY DEF TypeOK, EisTypes, HostTypes, Message

LEMMA TypePartsNext == EisTypes' /\ HostTypes' => TypeOK'
BY DEF TypeOK, EisTypes, HostTypes, Message

LEMMA NextSent == sent \in 0..MaxInputs /\ sent < MaxInputs => sent + 1 \in 0..MaxInputs
BY InputAssumption

LEMMA NextSession ==
    session \in 0..MaxSessions /\ session < MaxSessions => session + 1 \in 0..MaxSessions
BY InputAssumption

LEMMA LoopTypes ==
    ASSUME TypeOK,
           \/ BeginSession \/ EndSession
           \/ \E i \in Items, act \in {"press", "release", "type"} : RecvInput(i, act)
    PROVE  TypeOK'
<1>0. EisTypes /\ HostTypes BY TypeParts
<1>1. EisTypes'
      BY <1>0 DEF BeginSession, EndSession, RecvInput, EisTypes, eisVars, compositorVars, clientVars
<1>2. CASE BeginSession
      <2>1. PICK started \in {"running", "done"} :
               injection' = [injection EXCEPT ![session + 1] = started]
            BY <1>2 DEF BeginSession
      <2>2. HostTypes'
            BY <1>0, <1>2, <2>1, NextSession DEF BeginSession, HostTypes, hostVars
      <2> QED BY <1>1, <2>2, TypePartsNext
<1>3. CASE EndSession
      <2>1. HostTypes' BY <1>0, <1>3 DEF EndSession, HostTypes, hostVars, threadVars
      <2> QED BY <1>1, <2>1, TypePartsNext
<1>4. ASSUME NEW i \in Items, NEW act \in {"press", "release", "type"}, RecvInput(i, act)
      PROVE  HostTypes'
      <2>1. [item |-> i, act |-> act] \in Input BY DEF Input
      <2>2. session \in Sessions => Append(chan[session], [item |-> i, act |-> act]) \in Seq(Input)
            BY <1>0, <2>1, AppendProperties DEF HostTypes
      <2>3. chan' \in [Sessions -> Seq(Input)] BY <1>0, <1>4, <2>2 DEF HostTypes, RecvInput
      <2> QED BY <1>0, <1>4, <2>3, NextSent DEF RecvInput, HostTypes, hostVars
<1> QED BY <1>1, <1>2, <1>3, <1>4, TypePartsNext

LEMMA InjectionTypes == ASSUME TypeOK, NEW s \in Sessions, InjectionStep(s) PROVE TypeOK'
<1>0. EisTypes /\ HostTypes BY TypeParts
<1>1. ASSUME NEW x \in Input PROVE x.item \in Items BY DEF Input
<1>2. CASE PortalApply(s)
      <2> DEFINE input == Head(chan[s])
                 press == input.act # "release"
      <2>1. input \in Input /\ Tail(chan[s]) \in Seq(Input) /\ input.item \in Items
            BY <1>0, <1>1, <1>2, TakeType DEF PortalApply, Takeable, HostTypes
      <2>2. press \in BOOLEAN OBVIOUS
      <2>3. ASSUME HasCode(input.item)
            PROVE  calls' \in Seq(Message) /\ held' \in [Sessions -> SUBSET (Items \ Mute)]
            <3>1. Holds(s, input.item, press) /\ SendCall(input.item, press)
                  BY <1>2, <2>3 DEF PortalApply
            <3>2. input.item \in Items \ Mute BY <2>1, <2>3 DEF HasCode
            <3>3. calls' \in Seq(Message)
                  BY <1>0, <2>1, <2>2, <3>1, SendCallType DEF EisTypes
            <3> HIDE DEF input, press
            <3>4. held' \in [Sessions -> SUBSET (Items \ Mute)]
                  BY <1>0, <2>2, <3>1, <3>2, HoldsType DEF HostTypes
            <3> QED BY <3>3, <3>4
      <2>4. ASSUME ~HasCode(input.item)
            PROVE  calls' \in Seq(Message) /\ held' \in [Sessions -> SUBSET (Items \ Mute)]
            <3>1. UNCHANGED <<held, calls>> BY <1>2, <2>4 DEF PortalApply
            <3> QED BY <1>0, <3>1 DEF EisTypes, HostTypes
      <2>5. calls' \in Seq(Message) /\ held' \in [Sessions -> SUBSET (Items \ Mute)]
            BY <2>3, <2>4
      <2>6. chan' \in [Sessions -> Seq(Input)]
            <3>1. [item |-> input.item, act |-> "release"] \in Input BY <2>1 DEF Input
            <3>2. \/ chan' = [chan EXCEPT ![s] = <<[item |-> input.item, act |-> "release"]>> \o Tail(@)]
                  \/ chan' = [chan EXCEPT ![s] = Tail(@)]
                  BY <1>2 DEF PortalApply
            <3> HIDE DEF input
            <3> QED BY <1>0, <1>2, <3>1, <3>2, TakeType DEF HostTypes, PortalApply, Takeable
      <2>7. UNCHANGED <<down, compositorVars, clientVars, hostVars, loopVars, injection>>
            BY <1>2 DEF PortalApply
      <2> HIDE DEF input, press
      <2>8. EisTypes' BY <1>0, <2>5, <2>7 DEF EisTypes, compositorVars, clientVars
      <2>9. HostTypes' BY <1>0, <2>5, <2>6, <2>7 DEF HostTypes, hostVars, loopVars
      <2> QED BY <2>8, <2>9, TypePartsNext
<1>3. CASE EnigoApply(s)
      <2> DEFINE input == Head(chan[s])
                 press == input.act = "press"
      <2>1. input \in Input /\ input.item \in Items
            BY <1>0, <1>1, <1>3, TakeType DEF EnigoApply, Takeable, HostTypes
      <2>2. press \in BOOLEAN OBVIOUS
      <2>3. chan' \in [Sessions -> Seq(Input)]
            BY <1>0, <1>3, TakeType DEF EnigoApply, Takeable, HostTypes
      <2>4. \/ /\ HasCode(input.item) /\ Holds(s, input.item, press)
               /\ down' = IF press THEN down \cup {input.item} ELSE down \ {input.item}
            \/ UNCHANGED <<down, held>>
            BY <1>3 DEF EnigoApply
      <2>5. UNCHANGED <<compositorVars, clientVars, calls, hostVars, loopVars, injection>>
            BY <1>3 DEF EnigoApply
      <2> HIDE DEF input, press
      <2>6. held' \in [Sessions -> SUBSET (Items \ Mute)]
            BY <1>0, <2>1, <2>2, <2>4, HoldsType DEF HasCode, HostTypes
      <2>7. down' \subseteq Items BY <1>0, <2>1, <2>4 DEF EisTypes
      <2>8. EisTypes' BY <1>0, <2>5, <2>7 DEF EisTypes, compositorVars, clientVars
      <2>9. HostTypes' BY <1>0, <2>3, <2>5, <2>6 DEF HostTypes, hostVars, loopVars
      <2> QED BY <2>8, <2>9, TypePartsNext
<1>4. CASE ReleaseOne(s)
      <2>1. PICK i \in held[s] :
               /\ Holds(s, i, FALSE)
               /\ IF backend = "portal" THEN SendCall(i, FALSE) /\ UNCHANGED down
                  ELSE down' = down \ {i} /\ UNCHANGED calls
            BY <1>4 DEF ReleaseOne
      <2>2. i \in Items \ Mute BY <1>0 DEF HostTypes
      <2>3. held' \in [Sessions -> SUBSET (Items \ Mute)]
            BY <1>0, <2>1, <2>2, HoldsType DEF HostTypes
      <2>4. calls' \in Seq(Message) /\ down' \subseteq Items
            BY <1>0, <2>1, <2>2, SendCallType DEF EisTypes
      <2>5. UNCHANGED <<compositorVars, clientVars, hostVars, loopVars, chan, injection>>
            BY <1>4 DEF ReleaseOne
      <2>6. EisTypes' BY <1>0, <2>4, <2>5 DEF EisTypes, compositorVars, clientVars
      <2>7. HostTypes' BY <1>0, <2>3, <2>5 DEF HostTypes, hostVars, loopVars
      <2> QED BY <2>6, <2>7, TypePartsNext
<1>5. CASE EndInjection(s)
      <2>1. EisTypes' BY <1>0, <1>5 DEF EndInjection, EisTypes, eisVars, compositorVars, clientVars
      <2>2. HostTypes' BY <1>0, <1>5 DEF EndInjection, HostTypes, hostVars, loopVars
      <2> QED BY <2>1, <2>2, TypePartsNext
<1> QED BY <1>2, <1>3, <1>4, <1>5 DEF InjectionStep

LEMMA HostStepTypes == ASSUME TypeOK, HostStep PROVE TypeOK'
<1>0. EisTypes /\ HostTypes BY TypeParts
<1>1. HostTypes'
      BY <1>0 DEF HostStep, HostTypes, Consent, Fallback, StopHost, DropPortal, CaptureEnds,
                  StopEis, SignalTask, CloseSession, WaitClosed, loopVars, threadVars
<1>2. calls' \in Seq(Message)
      <2>1. Append(calls, Shutdown) \in Seq(Message)
            BY <1>0, CommandIsMessage, AppendProperties DEF EisTypes
      <2> QED BY <1>0, <2>1 DEF HostStep, EisTypes, Consent, Fallback, StopHost, DropPortal,
                  CaptureEnds, StopEis, SignalTask, CloseSession, WaitClosed, eisVars
<1>3. EisTypes'
      BY <1>0, <1>2 DEF HostStep, EisTypes, Consent, Fallback, StopHost, DropPortal, CaptureEnds,
                  StopEis, SignalTask, CloseSession, WaitClosed, eisVars, StartEis,
                  compositorVars, clientVars
<1> QED BY <1>1, <1>3, TypePartsNext

LEMMA TypeStep == ASSUME TypeOK, [Next]_vars PROVE TypeOK'
<1>1. CASE EisStep
      <2>0. HostTypes BY TypeParts
      <2>1. EisTypes' BY <1>1, CompositorTypes, ClientTypes DEF EisStep
      <2>2. HostTypes'
            BY <1>1, <2>0 DEF EisStep, HostTypes, hostVars, loopVars, threadVars
      <2> QED BY <2>1, <2>2, TypePartsNext
<1>2. CASE UNCHANGED vars
      <2>1. EisTypes /\ HostTypes BY TypeParts
      <2>2. UNCHANGED <<eisVars, hostVars, loopVars, threadVars>> BY <1>2 DEF vars
      <2>3. EisTypes' BY <2>1, <2>2 DEF EisTypes, eisVars, compositorVars, clientVars
      <2>4. HostTypes' BY <2>1, <2>2 DEF HostTypes, hostVars, loopVars, threadVars
      <2> QED BY <2>3, <2>4, TypePartsNext
<1> QED BY <1>1, <1>2, LoopTypes, InjectionTypes, HostStepTypes DEF Next

LEMMA TypeInit == InputInit => TypeOK
<1> SUFFICES ASSUME InputInit PROVE TypeOK OBVIOUS
<1>1. events = <<>> /\ calls = <<>> /\ events \in Seq(Event) /\ calls \in Seq(Message)
      BY EmptySeq DEF InputInit, Init
<1>2. EisTypes
      <2>1. /\ pending = [c \in Classes |-> <<>>] /\ \A c \in Classes : <<>> \in Seq(Command)
            /\ 0 \in 0..MaxUpsets
            BY EmptySeq, EisAssumption DEF InputInit, Init
      <2> QED BY <1>1, <2>1 DEF InputInit, Init, EisTypes
<1>3. \A S : <<>> \in Seq(S) BY EmptySeq
<1>4. HostTypes
      <2>1. 0 \in 0..MaxSessions /\ 0 \in 0..MaxInputs BY InputAssumption
      <2>2. chan \in [Sessions -> Seq(Input)] BY <1>3 DEF InputInit
      <2>3. held \in [Sessions -> SUBSET (Items \ Mute)] BY DEF InputInit
      <2> QED BY <2>1, <2>2, <2>3 DEF InputInit, HostTypes
<1> QED BY <1>2, <1>4, TypeParts

(* The type invariant holds for every instance.                            *)
THEOREM TypeCorrect == Spec => []TypeOK
BY TypeInit, TypeStep, PTL DEF Spec

-----------------------------------------------------------------------------
(* Devices. *)

LEMMA EventFields ==
    ASSUME events \in Seq(Event)
    PROVE  /\ DOMAIN events = 1 .. Len(events) /\ Len(events) \in Nat
           /\ \A n \in DOMAIN events : events[n] \in Event /\ events[n].dev \in Devices
<1>1. DOMAIN events = 1 .. Len(events) /\ Len(events) \in Nat BY LenProperties
<1>2. \A n \in 1 .. Len(events) : events[n] \in Event BY ElementOfSeq
<1>3. \A e \in Event : e.dev \in Devices BY DEF Event
<1> QED BY <1>1, <1>2, <1>3

(* What one more event on the socket looks like.                           *)
LEMMA SendEffect ==
    ASSUME events \in Seq(Event), NEW kind \in {"device", "resumed", "paused"},
           NEW d \in Devices, Send(kind, d)
    PROVE  \A n \in DOMAIN events' :
              \/ n \in DOMAIN events /\ events'[n] = events[n] /\ n < Len(events) + 1
              \/ /\ n = Len(events) + 1 /\ events'[n].dev = d /\ events'[n].kind = kind
                 /\ \A m \in DOMAIN events : m < n
<1>1. [kind |-> kind, dev |-> d] \in Event BY DEF Event
<1>2. /\ Len(events') = Len(events) + 1 /\ events' \in Seq(Event)
      /\ events'[Len(events) + 1] = [kind |-> kind, dev |-> d]
      /\ \A n \in 1 .. Len(events) : events'[n] = events[n]
      BY <1>1, AppendProperties DEF Send
<1>3. DOMAIN events' = 1 .. Len(events) + 1 /\ DOMAIN events = 1 .. Len(events) /\ Len(events) \in Nat
      BY <1>2, LenProperties
<1> QED BY <1>2, <1>3

(* ... and the queue without its first event.                              *)
LEMMA TailEffect ==
    ASSUME events \in Seq(Event), events # <<>>, events' = Tail(events)
    PROVE  /\ 1 \in DOMAIN events /\ Head(events) = events[1]
           /\ \A n \in DOMAIN events' :
                 n + 1 \in DOMAIN events /\ n + 1 > 1 /\ events'[n] = events[n + 1]
           /\ \A n \in DOMAIN events', m \in DOMAIN events' : n < m => n + 1 < m + 1
<1>1. /\ Len(events) \in Nat /\ DOMAIN events = 1 .. Len(events) /\ Len(events) >= 1
      /\ Head(events) = events[1]
      /\ events' \in Seq(Event) /\ Len(events') = Len(events) - 1
      /\ \A n \in 1 .. Len(events') : events'[n] = events[n + 1]
      BY HeadTailProperties, LenProperties, EmptySeq
<1>2. DOMAIN events' = 1 .. Len(events) - 1 BY <1>1, LenProperties
<1> QED BY <1>1, <1>2

(* A device that changes, and whatever else the compositor does with it.   *)
DeviceChanges(d) ==
    /\ UNCHANGED <<clientVars, calls>>
    /\ \E x \in {"paused", "live", "gone"} : dev' = [dev EXCEPT ![d] = x]
    /\ down' \subseteq down
    /\ dev[d] # "gone"
    /\ dev[d] = "live" => \A i \in down' : ClassOf(i) # DeviceClass(d)
    /\ \/ UNCHANGED events /\ (dev[d] = "unknown" => ~Present(d)')
       \/ Send("device", d) /\ \A e \in DevicesOf(DeviceClass(d)) : dev[e] \in {"unknown", "gone"}
       \/ \E kind \in {"resumed", "paused"} : Send(kind, d) /\ dev[d] \in {"paused", "live"}

LEMMA CompositorEffect ==
    ASSUME TypeOK, CompositorStep
    PROVE  \/ \E d \in Devices : DeviceChanges(d)
           \/ HangUp
<1>1. ASSUME NEW d \in Devices, Announce(d) PROVE DeviceChanges(d)
      <2>1. dev[d] \in {"unknown", "gone"} /\ dev[d] # "gone" BY <1>1 DEF Announce
      <2> QED BY <1>1, <2>1 DEF Announce, DeviceChanges
<1>2. ASSUME NEW d \in Devices, ResumeDevice(d) PROVE DeviceChanges(d)
      BY <1>2 DEF ResumeDevice, DeviceChanges
<1>3. ASSUME NEW d \in Devices, PauseDevice(d) PROVE DeviceChanges(d)
      <2>1. \A i \in down' : ClassOf(i) # DeviceClass(d) /\ i \in down
            BY <1>3 DEF PauseDevice, LetGo, ItemsOf, TypeOK
      <2> QED BY <1>3, <2>1 DEF PauseDevice, DeviceChanges
<1>4. ASSUME NEW d \in Devices, RemoveDevice(d) PROVE DeviceChanges(d)
      <2>1. \A i \in down' : ClassOf(i) # DeviceClass(d) /\ i \in down
            BY <1>4 DEF RemoveDevice, LetGo, ItemsOf, TypeOK
      <2> QED BY <1>4, <2>1 DEF RemoveDevice, DeviceChanges
<1> QED BY <1>1, <1>2, <1>3, <1>4 DEF CompositorStep

LEMMA DeviceChangesKeeps ==
    ASSUME TypeOK, DeviceInv, NEW d \in Devices, DeviceChanges(d), UNCHANGED backend
    PROVE  DeviceInv'
<1>1. PICK x \in {"paused", "live", "gone"} : dev' = [dev EXCEPT ![d] = x] BY DEF DeviceChanges
<1>2. \A e \in Devices : dev'[e] = IF e = d THEN x ELSE dev[e] BY <1>1 DEF TypeOK
<1>3. UNCHANGED <<eis, use, emulating, keymap, pending, calls>> /\ down' \subseteq down
      BY DEF DeviceChanges, clientVars
<1>4. events \in Seq(Event) BY DEF TypeOK
<1>5. NothingWaits' BY <1>3 DEF DeviceInv, NothingWaits, CanApply
<1>6. EisOfPortal' BY <1>3 DEF DeviceInv, EisOfPortal
<1>7. \/ UNCHANGED events
      \/ \E kind \in {"device", "resumed", "paused"} : Send(kind, d)
      BY DEF DeviceChanges
<1>8. Announced'
      <2>1. ASSUME NEW n \in DOMAIN events' PROVE dev'[events'[n].dev] # "unknown"
            <3>1. CASE UNCHANGED events BY <1>2, <1>4, <2>1, <3>1, EventFields DEF DeviceInv, Announced
            <3>2. ASSUME NEW kind \in {"device", "resumed", "paused"}, Send(kind, d)
                  PROVE  dev'[events'[n].dev] # "unknown"
                  BY <1>2, <1>4, <2>1, <3>2, EventFields, SendEffect DEF DeviceInv, Announced
            <3> QED BY <1>7, <3>1, <3>2
      <2>2. ASSUME NEW c \in Classes, use'[c] # NoDevice
            PROVE  use'[c] \in DevicesOf(c) /\ dev'[use'[c]] # "unknown"
            BY <1>2, <1>3, <2>2 DEF DeviceInv, Announced, DevicesOf
      <2> QED BY <2>1, <2>2 DEF Announced
<1>9. DownIsTaken'
      <2>1. ASSUME backend' = "portal", NEW i \in down'
            PROVE  Takes(i, use[ClassOf(i)], keymap)'
            <3>1. Takes(i, use[ClassOf(i)], keymap) BY <1>3, <2>1 DEF DeviceInv, DownIsTaken
            <3>2. use[ClassOf(i)] \in DevicesOf(ClassOf(i)) /\ dev[use[ClassOf(i)]] = "live"
                  BY <3>1, ClassFacts DEF Takes, DeviceInv, Announced
            <3>3. use[ClassOf(i)] # d BY <2>1, <3>2 DEF DeviceChanges, DevicesOf
            <3>4. dev'[use[ClassOf(i)]] = "live" BY <1>2, <3>2, <3>3 DEF DevicesOf
            <3> QED BY <1>3, <3>1, <3>4 DEF Takes
      <2> QED BY <2>1 DEF DownIsTaken
<1>10. OneAtATime'
      <2> DEFINE Absent(c) == \A e \in DevicesOf(c) : dev[e] \in {"unknown", "gone"}
      <2>0. \A e \in Devices : Present(e)' =>
               Present(e) \/ (e = d /\ dev[d] = "unknown" /\ Send("device", d) /\ Absent(DeviceClass(d)))
            BY <1>2 DEF Present, DeviceChanges, TypeOK
      <2> HIDE DEF Absent
      <2>1. ASSUME NEW c \in Classes, NEW a \in Devices, NEW e \in Devices,
                   a \in DevicesOf(c), e \in DevicesOf(c), a # e, Present(a)'
            PROVE  ~Present(e)'
            BY <2>0, <2>1 DEF DeviceInv, OneAtATime, Present, Absent, DevicesOf
      <2>2. ASSUME NEW c \in Classes, NEW n \in DOMAIN events', NEW m \in DOMAIN events',
                   n < m, IsDevice(n, c)', IsDevice(m, c)', Present(events[n].dev)'
            PROVE  FALSE
            <3>1. CASE UNCHANGED events
                  <4>1. ~Present(events[n].dev) /\ events[n].dev \in Devices
                        BY <1>4, <2>2, <3>1, EventFields DEF DeviceInv, OneAtATime, IsDevice
                  <4>2. events[n].dev = d /\ dev[d] = "unknown" BY <2>0, <2>2, <3>1, <4>1
                  <4> QED BY <2>2, <3>1, <4>2 DEF DeviceInv, Announced
            <3>2. ASSUME NEW kind \in {"device", "resumed", "paused"}, Send(kind, d) PROVE FALSE
                  <4>1. n \in DOMAIN events /\ events'[n] = events[n]
                        BY <1>4, <2>2, <3>2, SendEffect, EventFields
                  <4>2. events[n].dev \in Devices /\ dev[events[n].dev] # "unknown" /\ IsDevice(n, c)
                        BY <1>4, <2>2, <4>1, EventFields DEF DeviceInv, Announced, IsDevice
                  <4>3. Present(events[n].dev) BY <2>0, <2>2, <4>1, <4>2
                  <4>4. CASE m \in DOMAIN events /\ events'[m] = events[m]
                        BY <2>2, <4>1, <4>2, <4>3, <4>4 DEF DeviceInv, OneAtATime, IsDevice
                  <4>5. CASE events'[m].dev = d /\ events'[m].kind = kind
                        <5>1. kind = "device" /\ DeviceClass(d) = c BY <2>2, <4>5 DEF IsDevice
                        <5>2. \A e \in DevicesOf(c) : dev[e] \in {"unknown", "gone"}
                              <6>1. ~Send("resumed", d) /\ ~Send("paused", d)
                                    <7>1. events'[Len(events) + 1].kind = "device"
                                          <8>1. [kind |-> kind, dev |-> d] \in Event BY <5>1 DEF Event
                                          <8> QED BY <1>4, <3>2, <5>1, <8>1, AppendProperties DEF Send
                                    <7>2. ASSUME NEW k \in {"resumed", "paused"}, Send(k, d)
                                          PROVE  events'[Len(events) + 1].kind = k
                                          <8>1. [kind |-> k, dev |-> d] \in Event BY DEF Event
                                          <8> QED BY <1>4, <7>2, <8>1, AppendProperties DEF Send
                                    <7> QED BY <7>1, <7>2
                              <6>2. events' # events
                                    <7>1. [kind |-> kind, dev |-> d] \in Event BY <5>1 DEF Event
                                    <7>2. Len(events') = Len(events) + 1
                                          BY <1>4, <3>2, <7>1, AppendProperties DEF Send
                                    <7> QED BY <1>4, <7>2, LenProperties
                              <6> QED BY <5>1, <6>1, <6>2 DEF DeviceChanges
                        <5> QED BY <4>2, <4>3, <5>2 DEF Present, IsDevice, DevicesOf
                  <4> QED BY <1>4, <2>2, <3>2, <4>4, <4>5, SendEffect
            <3> QED BY <1>7, <3>1, <3>2
      <2>3. ASSUME NEW c \in Classes, NEW n \in DOMAIN events',
                   use'[c] # NoDevice, Present(use[c])', IsDevice(n, c)'
            PROVE  FALSE
            <3>1. use[c] # NoDevice /\ use[c] \in DevicesOf(c) /\ dev[use[c]] # "unknown" /\ use[c] \in Devices
                  BY <1>3, <2>3 DEF DeviceInv, Announced, DevicesOf
            <3>2. Present(use[c])
                  <4>2. dev'[use[c]] \in {"paused", "live"} BY <1>3, <2>3 DEF Present
                  <4> QED BY <1>2, <2>0, <3>1, <4>2 DEF Present
            <3>3. CASE UNCHANGED events
                  BY <2>3, <3>1, <3>2, <3>3 DEF DeviceInv, OneAtATime, IsDevice
            <3>4. ASSUME Send("device", d), \A e \in DevicesOf(DeviceClass(d)) : dev[e] \in {"unknown", "gone"}
                  PROVE  FALSE
                  <4>1. CASE n \in DOMAIN events /\ events'[n] = events[n]
                        BY <2>3, <3>1, <3>2, <4>1 DEF DeviceInv, OneAtATime, IsDevice
                  <4>2. CASE events'[n].dev = d
                        <5>1. DeviceClass(d) = c BY <2>3, <4>2 DEF IsDevice
                        <5> QED BY <3>1, <3>2, <3>4, <5>1 DEF Present
                  <4> QED BY <1>4, <3>4, <4>1, <4>2, SendEffect
            <3>5. ASSUME NEW kind \in {"resumed", "paused"}, Send(kind, d) PROVE FALSE
                  <4>1. CASE n \in DOMAIN events /\ events'[n] = events[n]
                        BY <2>3, <3>1, <3>2, <4>1 DEF DeviceInv, OneAtATime, IsDevice
                  <4>2. CASE events'[n].kind = kind BY <2>3, <3>5, <4>2 DEF IsDevice
                  <4> QED BY <1>4, <3>5, <4>1, <4>2, SendEffect
            <3> QED BY <3>3, <3>4, <3>5 DEF DeviceChanges
      <2> QED BY <2>1, <2>2, <2>3 DEF OneAtATime
<1> QED BY <1>5, <1>6, <1>8, <1>9, <1>10 DEF DeviceInv

(* The client's handlers. *)

LEMMA HeadEvent ==
    ASSUME TypeOK, NEW kind, NEW d \in Devices, Receives(kind, d)
    PROVE  /\ 1 \in DOMAIN events /\ events[1].kind = kind /\ events[1].dev = d
           /\ events \in Seq(Event) /\ events # <<>> /\ events' = Tail(events)
<1>1. events \in Seq(Event) /\ events # <<>> /\ events' = Tail(events) BY DEF TypeOK, Receives
<1>2. Head(events).kind = kind /\ Head(events).dev = d BY DEF Receives
<1> QED BY <1>1, <1>2, TailEffect

LEMMA FlushAll ==
    ASSUME TypeOK, NEW c \in Classes, NEW m, Flush(c, m)
    PROVE  /\ pending'[c] = <<>>
           /\ \A k \in Classes : k # c => pending'[k] = pending[k]
           /\ down' = Applied(pending[c], c, m)
BY DEF Flush, TypeOK

(* What is down after a run of commands was applied is what was down, or   *)
(* something the device takes.                                             *)
LEMMA AppliedTakes ==
    ASSUME NEW cs, NEW c, NEW m, NEW i \in Applied(cs, c, m)
    PROVE  /\ i \in Items
           /\ i \in down \/ (ClassOf(i) = c /\ Takes(i, use[c], m))
           /\ ClassOf(i) # c => i \in down
BY DEF Applied

LEMMA QueueOnlyShortens ==
    ASSUME TypeOK, DeviceInv, NEW kind, NEW d \in Devices, Receives(kind, d)
    PROVE  /\ \A n \in DOMAIN events' : dev'[events'[n].dev] # "unknown"
           /\ \A c \in Classes, n \in DOMAIN events', m \in DOMAIN events' :
                 n < m /\ IsDevice(n, c)' /\ IsDevice(m, c)' => ~Present(events[n].dev)'
           /\ \A c \in Classes, n \in DOMAIN events' :
                 use[c] # NoDevice /\ Present(use[c]) => ~IsDevice(n, c)'
           /\ \A c \in Classes, n \in DOMAIN events' :
                 kind = "device" /\ DeviceClass(d) = c /\ Present(d) => ~IsDevice(n, c)'
<1>1. UNCHANGED dev BY DEF Receives
<1>2. /\ 1 \in DOMAIN events /\ events[1].kind = kind /\ events[1].dev = d
      /\ \A n \in DOMAIN events' :
            n + 1 \in DOMAIN events /\ n + 1 > 1 /\ events'[n] = events[n + 1]
      /\ \A n \in DOMAIN events', m \in DOMAIN events' : n < m => n + 1 < m + 1
      BY HeadEvent, TailEffect
<1>3. \A n \in DOMAIN events', c \in Classes : IsDevice(n, c)' => IsDevice(n + 1, c)
      BY <1>2 DEF IsDevice
<1>4. ASSUME NEW n \in DOMAIN events' PROVE dev'[events'[n].dev] # "unknown"
      BY <1>1, <1>2 DEF DeviceInv, Announced
<1>5. ASSUME NEW c \in Classes, NEW n \in DOMAIN events', NEW m \in DOMAIN events',
             n < m, IsDevice(n, c)', IsDevice(m, c)'
      PROVE  ~Present(events[n].dev)'
      <2>1. ~Present(events[n + 1].dev) BY <1>2, <1>3, <1>5 DEF DeviceInv, OneAtATime
      <2> QED BY <1>1, <1>2, <2>1 DEF Present
<1>6. ASSUME NEW c \in Classes, NEW n \in DOMAIN events', use[c] # NoDevice, Present(use[c])
      PROVE  ~IsDevice(n, c)'
      BY <1>2, <1>3, <1>6 DEF DeviceInv, OneAtATime
<1>7. ASSUME NEW c \in Classes, NEW n \in DOMAIN events',
             kind = "device", DeviceClass(d) = c, Present(d), IsDevice(n, c)'
      PROVE  FALSE
      <2>1. IsDevice(1, c) BY <1>2, <1>7 DEF IsDevice
      <2> QED BY <1>2, <1>3, <1>7, <2>1 DEF DeviceInv, OneAtATime
<1> QED BY <1>4, <1>5, <1>6, <1>7

(* A new device: the former one of its class is gone, so nothing of that   *)
(* class is down.                                                          *)
LEMMA NothingDown ==
    ASSUME TypeOK, DeviceInv, backend = "portal", NEW c \in Classes,
           NEW d \in DevicesOf(c), Receives("device", d),
           NEW i \in Items, ClassOf(i) = c
    PROVE  ~Takes(i, use[c], keymap) /\ i \notin down /\ (use[c] # NoDevice => dev[use[c]] # "live")
<1>1. d \in Devices BY DEF DevicesOf
<1>2. 1 \in DOMAIN events /\ IsDevice(1, c) BY <1>1, HeadEvent DEF IsDevice, DevicesOf
<1>3. use[c] # NoDevice => ~Present(use[c]) BY <1>2 DEF DeviceInv, OneAtATime
<1> QED BY <1>3 DEF Takes, Present, DeviceInv, DownIsTaken

LEMMA RunningOnPortal ==
    ASSUME TypeOK, DeviceInv, eis = "running" PROVE backend = "portal"
BY DEF DeviceInv, EisOfPortal

LEMMA OnDeviceKeeps ==
    ASSUME TypeOK, DeviceInv, NEW d \in Devices, OnPointer(d) \/ OnKeyboard(d), UNCHANGED backend
    PROVE  DeviceInv' /\ down' = down
<1> DEFINE c == DeviceClass(d)
<1>1. /\ Receives("device", d) /\ d \in DevicesOf(c) /\ c \in Classes
      /\ use' = [use EXCEPT ![c] = d] /\ emulating' = [emulating EXCEPT ![c] = FALSE]
      BY ClassFacts DEF OnPointer, OnKeyboard, FinishDevice, DevicesOf
<1>2. /\ eis = "running" /\ UNCHANGED <<dev, eis, calls>> /\ backend = "portal"
      BY <1>1, RunningOnPortal DEF Receives
<1>3. \A k \in Classes : use'[k] = IF k = c THEN d ELSE use[k] BY <1>1 DEF TypeOK
<1>4. \A k \in Classes : emulating'[k] = (k # c /\ emulating[k]) BY <1>1 DEF TypeOK
<1>5. \A i \in Items : ClassOf(i) = c => i \notin down
      BY <1>1, <1>2, NothingDown
<1>6. use[c] # NoDevice => dev[use[c]] # "live"
      <2>1. 1 \in DOMAIN events /\ IsDevice(1, c) BY <1>1, HeadEvent DEF IsDevice
      <2> QED BY <1>1, <2>1 DEF DeviceInv, OneAtATime, Present
<1>7. \/ UNCHANGED <<down, pending, keymap>>
      \/ c = "keyboard" /\ keymap' = d /\ UNCHANGED <<down, pending>>
      \/ c = "keyboard" /\ keymap' = d /\ emulating[c] /\ Flush(c, d)
      BY ClassFacts DEF OnPointer, OnKeyboard
<1>8. down' = down
      <2>1. ASSUME Flush(c, d) PROVE down' = down
            <3>1. down' = Applied(pending[c], c, d) BY <1>1, <2>1, FlushAll
            <3>2. \A i : ~Takes(i, use[c], d) BY <1>6 DEF Takes
            <3> QED BY <3>1, <3>2 DEF Applied, TypeOK
      <2> QED BY <1>7, <2>1
<1>9. \A k \in Classes : k # c => pending'[k] = pending[k]
      BY <1>1, <1>7, FlushAll
<1>10. c # "keyboard" => keymap' = keymap BY <1>7
<1> HIDE DEF c
<1>11. NothingWaits'
      <2>1. ASSUME NEW k \in Classes, CanApply(k)' PROVE pending'[k] = <<>>
            <3>1. k # c /\ emulating[k] BY <1>4, <2>1 DEF CanApply
            <3>2. k = "keyboard" => keymap' = keymap BY <1>10, <3>1
            <3> QED BY <1>9, <2>1, <3>1, <3>2 DEF DeviceInv, NothingWaits, CanApply
      <2> QED BY <2>1 DEF NothingWaits
<1>12. EisOfPortal' BY <1>2 DEF DeviceInv, EisOfPortal
<1>13. Announced'
      <2>1. dev[d] # "unknown" BY <1>1, HeadEvent DEF DeviceInv, Announced
      <2> QED BY <1>1, <1>2, <1>3, <2>1, QueueOnlyShortens DEF DeviceInv, Announced
<1>14. OneAtATime'
      <2>1. ASSUME NEW k \in Classes, NEW a \in Devices, NEW e \in Devices,
                   a \in DevicesOf(k), e \in DevicesOf(k), a # e, Present(a)'
            PROVE  ~Present(e)'
            BY <1>2, <2>1 DEF DeviceInv, OneAtATime, Present
      <2>2. ASSUME NEW k \in Classes, NEW n \in DOMAIN events',
                   use'[k] # NoDevice, Present(use[k])', IsDevice(n, k)'
            PROVE  FALSE
            <3>1. dev[use'[k]] \in {"paused", "live"} BY <1>2, <2>2 DEF Present
            <3>2. DeviceClass(d) = c BY DEF c
            <3> QED BY <1>1, <1>3, <2>2, <3>1, <3>2, QueueOnlyShortens DEF Present
      <2> QED BY <1>1, <2>1, <2>2, QueueOnlyShortens DEF OneAtATime
<1>15. DownIsTaken'
      <2>1. ASSUME NEW i \in down' PROVE Takes(i, use[ClassOf(i)], keymap)'
            <3>1. i \in down /\ ClassOf(i) # c /\ ClassOf(i) \in Classes
                  BY <1>5, <1>8, ClassFacts DEF TypeOK
            <3>2. Takes(i, use[ClassOf(i)], keymap) BY <1>2, <3>1 DEF DeviceInv, DownIsTaken
            <3>3. use'[ClassOf(i)] = use[ClassOf(i)] BY <1>3, <3>1
            <3>4. i \in Keys => keymap' = keymap
                  BY <1>1, <1>10, <3>1 DEF ClassOf, Classes
            <3> QED BY <1>2, <3>2, <3>3, <3>4 DEF Takes
      <2> QED BY <2>1 DEF DownIsTaken
<1> QED BY <1>8, <1>11, <1>12, <1>13, <1>14, <1>15 DEF DeviceInv

LEMMA OnResumeKeeps ==
    ASSUME TypeOK, DeviceInv, NEW d \in Devices, Resume(d), UNCHANGED backend
    PROVE  DeviceInv'
<1> DEFINE c == DeviceClass(d)
           starts == use[c] = d /\ ~emulating[c]
           able == c = "keyboard" => keymap # NoDevice
<1>1. Receives("resumed", d) /\ c \in Classes /\ UNCHANGED <<use, keymap>>
      BY ClassFacts DEF Resume
<1>2. eis = "running" /\ UNCHANGED <<dev, eis, calls>> /\ backend = "portal"
      BY <1>1, RunningOnPortal DEF Receives
<1>3. emulating' = IF starts THEN [emulating EXCEPT ![c] = TRUE] ELSE emulating BY DEF Resume
<1>4. IF starts /\ able THEN Flush(c, keymap) ELSE UNCHANGED <<down, pending>> BY DEF Resume
<1> HIDE DEF c, starts, able
<1>5. \A k \in Classes : emulating'[k] => emulating[k] \/ (starts /\ k = c) BY <1>1, <1>3 DEF TypeOK
<1>6. NothingWaits'
      <2>1. ASSUME NEW k \in Classes, CanApply(k)' PROVE pending'[k] = <<>>
            <3>1. k = "keyboard" => keymap # NoDevice BY <1>1, <2>1 DEF CanApply
            <3>2. CASE starts /\ k = c
                  BY <1>1, <1>4, <3>1, <3>2, FlushAll DEF able
            <3>3. CASE ~(starts /\ k = c)
                  <4>1. emulating[k] BY <1>5, <2>1, <3>3 DEF CanApply
                  <4>2. pending[k] = <<>> BY <3>1, <4>1 DEF DeviceInv, NothingWaits, CanApply
                  <4>3. starts => k # c BY <3>3
                  <4> QED BY <1>1, <1>4, <4>2, <4>3, FlushAll
            <3> QED BY <3>2, <3>3
      <2> QED BY <2>1 DEF NothingWaits
<1>7. EisOfPortal' BY <1>2 DEF DeviceInv, EisOfPortal
<1>8. Announced' BY <1>1, <1>2, QueueOnlyShortens DEF DeviceInv, Announced
<1>9. OneAtATime'
      <2>2. ASSUME NEW k \in Classes, NEW a \in Devices, NEW e \in Devices,
                   a \in DevicesOf(k), e \in DevicesOf(k), a # e, Present(a)'
            PROVE  ~Present(e)'
            BY <1>2, <2>2 DEF DeviceInv, OneAtATime, Present
      <2>3. ASSUME NEW k \in Classes, NEW n \in DOMAIN events',
                   use'[k] # NoDevice, Present(use[k])', IsDevice(n, k)'
            PROVE  FALSE
            <3>1. Present(use[k]) BY <1>1, <1>2, <2>3 DEF Present
            <3> QED BY <1>1, <2>3, <3>1, QueueOnlyShortens
      <2> QED BY <1>1, <2>2, <2>3, QueueOnlyShortens DEF OneAtATime
<1>10. DownIsTaken'
      <2>1. ASSUME NEW i \in down' PROVE Takes(i, use[ClassOf(i)], keymap)'
            <3>1. Takes(i, use[ClassOf(i)], keymap)
                  BY <1>1, <1>2, <1>4, <2>1, FlushAll, AppliedTakes DEF DeviceInv, DownIsTaken
            <3> QED BY <1>1, <1>2, <3>1 DEF Takes
      <2> QED BY <2>1 DEF DownIsTaken
<1> QED BY <1>6, <1>7, <1>8, <1>9, <1>10 DEF DeviceInv

LEMMA OnPausedKeeps ==
    ASSUME TypeOK, DeviceInv, NEW d \in Devices, Paused(d), UNCHANGED backend
    PROVE  DeviceInv'
<1>1. Receives("paused", d) /\ UNCHANGED <<down, use, keymap, pending>> BY DEF Paused
<1>2. eis = "running" /\ UNCHANGED <<dev, eis, calls>> /\ backend = "portal"
      BY <1>1, RunningOnPortal DEF Receives
<1>3. \A k \in Classes : emulating'[k] => emulating[k]
      BY ClassFacts DEF Paused, TypeOK
<1>4. NothingWaits' BY <1>1, <1>3 DEF DeviceInv, NothingWaits, CanApply
<1>5. EisOfPortal' BY <1>2 DEF DeviceInv, EisOfPortal
<1>6. Announced' BY <1>1, <1>2, QueueOnlyShortens DEF DeviceInv, Announced
<1>7. OneAtATime'
      <2>2. ASSUME NEW k \in Classes, NEW a \in Devices, NEW e \in Devices,
                   a \in DevicesOf(k), e \in DevicesOf(k), a # e, Present(a)'
            PROVE  ~Present(e)'
            BY <1>2, <2>2 DEF DeviceInv, OneAtATime, Present
      <2>3. ASSUME NEW k \in Classes, NEW n \in DOMAIN events',
                   use'[k] # NoDevice, Present(use[k])', IsDevice(n, k)'
            PROVE  FALSE
            <3>1. Present(use[k]) BY <1>1, <1>2, <2>3 DEF Present
            <3> QED BY <1>1, <2>3, <3>1, QueueOnlyShortens
      <2> QED BY <1>1, <2>2, <2>3, QueueOnlyShortens DEF OneAtATime
<1>8. DownIsTaken' BY <1>1, <1>2 DEF DeviceInv, DownIsTaken, Takes
<1> QED BY <1>4, <1>5, <1>6, <1>7, <1>8 DEF DeviceInv

LEMMA OnInputKeeps ==
    ASSUME TypeOK, DeviceInv, OnInput, UNCHANGED backend
    PROVE  DeviceInv'
<1> DEFINE cmd == Head(calls)
           c == ClassOf(cmd.item)
<1>1. UNCHANGED <<dev, upsets, link, events, eis, use, emulating, keymap>> /\ eis = "running" /\ c \in Classes
      BY ClassFacts DEF OnInput, compositorVars
<1>2. IF CanApply(c) THEN down' = Applied(<<cmd>>, c, keymap) /\ UNCHANGED pending
      ELSE pending' = [pending EXCEPT ![c] = Append(@, cmd)] /\ UNCHANGED down
      BY DEF OnInput
<1>3. backend = "portal" BY <1>1, RunningOnPortal
<1> HIDE DEF cmd, c
<1>4. NothingWaits'
      <2>1. ASSUME NEW k \in Classes, CanApply(k)' PROVE pending'[k] = <<>>
            <3>1. CanApply(k) BY <1>1, <2>1 DEF CanApply
            <3>2. pending[k] = <<>> BY <3>1 DEF DeviceInv, NothingWaits
            <3>3. CanApply(c) \/ k # c BY <3>1
            <3> QED BY <1>2, <3>2, <3>3 DEF TypeOK
      <2> QED BY <2>1 DEF NothingWaits
<1>5. EisOfPortal' BY <1>1, <1>3 DEF DeviceInv, EisOfPortal
<1>6. Announced' BY <1>1 DEF DeviceInv, Announced
<1>7. OneAtATime' BY <1>1 DEF DeviceInv, OneAtATime, Present, IsDevice
<1>8. DownIsTaken'
      <2>1. ASSUME NEW i \in down' PROVE Takes(i, use[ClassOf(i)], keymap)'
            <3>1. Takes(i, use[ClassOf(i)], keymap)
                  BY <1>2, <1>3, <2>1, AppliedTakes DEF DeviceInv, DownIsTaken
            <3> QED BY <1>1, <3>1 DEF Takes
      <2> QED BY <2>1 DEF DownIsTaken
<1> QED BY <1>4, <1>5, <1>6, <1>7, <1>8 DEF DeviceInv

(* The end of the connection: nothing is left.                             *)
LEMMA TeardownKeeps ==
    ASSUME TypeOK, DeviceInv, Teardown, UNCHANGED backend
    PROVE  DeviceInv'
<1>1. /\ dev' = [d \in Devices |-> "gone"] /\ down' = {} /\ events' = <<>> /\ eis' = "done"
      /\ \A c \in Classes : ~emulating'[c] /\ pending'[c] = <<>>
      /\ calls' = <<>> /\ UNCHANGED <<use, keymap>> /\ eis = "running"
      BY DEF Teardown
<1>2. \A d \in Devices : dev'[d] = "gone" BY <1>1
<1>3. DOMAIN events' = {} BY <1>1
<1>4. NothingWaits' BY <1>1 DEF NothingWaits
<1>5. EisOfPortal' BY <1>1, RunningOnPortal DEF DeviceInv, EisOfPortal
<1>6. Announced' BY <1>1, <1>2, <1>3 DEF DeviceInv, Announced, DevicesOf
<1>7. OneAtATime' BY <1>2, <1>3 DEF OneAtATime, Present
<1>8. DownIsTaken' BY <1>1 DEF DownIsTaken
<1> QED BY <1>4, <1>5, <1>6, <1>7, <1>8 DEF DeviceInv

LEMMA HangUpKeeps ==
    ASSUME TypeOK, DeviceInv, HangUp, UNCHANGED backend
    PROVE  DeviceInv'
<1>1. /\ dev' = [d \in Devices |-> "gone"] /\ down' = {}
      /\ UNCHANGED <<events, eis, use, emulating, keymap, pending, calls>>
      BY DEF HangUp, clientVars
<1>2. \A d \in Devices : dev'[d] = "gone" BY <1>1
<1>3. \A n \in DOMAIN events : events[n].dev \in Devices BY EventFields DEF TypeOK
<1>4. NothingWaits' BY <1>1 DEF DeviceInv, NothingWaits, CanApply
<1>5. EisOfPortal' BY <1>1 DEF DeviceInv, EisOfPortal
<1>6. Announced'
      <2>1. \A n \in DOMAIN events' : dev'[events'[n].dev] # "unknown" BY <1>1, <1>2, <1>3
      <2>2. \A c \in Classes : use'[c] # NoDevice => use'[c] \in DevicesOf(c) /\ dev'[use'[c]] # "unknown"
            BY <1>1, <1>2 DEF DeviceInv, Announced, DevicesOf
      <2> QED BY <2>1, <2>2 DEF Announced
<1>7. OneAtATime'
      <2>1. \A d \in Devices : ~Present(d)' BY <1>2 DEF Present
      <2>2. ASSUME NEW c \in Classes, NEW n \in DOMAIN events' PROVE ~Present(events[n].dev)'
            BY <1>1, <1>2, <1>3, <2>2 DEF Present
      <2>3. ASSUME NEW c \in Classes, use'[c] # NoDevice PROVE ~Present(use[c])'
            BY <1>1, <1>2, <2>3 DEF Present, DeviceInv, Announced, DevicesOf
      <2> QED BY <2>1, <2>2, <2>3 DEF OneAtATime
<1>8. DownIsTaken' BY <1>1 DEF DownIsTaken
<1> QED BY <1>4, <1>5, <1>6, <1>7, <1>8 DEF DeviceInv

LEMMA BindKeeps == ASSUME TypeOK, DeviceInv, Bind, UNCHANGED backend PROVE DeviceInv'
<1>1. UNCHANGED <<dev, down, events, eis, use, emulating, keymap, pending, calls>>
      BY DEF Bind, clientVars
<1> QED BY <1>1 DEF DeviceInv, NothingWaits, CanApply, EisOfPortal, Announced, OneAtATime,
                    Present, IsDevice, DownIsTaken, Takes

LEMMA EisStepKeeps == ASSUME TypeOK, DeviceInv, EisStep PROVE DeviceInv'
<1>1. UNCHANGED backend BY DEF EisStep, hostVars
<1>2. CASE CompositorStep BY <1>1, <1>2, CompositorEffect, DeviceChangesKeeps, HangUpKeeps
<1>3. CASE ClientStep
      BY <1>1, <1>3, BindKeeps, OnDeviceKeeps, OnResumeKeeps, OnPausedKeeps, OnInputKeeps,
         TeardownKeeps DEF ClientStep, OnReadable
<1> QED BY <1>2, <1>3 DEF EisStep

(* Steps that leave the devices and what waits for them alone.             *)
LEMMA OtherKeeps ==
    ASSUME TypeOK, DeviceInv,
           UNCHANGED <<dev, events, use, emulating, keymap, pending>>,
           EisOfPortal', backend' = "portal" => down' = {} \/ (backend = "portal" /\ down' \subseteq down)
    PROVE  DeviceInv'
<1>1. NothingWaits' BY DEF DeviceInv, NothingWaits, CanApply
<1>2. Announced' BY DEF DeviceInv, Announced
<1>3. OneAtATime' BY DEF DeviceInv, OneAtATime, Present, IsDevice
<1>4. DownIsTaken' BY DEF DeviceInv, DownIsTaken, Takes
<1> QED BY <1>1, <1>2, <1>3, <1>4 DEF DeviceInv

(* What a step of another part does to the EIS thread: it puts a command   *)
(* in the channel while the thread runs, or, with enigo, changes what is   *)
(* down itself.                                                            *)
Outside ==
    /\ UNCHANGED <<dev, events, use, emulating, keymap, pending, eis, backend>>
    /\ UNCHANGED calls \/ eis = "running"
    /\ UNCHANGED down \/ backend = "enigo" \/ (backend = "none" /\ down' \subseteq down)

LEMMA OutsideKeeps ==
    ASSUME TypeOK, DeviceInv, Started, Outside PROVE DeviceInv' /\ (backend = "none" => down' = {})
<1>1. EisOfPortal' BY DEF DeviceInv, EisOfPortal, Outside
<1>2. backend = "none" => down' = {} BY DEF Started, Outside
<1> QED BY <1>1, <1>2, OtherKeeps DEF Outside, Started

LEMMA ApplyEffect ==
    ASSUME TypeOK, NEW s \in Sessions, InjectionStep(s)
    PROVE  Outside /\ UNCHANGED host
<1> USE DEF Outside, compositorVars, clientVars, hostVars
<1>1. CASE PortalApply(s) BY <1>1 DEF PortalApply, SendCall
<1>2. CASE EnigoApply(s) BY <1>2 DEF EnigoApply
<1>3. CASE ReleaseOne(s)
      BY <1>3 DEF ReleaseOne, SendCall, TypeOK
<1>4. CASE EndInjection(s) BY <1>4 DEF EndInjection, eisVars
<1> QED BY <1>1, <1>2, <1>3, <1>4 DEF InjectionStep

LEMMA HostStepKeeps ==
    ASSUME TypeOK, DeviceInv, Started, HostStep PROVE DeviceInv' /\ Started'
<1>1. CASE Consent
      <2>1. /\ UNCHANGED <<dev, down, events, use, emulating, keymap, pending, calls>>
            /\ eis' = "running" /\ backend' = "portal" /\ host' = "serving" /\ down = {}
            BY <1>1 DEF Consent, StartEis, Started
      <2>2. EisOfPortal' BY <2>1 DEF EisOfPortal
      <2> QED BY <2>1, <2>2, OtherKeeps DEF Started
<1>2. CASE Fallback
      <2>1. UNCHANGED <<dev, down, events, use, emulating, keymap, pending, calls, eis>>
            BY <1>2 DEF Fallback, eisVars, compositorVars, clientVars
      <2>2. backend = "none" /\ backend' = "enigo" /\ host' = "serving"
            BY <1>2 DEF Fallback, Started
      <2>3. EisOfPortal' BY <2>1, <2>2 DEF DeviceInv, EisOfPortal
      <2> QED BY <2>1, <2>2, <2>3, OtherKeeps DEF Started
<1>3. CASE StopHost \/ DropPortal \/ CaptureEnds \/ SignalTask \/ CloseSession \/ WaitClosed
      <2>1. Outside /\ (host' = host \/ host' # "asking")
            BY <1>3 DEF StopHost, DropPortal, CaptureEnds, SignalTask, CloseSession, WaitClosed,
                        Outside, eisVars, compositorVars, clientVars
      <2> QED BY <2>1, OutsideKeeps DEF Started, Outside
<1>4. CASE StopEis
      <2>1. Outside /\ host' # "asking"
            BY <1>4 DEF StopEis, Outside, compositorVars, clientVars
      <2> QED BY <2>1, OutsideKeeps DEF Started, Outside
<1> QED BY <1>1, <1>2, <1>3, <1>4 DEF HostStep

LEMMA StartedEisStep == ASSUME TypeOK, DeviceInv, Started, EisStep PROVE Started'
<1>1. UNCHANGED <<host, backend>> BY DEF EisStep, hostVars
<1>2. CASE CompositorStep
      <2>1. UNCHANGED eis /\ down' \subseteq down
            BY <1>2, CompositorEffect DEF DeviceChanges, HangUp, clientVars
      <2> QED BY <1>1, <2>1 DEF Started
<1>3. CASE ClientStep
      <2>1. eis = "running" /\ eis' \in {"running", "done"}
            BY <1>3 DEF ClientStep, OnReadable, Bind, OnPointer, OnKeyboard, Resume, Paused, Receives,
                        OnInput, Teardown, clientVars
      <2> QED BY <1>1, <2>1, RunningOnPortal DEF Started
<1> QED BY <1>2, <1>3 DEF EisStep

(* DeviceInv and Started as one, through every step.                       *)
LEMMA DeviceInit == InputInit => DeviceInv /\ Started
<1> SUFFICES ASSUME InputInit PROVE DeviceInv /\ Started OBVIOUS
<1>1. /\ \A c \in Classes : ~emulating[c] /\ pending[c] = <<>> /\ use[c] = NoDevice
      /\ down = {} /\ calls = <<>> /\ eis = "off" /\ backend = "none" /\ DOMAIN events = {}
      BY DEF InputInit, Init
<1>2. NothingWaits /\ EisOfPortal /\ Announced /\ DownIsTaken /\ Started
      BY <1>1 DEF NothingWaits, EisOfPortal, Announced, DownIsTaken, Started
<1>3. OneAtATime
      BY <1>1 DEF OneAtATime, InputInit, Init, Present
<1> QED BY <1>2, <1>3 DEF DeviceInv

LEMMA DeviceStep ==
    ASSUME TypeOK, DeviceInv, Started, [Next]_vars PROVE DeviceInv' /\ Started'
<1>1. ASSUME Outside, UNCHANGED host PROVE DeviceInv' /\ Started'
      BY <1>1, OutsideKeeps DEF Started, Outside
<1>2. CASE \E s \in Sessions : InjectionStep(s) BY <1>1, <1>2, ApplyEffect
<1>3. CASE BeginSession \/ EndSession
      BY <1>1, <1>3 DEF BeginSession, EndSession, Outside, eisVars, compositorVars, clientVars, hostVars
<1>4. CASE \E i \in Items, act \in {"press", "release", "type"} : RecvInput(i, act)
      BY <1>1, <1>4 DEF RecvInput, Outside, eisVars, compositorVars, clientVars, hostVars
<1>5. CASE UNCHANGED vars
      <2>1. UNCHANGED <<eisVars, hostVars>> BY <1>5 DEF vars
      <2> QED BY <1>1, <2>1 DEF Outside, eisVars, compositorVars, clientVars, hostVars
<1> QED BY <1>2, <1>3, <1>4, <1>5, EisStepKeeps, StartedEisStep, HostStepKeeps DEF Next

-----------------------------------------------------------------------------
(* What is held accounts for what is, and will be, down. *)

Waiting(i) == After(down, pending[ClassOf(i)])

(* It is enough that `pending` settles in less than before.                *)
LEMMA StillAccounted ==
    ASSUME HeldIsAccounted, UNCHANGED <<calls, held>>,
           \A i \in Items : i \in Waiting(i)' => i \in Waiting(i)
    PROVE  HeldIsAccounted'
<1> SUFFICES ASSUME NEW i \in Settled' PROVE i \in Held' BY DEF HeldIsAccounted
<1>1. i \in Items /\ i \in After(Waiting(i)', calls) BY DEF Settled, Waiting
<1>2. i \in After(Waiting(i), calls) BY <1>1, AfterMono
<1>3. i \in Held BY <1>1, <1>2 DEF HeldIsAccounted, Settled, Waiting
<1> QED BY <1>3 DEF Held

LEMMA LessIsDown ==
    ASSUME HeldIsAccounted, UNCHANGED <<calls, held, pending>>, down' \subseteq down
    PROVE  HeldIsAccounted'
<1>1. ASSUME NEW i \in Items, i \in Waiting(i)' PROVE i \in Waiting(i)
      <2>1. i \in After(down', pending[ClassOf(i)]) BY <1>1 DEF Waiting
      <2> QED BY <2>1, AfterMono DEF Waiting
<1> QED BY <1>1, StillAccounted

(* flush_pending: the device takes what it is given, or nothing of its     *)
(* class is down.                                                          *)
LEMMA FlushAccounted ==
    ASSUME TypeOK, HeldIsAccounted, UNCHANGED <<calls, held>>, NEW c \in Classes, NEW m, Flush(c, m),
           \A i \in down : ClassOf(i) = c => Takes(i, use[c], m)
    PROVE  HeldIsAccounted'
<1>1. ASSUME NEW i \in Items, i \in Waiting(i)' PROVE i \in Waiting(i)
      <2>1. i \in After(down', pending'[ClassOf(i)]) BY <1>1 DEF Waiting
      <2>2. CASE ClassOf(i) = c
            <3>1. i \in Applied(pending[c], c, m) BY <2>1, <2>2, FlushAll, AfterNone
            <3>2. i \in After(down, pending[c])
                  BY <2>2, <3>1 DEF Applied
            <3> QED BY <2>2, <3>2 DEF Waiting
      <2>3. CASE ClassOf(i) # c
            <3>1. i \in After(down', pending[ClassOf(i)]) BY <2>1, <2>3, ClassFacts, FlushAll
            <3>2. i \in down' => i \in down BY <2>3, FlushAll, AppliedTakes
            <3> QED BY <3>1, <3>2, AfterMono DEF Waiting
      <2> QED BY <2>2, <2>3
<1> QED BY <1>1, StillAccounted

LEMMA DeviceAccounted ==
    ASSUME TypeOK, DeviceInv, HeldIsAccounted, UNCHANGED held,
           NEW d \in Devices, OnPointer(d) \/ OnKeyboard(d)
    PROVE  HeldIsAccounted'
<1> DEFINE c == DeviceClass(d)
<1>1. /\ Receives("device", d) /\ c \in Classes /\ UNCHANGED calls
      /\ UNCHANGED <<down, pending>> \/ Flush(c, d)
      BY ClassFacts DEF OnPointer, OnKeyboard, Receives
<1>2. backend = "portal" BY <1>1, RunningOnPortal DEF Receives
<1>3. \A i \in down : ClassOf(i) # c
      BY <1>1, <1>2, NothingDown DEF DevicesOf, TypeOK
<1> HIDE DEF c
<1> QED BY <1>1, <1>3, FlushAccounted, LessIsDown

LEMMA ResumeAccounted ==
    ASSUME TypeOK, DeviceInv, HeldIsAccounted, UNCHANGED held, NEW d \in Devices, Resume(d)
    PROVE  HeldIsAccounted'
<1> DEFINE c == DeviceClass(d)
<1>1. /\ Receives("resumed", d) /\ c \in Classes /\ UNCHANGED calls
      /\ UNCHANGED <<down, pending>> \/ Flush(c, keymap)
      BY ClassFacts DEF Resume, Receives
<1>2. backend = "portal" BY <1>1, RunningOnPortal DEF Receives
<1>3. \A i \in down : ClassOf(i) = c => Takes(i, use[c], keymap)
      BY <1>2 DEF DeviceInv, DownIsTaken
<1> HIDE DEF c
<1> QED BY <1>1, <1>3, FlushAccounted, LessIsDown

(* on_input: the command leaves the channel and takes effect, or waits     *)
(* behind what waits already.                                              *)
LEMMA InputAccounted ==
    ASSUME TypeOK, DeviceInv, HeldIsAccounted, UNCHANGED held, OnInput
    PROVE  HeldIsAccounted'
<1> DEFINE cmd == Head(calls)
           c == ClassOf(cmd.item)
<1>1. calls \in Seq(Message) /\ calls # <<>> /\ cmd \in Command /\ c \in Classes /\ calls' = Tail(calls)
      <2>1. calls \in Seq(Message) /\ calls # <<>> /\ cmd # Shutdown /\ calls' = Tail(calls)
            BY DEF OnInput, TypeOK, Message
      <2>2. cmd \in Message BY <2>1, HeadTailProperties
      <2> QED BY <2>1, <2>2, CommandIsMessage, ClassFacts
<1>2. cmd.item \in Items /\ cmd.press \in BOOLEAN BY <1>1 DEF Command
<1>3. IF CanApply(c) THEN down' = Applied(<<cmd>>, c, keymap) /\ UNCHANGED pending
      ELSE pending' = [pending EXCEPT ![c] = Append(@, cmd)] /\ UNCHANGED down
      BY DEF OnInput
<1>4. backend = "portal" /\ UNCHANGED <<use, keymap>> BY RunningOnPortal DEF OnInput
<1> HIDE DEF cmd, c
<1>5. ASSUME NEW i \in Items, i \in Waiting(i)' PROVE i \in After(Waiting(i), <<cmd>>)
      <2>1. i \in After(down', pending'[ClassOf(i)]) BY <1>5 DEF Waiting
      <2>2. i = cmd.item => ClassOf(i) = c BY DEF c
      <2>3. SUFFICES IF cmd.item = i THEN cmd.press = TRUE ELSE i \in Waiting(i) BY AfterOne
      <2>4. CASE CanApply(c)
            <3>1. pending[c] = <<>> BY <1>1, <2>4 DEF DeviceInv, NothingWaits
            <3>2. CASE ClassOf(i) = c
                  <4>1. i \in Applied(<<cmd>>, c, keymap)
                        BY <1>3, <2>1, <2>4, <3>1, <3>2, AfterNone
                  <4>2. i \in down => Takes(i, use[c], keymap)
                        BY <1>4, <3>2 DEF DeviceInv, DownIsTaken
                  <4>3. i \in After(down, <<cmd>>) BY <3>2, <4>1, <4>2 DEF Applied
                  <4>4. IF cmd.item = i THEN cmd.press = TRUE ELSE i \in down BY <4>3, AfterOne
                  <4>5. i \in down => i \in Waiting(i) BY <3>1, <3>2, NoneAfter DEF Waiting
                  <4> QED BY <4>4, <4>5
            <3>3. CASE ClassOf(i) # c
                  <4>1. i \in After(down', pending[ClassOf(i)]) BY <1>3, <2>1, <2>4
                  <4>2. i \in down' => i \in down BY <1>3, <2>4, <3>3, AppliedTakes
                  <4>3. i \in Waiting(i) BY <4>1, <4>2, AfterMono DEF Waiting
                  <4> QED BY <2>2, <3>3, <4>3
            <3> QED BY <3>2, <3>3
      <2>5. CASE ~CanApply(c)
            <3>1. CASE ClassOf(i) = c
                  <4>1. i \in After(down, Append(pending[c], cmd)) /\ pending[c] \in Seq(Command)
                        BY <1>1, <1>3, <2>1, <2>5, <3>1 DEF TypeOK
                  <4>2. IF cmd.item = i THEN cmd.press ELSE i \in After(down, pending[c])
                        BY <1>1, <4>1, AfterAppend
                  <4> QED BY <1>2, <3>1, <4>2 DEF Waiting
            <3>2. CASE ClassOf(i) # c
                  <4>1. pending'[ClassOf(i)] = pending[ClassOf(i)]
                        BY <1>3, <2>5, <3>2, ClassFacts DEF TypeOK
                  <4>2. down' = down BY <1>3, <2>5
                  <4>3. i \in Waiting(i) BY <2>1, <4>1, <4>2 DEF Waiting
                  <4> QED BY <2>2, <3>2, <4>3
            <3> QED BY <3>1, <3>2
      <2> QED BY <2>4, <2>5
<1>6. ASSUME NEW i \in Settled' PROVE i \in Held'
      <2>1. i \in Items /\ i \in After(Waiting(i)', Tail(calls)) BY <1>1, <1>6 DEF Settled, Waiting
      <2>2. i \in After(After(Waiting(i), <<cmd>>), Tail(calls)) BY <1>5, <2>1, AfterMono
      <2>3. i \in After(Waiting(i), calls) BY <1>1, <2>2, AfterHead, MessageFields DEF cmd
      <2>4. i \in Held BY <2>1, <2>3 DEF HeldIsAccounted, Settled, Waiting
      <2> QED BY <2>4 DEF Held
<1> QED BY <1>6 DEF HeldIsAccounted

LEMMA EisAccounted ==
    ASSUME TypeOK, DeviceInv, HeldIsAccounted, EisStep PROVE HeldIsAccounted'
<1>1. UNCHANGED held BY DEF EisStep, threadVars
<1>2. CASE CompositorStep
      <2>1. UNCHANGED <<pending, calls>> /\ down' \subseteq down
            BY <1>2, CompositorEffect DEF DeviceChanges, HangUp, clientVars
      <2> QED BY <1>1, <2>1, LessIsDown
<1>3. CASE Bind BY <1>1, <1>3, LessIsDown DEF Bind, clientVars
<1>4. ASSUME NEW d \in Devices, Paused(d) PROVE HeldIsAccounted'
      BY <1>1, <1>4, LessIsDown DEF Paused, Receives
<1>5. CASE Teardown
      <2>1. down' = {} /\ calls' = <<>> /\ \A c \in Classes : pending'[c] = <<>>
            BY <1>5 DEF Teardown
      <2>2. ASSUME NEW i \in Settled' PROVE FALSE
            <3>1. i \in After(Waiting(i)', <<>>) BY <2>1, <2>2 DEF Settled, Waiting
            <3>2. i \in Waiting(i)' BY <3>1, AfterNone
            <3>3. i \in After({}, <<>>) BY <2>1, <3>2, ClassFacts DEF Waiting
            <3> QED BY <3>3, AfterNone
      <2> QED BY <2>2 DEF HeldIsAccounted
<1> QED BY <1>1, <1>2, <1>3, <1>4, <1>5, DeviceAccounted, ResumeAccounted, InputAccounted
        DEF EisStep, ClientStep, OnReadable

(* `held` is written before the command goes out.                          *)
LEMMA HoldsOthers ==
    ASSUME held \in [Sessions -> SUBSET (Items \ Mute)], NEW s \in Sessions, NEW i \in Items,
           NEW press \in BOOLEAN, Holds(s, i, press)
    PROVE  /\ press => i \in Held'
           /\ \A j \in Held : j # i => j \in Held'
<1>1. \A t \in Sessions :
         held'[t] = IF t = s THEN IF press THEN held[s] \cup {i} ELSE held[s] \ {i} ELSE held[t]
      BY DEF Holds
<1>2. ASSUME press PROVE i \in Held' BY <1>1, <1>2 DEF Held
<1>3. ASSUME NEW j \in Held, j # i PROVE j \in Held'
      <2>1. PICK t \in Sessions : j \in held[t] BY DEF Held
      <2>2. j \in held'[t] BY <1>1, <1>3, <2>1
      <2> QED BY <2>2 DEF Held
<1> QED BY <1>2, <1>3

LEMMA PortalAccounted ==
    ASSUME TypeOK, DeviceInv, Started, HeldIsAccounted, backend = "portal",
           NEW s \in Sessions, NEW i \in Items, NEW press \in BOOLEAN,
           Holds(s, i, press), SendCall(i, press), UNCHANGED <<down, pending>>
    PROVE  HeldIsAccounted'
<1>1. SUFFICES ASSUME NEW j \in Settled' PROVE j \in Held' BY DEF HeldIsAccounted
<1>2. j \in Items /\ j \in After(Waiting(j), calls') BY <1>1 DEF Settled, Waiting
<1>3. CASE eis = "running"
      <2> DEFINE cmd == [item |-> i, press |-> press]
      <2>1. cmd \in Message /\ calls \in Seq(Message) /\ calls' = Append(calls, cmd)
            BY <1>3, CommandIsMessage DEF SendCall, TypeOK, Message
      <2>2. cmd.item = i /\ cmd.press = press OBVIOUS
      <2> HIDE DEF cmd
      <2>3. IF cmd.item = j THEN cmd.press ELSE j \in After(Waiting(j), calls)
            BY <1>2, <2>1, AfterAppend
      <2>4. j # i => j \in Held BY <1>2, <2>2, <2>3 DEF HeldIsAccounted, Settled, Waiting
      <2>5. j = i => press BY <2>2, <2>3
      <2>6. held \in [Sessions -> SUBSET (Items \ Mute)] BY DEF TypeOK
      <2> QED BY <2>4, <2>5, <2>6, HoldsOthers
<1>4. CASE eis # "running"
      <2>1. /\ down = {} /\ calls = <<>> /\ calls' = calls
            /\ \A c \in Classes : pending[c] = <<>>
            BY <1>4 DEF Started, DeviceInv, EisOfPortal, SendCall, TypeOK
      <2>2. j \in Waiting(j) BY <1>2, <2>1, AfterNone
      <2>3. j \in After({}, <<>>) BY <2>1, <2>2, ClassFacts DEF Waiting
      <2> QED BY <2>3, AfterNone
<1> QED BY <1>3, <1>4

(* Without the portal nothing is on its way: what is down is all there is. *)
LEMMA EnigoAccounted ==
    ASSUME TypeOK, DeviceInv, HeldIsAccounted, backend # "portal",
           NEW s \in Sessions, NEW i \in Items, NEW press \in BOOLEAN, Holds(s, i, press),
           down' = IF press THEN down \cup {i} ELSE down \ {i}, UNCHANGED <<calls, pending>>
    PROVE  HeldIsAccounted'
<1>1. calls = <<>> /\ \A c \in Classes : pending[c] = <<>> BY DEF DeviceInv, EisOfPortal
<1>2. SUFFICES ASSUME NEW j \in Settled' PROVE j \in Held' BY DEF HeldIsAccounted
<1>3. j \in Items /\ j \in After(Waiting(j)', <<>>) BY <1>1, <1>2 DEF Settled, Waiting
<1>4. j \in Waiting(j)' BY <1>3, AfterNone
<1>5. j \in After(down', <<>>) BY <1>1, <1>4, ClassFacts DEF Waiting
<1>6. j \in down' BY <1>5, AfterNone
<1>7. ASSUME j \in down PROVE j \in Held
      <2>1. j \in Waiting(j) BY <1>1, <1>3, <1>7, ClassFacts, NoneAfter DEF Waiting
      <2>2. j \in After(Waiting(j), calls) BY <1>1, <1>3, <2>1, NoneAfter
      <2> QED BY <1>3, <2>2 DEF HeldIsAccounted, Settled, Waiting
<1>8. held \in [Sessions -> SUBSET (Items \ Mute)] BY DEF TypeOK
<1>9. j = i => press BY <1>6
<1>10. j # i => j \in down BY <1>6
<1> QED BY <1>7, <1>8, <1>9, <1>10, HoldsOthers

LEMMA InjectionAccounted ==
    ASSUME TypeOK, DeviceInv, Started, HeldIsAccounted, NEW s \in Sessions, InjectionStep(s)
    PROVE  HeldIsAccounted'
<1>1. CASE PortalApply(s)
      <2> DEFINE input == Head(chan[s])
                 press == input.act # "release"
      <2>1. input.item \in Items
            <3>1. input \in Input BY <1>1, TakeType DEF PortalApply, Takeable, TypeOK
            <3> QED BY <3>1 DEF Input
      <2>2. UNCHANGED <<down, pending>> /\ backend = "portal" /\ press \in BOOLEAN
            BY <1>1 DEF PortalApply, clientVars
      <2>3. \/ Holds(s, input.item, press) /\ SendCall(input.item, press)
            \/ UNCHANGED <<held, calls>>
            BY <1>1 DEF PortalApply
      <2> HIDE DEF input, press
      <2> QED BY <2>1, <2>2, <2>3, PortalAccounted, LessIsDown
<1>2. CASE EnigoApply(s)
      <2> DEFINE input == Head(chan[s])
                 press == input.act = "press"
      <2>1. input.item \in Items
            <3>1. input \in Input BY <1>2, TakeType DEF EnigoApply, Takeable, TypeOK
            <3> QED BY <3>1 DEF Input
      <2>2. UNCHANGED <<calls, pending>> /\ backend = "enigo" /\ press \in BOOLEAN
            BY <1>2 DEF EnigoApply, clientVars
      <2>3. \/ /\ Holds(s, input.item, press)
               /\ down' = IF press THEN down \cup {input.item} ELSE down \ {input.item}
            \/ UNCHANGED <<held, down>>
            BY <1>2 DEF EnigoApply
      <2> HIDE DEF input, press
      <2> QED BY <2>1, <2>2, <2>3, EnigoAccounted, LessIsDown
<1>3. CASE ReleaseOne(s)
      <2>1. PICK i \in held[s] :
               /\ Holds(s, i, FALSE)
               /\ IF backend = "portal" THEN SendCall(i, FALSE) /\ UNCHANGED down
                  ELSE down' = down \ {i} /\ UNCHANGED calls
            BY <1>3 DEF ReleaseOne
      <2>2. i \in Items BY DEF TypeOK
      <2>3. UNCHANGED pending BY <1>3 DEF ReleaseOne, clientVars
      <2> QED BY <2>1, <2>2, <2>3, PortalAccounted, EnigoAccounted
<1>4. CASE EndInjection(s)
      BY <1>4, LessIsDown DEF EndInjection, eisVars, clientVars
<1> QED BY <1>1, <1>2, <1>3, <1>4 DEF InjectionStep

LEMMA HostAccounted ==
    ASSUME TypeOK, DeviceInv, HeldIsAccounted, HostStep PROVE HeldIsAccounted'
<1>1. UNCHANGED <<down, pending, held>>
      BY DEF HostStep, Consent, Fallback, StopHost, DropPortal, CaptureEnds, StopEis, SignalTask,
             CloseSession, WaitClosed, eisVars, clientVars, threadVars
<1>2. CASE UNCHANGED calls BY <1>1, <1>2, LessIsDown
<1>3. CASE calls' = Append(calls, Shutdown)
      <2>1. SUFFICES ASSUME NEW i \in Settled' PROVE i \in Held' BY DEF HeldIsAccounted
      <2>2. i \in Items /\ i \in After(Waiting(i), Append(calls, Shutdown))
            BY <1>1, <1>3, <2>1 DEF Settled, Waiting
      <2>3. calls \in Seq(Message) BY DEF TypeOK, Message
      <2>4. IF Shutdown.item = i THEN Shutdown.press ELSE i \in After(Waiting(i), calls)
            BY <2>2, <2>3, CommandIsMessage, AfterAppend
      <2>5. i \in After(Waiting(i), calls) BY <2>4 DEF Shutdown
      <2>6. i \in Held BY <2>2, <2>5 DEF HeldIsAccounted, Settled, Waiting
      <2> QED BY <1>1, <2>6 DEF Held
<1>4. UNCHANGED calls \/ calls' = Append(calls, Shutdown)
      BY DEF HostStep, Consent, Fallback, StopHost, DropPortal, CaptureEnds, StopEis, SignalTask,
             CloseSession, WaitClosed, eisVars
<1> QED BY <1>2, <1>3, <1>4

LEMMA InvInit == InputInit => Inv
<1> SUFFICES ASSUME InputInit PROVE Inv OBVIOUS
<1>1. TypeOK /\ DeviceInv /\ Started BY TypeInit, DeviceInit
<1>2. down = {} /\ calls = <<>> /\ \A c \in Classes : pending[c] = <<>>
      BY DEF InputInit, Init
<1>3. ASSUME NEW i \in Settled PROVE FALSE
      <2>1. i \in After(Waiting(i), <<>>) BY <1>2, <1>3 DEF Settled, Waiting
      <2>2. i \in Waiting(i) BY <2>1, AfterNone
      <2>3. i \in After({}, <<>>) BY <1>2, <2>2, ClassFacts DEF Waiting
      <2> QED BY <2>3, AfterNone
<1> QED BY <1>1, <1>3 DEF Inv, HeldIsAccounted

LEMMA InvStep == ASSUME Inv, [Next]_vars PROVE Inv'
<1>1. TypeOK /\ DeviceInv /\ Started /\ HeldIsAccounted BY DEF Inv
<1>2. TypeOK' /\ DeviceInv' /\ Started' BY <1>1, TypeStep, DeviceStep
<1> SUFFICES HeldIsAccounted' BY <1>2 DEF Inv
<1>3. CASE BeginSession \/ EndSession
      BY <1>1, <1>3, LessIsDown DEF BeginSession, EndSession, eisVars, clientVars, threadVars
<1>4. CASE \E i \in Items, act \in {"press", "release", "type"} : RecvInput(i, act)
      BY <1>1, <1>4, LessIsDown DEF RecvInput, eisVars, clientVars
<1>5. CASE UNCHANGED vars
      <2>1. UNCHANGED <<eisVars, threadVars>> BY <1>5 DEF vars
      <2> QED BY <1>1, <2>1, LessIsDown DEF eisVars, clientVars, threadVars
<1> QED BY <1>1, <1>3, <1>4, <1>5, EisAccounted, InjectionAccounted, HostAccounted DEF Next

(* Whatever is down, or is still going to be pressed by a command on its   *)
(* way, some injector holds and will release.                              *)
THEOREM HeldIsAccountedHolds == Spec => []HeldIsAccounted
<1>1. Inv => HeldIsAccounted BY DEF Inv
<1> QED BY InvInit, InvStep, <1>1, PTL DEF Spec
=============================================================================

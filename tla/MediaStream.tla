----------------------------- MODULE MediaStream -----------------------------
(***************************************************************************)
(* The picture's way from the host's monitors to the viewer, inside the    *)
(* sessions of one host: `stream_and_control` with its control loop, the   *)
(* capture thread, the media task and the teardown that joins them         *)
(* (session-host), the tile encoder and decoder (codec), one QUIC stream   *)
(* per frame (transport) and the viewer's media task (session-viewer).     *)
(*                                                                         *)
(* A picture has a size and a colour per tile.  A message lists the tiles  *)
(* it carries; the decoder reads no other tile of `shot`.  The input       *)
(* messages of the control loop are the subject of another module, and the *)
(* handshake before a session and the commands that end it are             *)
(* HostService.  The session's codec is the constant Codec: the tile       *)
(* codecs are modelled, H.264 (OpenH264, outside this repository) is not.  *)
(***************************************************************************)
EXTENDS Naturals, Sequences

CONSTANTS
    Monitors,   \* the monitors `capturer.monitors()` lists
    Primary,    \* the one the session starts with
    Tiles,      \* the tiles of a picture
    Colours,    \* what a tile may look like
    Sizes,      \* the resolutions
    Pictures,   \* the pictures
    Shows,      \* Shows[m]: the pictures monitor m may show
    Codec,      \* the negotiated codec, "RawRgba" or "JpegTiles"
    Jpeg,       \* Jpeg[c]: a tile of colour c after JPEG compression
    MaxWire,    \* bound: frames in flight, the peer's flow control window
    None        \* no picture

(* A tile after encoding and decoding: JPEG is lossy, raw RGBA is not. *)
Reproduced(c) == IF Codec = "RawRgba" THEN c ELSE Jpeg[c]

Decoded(p) == [size |-> p.size, px |-> [t \in Tiles |-> Reproduced(p.px[t])]]

ASSUME MediaAssumption ==
    /\ Primary \in Monitors
    /\ Pictures \subseteq [size : Sizes, px : [Tiles -> Colours]]
    /\ Shows \in [Monitors -> SUBSET Pictures]
    /\ Codec \in {"RawRgba", "JpegTiles"}
    /\ DOMAIN Jpeg = Colours
    /\ MaxWire \in Nat \ {0}
    /\ None \notin Pictures
    /\ \A p \in Pictures : None # Decoded(p)

VARIABLES
    screen,     \* what each monitor shows
    phase,      \* where stream_and_control is, "idle" between sessions
    conn,       \* the session's connection is open at the host
    activeId,   \* the AtomicU32 the capture thread watches
    stop,       \* the AtomicBool that ends the capture thread
    capPc,      \* where the capture thread is
    current,    \* its current_id
    prev,       \* TileEncoder::previous
    chan,       \* media_tx -> media_rx, capacity 1
    mediaUp,    \* the media task runs, and holds media_rx
    hand,       \* the message it is sending, if any
    wire,       \* the frames on their streams, in the order of the streams
    viewerUp,   \* the viewer's media task runs
    canvas,     \* TileDecoder::canvas, which is also the viewer's FrameSlot
    shown       \* history: the monitor of the frame decoded last

controlVars == <<phase, conn, activeId, stop>>
captureVars == <<capPc, current, prev>>
mediaVars == <<chan, mediaUp, hand>>
viewerVars == <<viewerUp, canvas, shown>>
vars == <<screen, controlVars, captureVars, mediaVars, wire, viewerVars>>

-----------------------------------------------------------------------------
Message == [mon : Monitors, full : BOOLEAN, tiles : SUBSET Tiles, shot : Pictures]

(* TileEncoder::encode: the first frame, a frame of another size and every *)
(* raw frame are sent in full, the others as the tiles that changed.       *)
SendFull(p) == prev = None \/ prev.size # p.size \/ Codec = "RawRgba"

Encode(m, p) ==
    [mon |-> m,
     full |-> SendFull(p),
     tiles |-> IF SendFull(p) THEN Tiles
                              ELSE {t \in Tiles : prev.px[t] # p.px[t]},
     shot |-> p]

(* TileDecoder::decode fails on a delta without a canvas of its size. *)
Decodable(msg) ==
    msg.full \/ (canvas # None /\ canvas.size = msg.shot.size)

(* A full frame replaces the canvas, a delta patches its tiles in place. *)
Decode(msg) ==
    [size |-> msg.shot.size,
     px |-> [t \in Tiles |-> IF t \in msg.tiles
                             THEN Reproduced(msg.shot.px[t])
                             ELSE canvas.px[t]]]

-----------------------------------------------------------------------------
TypeOK ==
    /\ screen \in [Monitors -> Pictures]
    /\ phase \in {"idle", "streaming", "join", "await"}
    /\ conn \in BOOLEAN
    /\ activeId \in Monitors
    /\ stop \in BOOLEAN
    /\ capPc \in {"start", "tick", "shoot", "done"}
    /\ current \in Monitors
    /\ prev \in Pictures \cup {None}
    /\ chan \in Seq(Message) /\ Len(chan) =< 1
    /\ mediaUp \in BOOLEAN
    /\ hand \in Seq(Message) /\ Len(hand) =< 1
    /\ wire \in Seq(Message)
    /\ viewerUp \in BOOLEAN
    /\ canvas \in {Decoded(p) : p \in Pictures} \cup {None}
    /\ shown \in Monitors

Init ==
    /\ screen \in [Monitors -> Pictures]
    /\ \A m \in Monitors : screen[m] \in Shows[m]
    /\ phase = "idle"
    /\ conn = FALSE
    /\ activeId = Primary
    /\ stop = FALSE
    /\ capPc = "done"
    /\ current = Primary
    /\ prev = None
    /\ chan = <<>>
    /\ mediaUp = FALSE
    /\ hand = <<>>
    /\ wire = <<>>
    /\ viewerUp = FALSE
    /\ canvas = None
    /\ shown = Primary

-----------------------------------------------------------------------------
(* The control task of a session: stream_and_control and control_loop. *)

(* Encoder, capturer and channels are new, and so is the viewer's decoder. *)
BeginSession ==
    /\ phase = "idle"
    /\ phase' = "streaming"
    /\ conn' = TRUE
    /\ activeId' = Primary
    /\ stop' = FALSE
    /\ capPc' = "start"
    /\ prev' = None
    /\ chan' = <<>>
    /\ mediaUp' = TRUE
    /\ hand' = <<>>
    /\ wire' = <<>>
    /\ viewerUp' = TRUE
    /\ canvas' = None
    /\ UNCHANGED <<screen, current, shown>>

(* SelectMonitor for one of the listed monitors; any other id is ignored.  *)
(* The Resize answer changes nothing on the picture's way.                 *)
RecvSelect(id) ==
    /\ phase = "streaming"
    /\ activeId' = id
    /\ UNCHANGED <<screen, phase, conn, stop, captureVars, mediaVars, wire,
                   viewerVars>>

(* Mutant: the capture thread is joined before it is told to stop.        *)
EndLoopJoinsFirst ==
    /\ phase' = "join"
    /\ UNCHANGED <<screen, conn, activeId, stop, captureVars, mediaVars, wire,
                   viewerVars>>

(* control_loop returns: stop is stored and the connection closed; only    *)
(* then is the capture thread joined.                                      *)
EndLoop ==
    /\ phase' = "join"
    /\ conn' = FALSE
    /\ stop' = TRUE
    /\ UNCHANGED <<screen, activeId, captureVars, mediaVars, wire, viewerVars>>

(* HostCommand::Stop or every command sender dropped; or the viewer's      *)
(* Disconnect.                                                             *)
Ends == phase = "streaming" /\ EndLoop

(* control.recv() fails. *)
RecvError == phase = "streaming" /\ ~conn /\ EndLoop

(* Mutant: the capture thread is not joined. *)
JoinNothing ==
    /\ phase = "join"
    /\ phase' = "await"
    /\ UNCHANGED <<screen, conn, activeId, stop, captureVars, mediaVars,
                   wire, viewerVars>>

JoinCapture ==
    /\ phase = "join"
    /\ capPc = "done"
    /\ phase' = "await"
    /\ UNCHANGED <<screen, conn, activeId, stop, captureVars, mediaVars,
                   wire, viewerVars>>

AwaitMedia ==
    /\ phase = "await"
    /\ ~mediaUp
    /\ phase' = "idle"
    /\ activeId' = Primary
    /\ UNCHANGED <<screen, conn, stop, captureVars, mediaVars, wire, viewerVars>>

-----------------------------------------------------------------------------
(* The capture thread: spawn_capture. *)

CapStart ==
    /\ capPc = "start"
    /\ capPc' = "tick"
    /\ current' = activeId
    /\ UNCHANGED <<screen, controlVars, prev, mediaVars, wire, viewerVars>>

(* Mutant: no keyframe is forced. *)
WatchNoKeyframe ==
    /\ capPc = "tick" /\ ~stop /\ mediaUp
    /\ current' = activeId
    /\ prev' = prev
    /\ UNCHANGED <<screen, controlVars, mediaVars, wire, viewerVars>>

(* Mutant: current_id is not updated. *)
WatchOldMonitor ==
    /\ capPc = "tick" /\ ~stop /\ mediaUp
    /\ prev' = IF activeId # current THEN None ELSE prev
    /\ UNCHANGED <<screen, controlVars, current, mediaVars, wire, viewerVars>>

(* The head of the loop, with `stop` not set: a monitor change forces a    *)
(* keyframe, then try_reserve.                                             *)
Watch ==
    /\ capPc = "tick" /\ ~stop /\ mediaUp
    /\ current' = activeId
    /\ prev' = IF activeId # current THEN None ELSE prev
    /\ UNCHANGED <<screen, controlVars, mediaVars, wire, viewerVars>>

(* The thread ends: its encoder, its current_id (here: back to Primary)    *)
(* and its media_tx are dropped.                                           *)
EndCapture ==
    /\ capPc' = "done"
    /\ current' = Primary
    /\ prev' = None
    /\ UNCHANGED <<screen, controlVars, mediaVars, wire, viewerVars>>

(* Mutant: the channel's capacity is not looked at. *)
ReserveAlways ==
    /\ capPc' = "shoot"
    /\ Watch

(* The permit is taken before anything is captured. *)
Reserve ==
    /\ chan = <<>>
    /\ capPc' = "shoot"
    /\ Watch

(* Mutant: the frame is encoded first, and dropped when the channel is     *)
(* full.                                                                   *)
EncodeAndDrop ==
    /\ capPc = "tick" /\ ~stop /\ mediaUp /\ chan # <<>>
    /\ current' = activeId
    /\ prev' = screen[activeId]
    /\ UNCHANGED <<screen, controlVars, capPc, mediaVars, wire, viewerVars>>

(* TrySendError::Full: skip this tick. *)
SkipTick ==
    /\ chan # <<>>
    /\ UNCHANGED capPc
    /\ Watch

(* TrySendError::Closed. *)
FindClosed == capPc = "tick" /\ ~stop /\ ~mediaUp /\ EndCapture

SeeStop == capPc = "tick" /\ stop /\ EndCapture

(* Capture, encode, permit.send; the message is lost if media_rx is gone. *)
CaptureFrame ==
    /\ capPc = "shoot"
    /\ capPc' = "tick"
    /\ prev' = screen[current]
    /\ chan' = IF mediaUp THEN Append(chan, Encode(current, screen[current]))
                          ELSE chan
    /\ UNCHANGED <<screen, controlVars, current, mediaUp, hand, wire,
                   viewerVars>>

(* capturer.capture or encoder.encode fails. *)
CaptureFails == capPc = "shoot" /\ EndCapture

-----------------------------------------------------------------------------
(* The media task of stream_and_control, and Connection::send_media. *)

MediaRecv ==
    /\ mediaUp /\ hand = <<>> /\ chan # <<>>
    /\ hand' = chan
    /\ chan' = <<>>
    /\ UNCHANGED <<screen, controlVars, captureVars, mediaUp, wire, viewerVars>>

MediaSend ==
    /\ mediaUp /\ hand # <<>>
    /\ conn /\ Len(wire) < MaxWire
    /\ wire' = Append(wire, Head(hand))
    /\ hand' = <<>>
    /\ UNCHANGED <<screen, controlVars, captureVars, chan, mediaUp, viewerVars>>

(* The task ends and drops media_rx with what it holds. *)
DropMedia ==
    /\ mediaUp' = FALSE
    /\ hand' = <<>>
    /\ chan' = <<>>
    /\ UNCHANGED <<screen, controlVars, captureVars, wire, viewerVars>>

(* The connection is closed, and send_media fails. *)
MediaSendClosed == mediaUp /\ hand # <<>> /\ ~conn /\ DropMedia

(* send_media fails on an open connection: a frame longer than             *)
(* MAX_MESSAGE_LEN, or a stream the viewer refused.                        *)
MediaSendFails == mediaUp /\ hand # <<>> /\ conn /\ DropMedia

(* recv() is None: the capture thread is gone and the channel empty. *)
MediaEnds ==
    mediaUp /\ hand = <<>> /\ chan = <<>> /\ capPc = "done" /\ DropMedia

-----------------------------------------------------------------------------
(* The viewer, the network and the host's monitors. *)

(* spawn_media_task: recv_media, decode, store into the slot.  A message   *)
(* that cannot be decoded is reported and leaves the picture as it was.    *)
ViewerShow ==
    /\ viewerUp /\ wire # <<>>
    /\ wire' = Tail(wire)
    /\ IF Decodable(Head(wire))
       THEN canvas' = Decode(Head(wire)) /\ shown' = Head(wire).mon
       ELSE UNCHANGED <<canvas, shown>>
    /\ UNCHANGED <<screen, controlVars, captureVars, mediaVars, viewerUp>>

(* recv_media fails after the connection is gone. *)
ViewerEnds ==
    /\ viewerUp /\ ~conn
    /\ viewerUp' = FALSE
    /\ wire' = <<>>
    /\ UNCHANGED <<screen, controlVars, captureVars, mediaVars, canvas, shown>>

(* The viewer goes away or the network does: what had not arrived is lost. *)
LoseConnection ==
    /\ phase = "streaming" /\ conn
    /\ conn' = FALSE
    /\ \E n \in 0 .. Len(wire) : wire' = SubSeq(wire, 1, n)
    /\ UNCHANGED <<screen, phase, activeId, stop, captureVars, mediaVars,
                   viewerVars>>

(* Something is drawn, or the resolution of a monitor changes. *)
ChangeScreen(m) ==
    /\ \E p \in Shows[m] : screen' = [screen EXCEPT ![m] = p]
    /\ UNCHANGED <<controlVars, captureVars, mediaVars, wire, viewerVars>>

-----------------------------------------------------------------------------
ControlStep == RecvError \/ JoinCapture \/ AwaitMedia
CaptureStep == CapStart \/ Reserve \/ SkipTick \/ FindClosed \/ SeeStop \/ CaptureFrame
MediaStep == MediaRecv \/ MediaSend \/ MediaSendClosed \/ MediaEnds
Failure == CaptureFails \/ MediaSendFails \/ LoseConnection

Next ==
    \/ BeginSession
    \/ \E id \in Monitors : RecvSelect(id)
    \/ Ends
    \/ ControlStep
    \/ CaptureStep
    \/ MediaStep
    \/ Failure
    \/ ViewerShow
    \/ ViewerEnds
    \/ \E m \in Monitors : ChangeScreen(m)

Spec == Init /\ [][Next]_vars

(* The threads and tasks are scheduled; users, screens and failures owe    *)
(* nothing.                                                                *)
FairSpec ==
    /\ Spec
    /\ WF_vars(ControlStep)
    /\ WF_vars(CaptureStep)
    /\ WF_vars(MediaStep)
    /\ WF_vars(ViewerShow)
-----------------------------------------------------------------------------
(* The messages between the encoder and the viewer's decoder.  Once the    *)
(* connection is closed only those on the wire can still arrive.           *)
Pipeline == IF conn THEN wire \o hand \o chan ELSE wire

Mirror == INSTANCE ScreenMirror WITH
    Image <- [p \in Pictures |-> Decoded(p)],
    pending <- [i \in 1 .. Len(Pipeline) |->
                   [mon |-> Pipeline[i].mon, image |-> Decoded(Pipeline[i].shot)]],
    picture <- IF canvas = None THEN None ELSE [mon |-> shown, image |-> canvas]

(* The viewer's picture is at every moment one whole screenshot of one     *)
(* monitor, in the order they were taken, without a gap: patching tiles    *)
(* over the encoder, a channel that may be full, the media task and a      *)
(* stream per frame never mixes two screenshots, two monitors, two         *)
(* resolutions or two sessions.  "Cannot be dropped after encoding without *)
(* breaking the reference chain" (session.rs) is why try_reserve comes     *)
(* first.                                                                  *)
ViewerMirrorsScreens == Mirror!Spec

(* "The next frame must stand alone": the first frame of another monitor,  *)
(* and the first frame of a session, are sent in full, whatever the        *)
(* control loop stores into active_id while the capture thread runs.       *)
SwitchStandsAlone ==
    \A i \in 1 .. Len(Pipeline) :
        \/ Pipeline[i].full
        \/ i = 1 /\ canvas # None /\ Pipeline[1].mon = shown
        \/ i > 1 /\ Pipeline[i].mon = Pipeline[i - 1].mon

(* Between sessions nothing of the last one is left that captures, encodes *)
(* or sends: its successor never shares the screen with it.                *)
IdleMeansQuiet ==
    phase = "idle" => capPc = "done" /\ ~mediaUp /\ chan = <<>> /\ hand = <<>>

(* A monitor the viewer selected is displayed in the end, unless it        *)
(* selects another one, the connection goes or a task of the pipeline      *)
(* failed.                                                                 *)
SwitchTakesEffect ==
    \A m \in Monitors :
        phase = "streaming" /\ activeId = m ~>
            \/ canvas # None /\ shown = m
            \/ activeId # m
            \/ ~conn \/ ~mediaUp \/ capPc = "done"

(* The teardown waits for a thread that only looks at `stop` between two   *)
(* frames, and then for a task that may be in the middle of a send: it     *)
(* gets through both, and the host goes back to accepting viewers.         *)
TeardownCompletes == phase = "join" ~> phase = "idle"
=============================================================================

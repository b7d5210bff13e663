-------------------------- MODULE MediaStreamProofs --------------------------
(***************************************************************************)
(* Proofs about MediaStream, for any monitors, pictures and tiles, either  *)
(* tile codec, any loss of the JPEG compression and any number of frames   *)
(* in flight: the reference chain between encoder and decoder never        *)
(* breaks.                                                                 *)
(***************************************************************************)
EXTENDS MediaStream, SequenceTheorems, TLAPS

(* A message that a decoder with picture c turns into its whole screenshot. *)
Follows(c, msg) ==
    \/ msg.full /\ msg.tiles = Tiles
    \/ /\ c # None /\ c.size = msg.shot.size
       /\ \A t \in Tiles : t \in msg.tiles \/ c.px[t] = Reproduced(msg.shot.px[t])

(* A chain of messages, decoded from picture c of monitor m on.            *)
Linked(c, q) ==
    \A i \in 1 .. Len(q) :
        Follows(IF i = 1 THEN c ELSE Decoded(q[i - 1].shot), q[i])

StandsAlone(c, m, q) ==
    \A i \in 1 .. Len(q) :
        \/ q[i].full
        \/ i = 1 /\ c # None /\ q[1].mon = m
        \/ i > 1 /\ q[i].mon = q[i - 1].mon

Chain(c, m, q) == Linked(c, q) /\ StandsAlone(c, m, q)

(* r is a beginning of q.                                                  *)
CutOf(r, q) ==
    r \in Seq(Message) /\ Len(r) =< Len(q) /\ \A i \in 1 .. Len(r) : r[i] = q[i]

(* The chain ends with picture p of monitor n.                             *)
EndsWith(c, m, q, p, n) ==
    IF q = <<>> THEN c = Decoded(p) /\ m = n
                ELSE q[Len(q)].shot = p /\ q[Len(q)].mon = n

(* The encoder remembers what the decoder will have.                       *)
InStep ==
    conn /\ mediaUp /\ prev # None => EndsWith(canvas, shown, Pipeline, prev, current)

(* What the teardown has waited for.                                       *)
Quiet ==
    /\ conn => phase = "streaming"
    /\ phase \in {"await", "idle"} => capPc = "done"
    /\ phase = "idle" => ~mediaUp
    /\ ~mediaUp => chan = <<>> /\ hand = <<>>

(* A permit is a free place in the channel.                                *)
PermitHeld == capPc = "shoot" => chan = <<>>

(* A thread that has not encoded anything yet sends a full frame first.    *)
Fresh == capPc \in {"start", "done"} => prev = None

MediaInv ==
    /\ TypeOK
    /\ Quiet
    /\ PermitHeld
    /\ Fresh
    /\ Chain(canvas, shown, Pipeline)
    /\ InStep

-----------------------------------------------------------------------------
(* Facts about chains.                                                     *)

LEMMA DecodedIsPicture ==
    ASSUME NEW p \in Pictures
    PROVE  /\ Decoded(p) # None /\ p # None
           /\ Decoded(p).size = p.size
           /\ \A t \in Tiles : Decoded(p).px[t] = Reproduced(p.px[t])
BY MediaAssumption DEF Decoded

(* TileDecoder::decode turns such a message into its whole screenshot.     *)
LEMMA DecodeExact ==
    ASSUME NEW msg \in Message, Follows(canvas, msg)
    PROVE  Decodable(msg) /\ Decode(msg) = Decoded(msg.shot)
<1>1. Decodable(msg)
  BY DEF Follows, Decodable
<1>2. \A t \in Tiles : (IF t \in msg.tiles THEN Reproduced(msg.shot.px[t])
                                          ELSE canvas.px[t]) = Reproduced(msg.shot.px[t])
  BY DEF Follows
<1>. QED
  BY <1>1, <1>2 DEF Decode, Decoded

(* TileEncoder::encode makes one from the screenshot it remembers.         *)
LEMMA EncodeType ==
    ASSUME NEW m \in Monitors, NEW p \in Pictures
    PROVE  /\ Encode(m, p) \in Message
           /\ Encode(m, p).shot = p /\ Encode(m, p).mon = m
<1>1. SendFull(p) \in BOOLEAN
  BY DEF SendFull
<1>2. (IF SendFull(p) THEN Tiles ELSE {t \in Tiles : prev.px[t] # p.px[t]})
         \in SUBSET Tiles
  OBVIOUS
<1>. QED
  BY <1>1, <1>2 DEF Encode, Message

LEMMA EncodeFollows ==
    ASSUME NEW m \in Monitors, NEW p \in Pictures, prev \in Pictures \cup {None},
           NEW c, prev # None => c = Decoded(prev)
    PROVE  Follows(c, Encode(m, p))
<1>1. CASE SendFull(p)
  BY <1>1 DEF Encode, Follows
<1>2. CASE ~SendFull(p)
  <2>1. prev \in Pictures /\ prev.size = p.size /\ c = Decoded(prev)
    BY <1>2 DEF SendFull
  <2>2. c # None /\ c.size = p.size
        /\ \A t \in Tiles : c.px[t] = Reproduced(prev.px[t])
    BY <2>1, DecodedIsPicture
  <2>3. /\ Encode(m, p).tiles = {t \in Tiles : prev.px[t] # p.px[t]}
        /\ Encode(m, p).shot = p
    BY <1>2 DEF Encode
  <2>. QED
    BY <2>2, <2>3 DEF Follows
<1>. QED
  BY <1>1, <1>2

LEMMA EncodeStandsAlone ==
    ASSUME NEW m \in Monitors, NEW p \in Pictures, prev = None
    PROVE  Encode(m, p).full
BY DEF Encode, SendFull

(* A chain grows by a message that follows its last picture.               *)
LEMMA ChainGrows ==
    ASSUME NEW c, NEW m, NEW q \in Seq(Message), NEW msg \in Message,
           Chain(c, m, q),
           q = <<>> => /\ Follows(c, msg)
                       /\ msg.full \/ (c # None /\ msg.mon = m),
           q # <<>> => /\ Follows(Decoded(q[Len(q)].shot), msg)
                       /\ msg.full \/ msg.mon = q[Len(q)].mon
    PROVE  Chain(c, m, Append(q, msg))
<1>. DEFINE r == Append(q, msg)
<1>1. /\ Len(q) \in Nat /\ Len(r) = Len(q) + 1 /\ r[Len(q) + 1] = msg
      /\ \A i \in 1 .. Len(q) : r[i] = q[i]
      /\ q = <<>> <=> Len(q) = 0
  OBVIOUS
<1>. SUFFICES ASSUME NEW i \in 1 .. Len(r)
              PROVE  /\ Follows(IF i = 1 THEN c ELSE Decoded(r[i - 1].shot), r[i])
                     /\ \/ r[i].full
                        \/ i = 1 /\ c # None /\ r[1].mon = m
                        \/ i > 1 /\ r[i].mon = r[i - 1].mon
  BY DEF Chain, Linked, StandsAlone
<1>. HIDE DEF r
<1>2. CASE i \in 1 .. Len(q)
  <2>1. r[i] = q[i] /\ (i > 1 => r[i - 1] = q[i - 1])
    BY <1>1, <1>2
  <2>. QED
    BY <2>1, <1>2 DEF Chain, Linked, StandsAlone
<1>3. CASE i = Len(q) + 1 /\ q = <<>>
  BY <1>1, <1>3
<1>4. CASE i = Len(q) + 1 /\ q # <<>>
  <2>1. i > 1 /\ i - 1 = Len(q) /\ r[i] = msg /\ r[i - 1] = q[Len(q)]
    BY <1>1, <1>4
  <2>. QED
    BY <2>1, <1>4
<1>. QED
  BY <1>1, <1>2, <1>3, <1>4

(* Decoding its first message leaves a chain.                              *)
LEMMA ChainAdvances ==
    ASSUME NEW c, NEW m, NEW q \in Seq(Message), q # <<>>, Chain(c, m, q)
    PROVE  /\ Follows(c, Head(q))
           /\ Chain(Decoded(Head(q).shot), Head(q).mon, Tail(q))
<1>1. /\ Len(q) \in Nat /\ Len(q) > 0 /\ Head(q) = q[1]
      /\ Len(Tail(q)) = Len(q) - 1
      /\ \A i \in 1 .. Len(Tail(q)) : Tail(q)[i] = q[i + 1]
      /\ q[1] \in Message
  BY HeadTailProperties
<1>2. Follows(c, Head(q))
  BY <1>1 DEF Chain, Linked
<1>3. Decoded(q[1].shot) # None
  BY <1>1, DecodedIsPicture DEF Message
<1>4. ASSUME NEW i \in 1 .. Len(Tail(q))
      PROVE  /\ Follows(IF i = 1 THEN Decoded(q[1].shot)
                                 ELSE Decoded(Tail(q)[i - 1].shot), Tail(q)[i])
             /\ \/ Tail(q)[i].full
                \/ i = 1 /\ Tail(q)[1].mon = q[1].mon
                \/ i > 1 /\ Tail(q)[i].mon = Tail(q)[i - 1].mon
  <2>1. /\ Tail(q)[i] = q[i + 1] /\ i + 1 \in 1 .. Len(q) /\ i + 1 > 1
        /\ (i + 1) - 1 = i
    BY <1>1
  <2>2. i > 1 => Tail(q)[i - 1] = q[i]
    BY <1>1
  <2>3. /\ Follows(Decoded(q[i].shot), q[i + 1])
        /\ q[i + 1].full \/ q[i + 1].mon = q[i].mon
    BY <2>1 DEF Chain, Linked, StandsAlone
  <2>4. CASE i = 1
    BY <2>1, <2>3, <2>4
  <2>5. CASE i > 1
    BY <2>1, <2>2, <2>3, <2>5
  <2>. QED
    BY <1>1, <2>4, <2>5
<1>. QED
  BY <1>1, <1>2, <1>3, <1>4 DEF Chain, Linked, StandsAlone

(* Losing its end leaves a chain.                                          *)
LEMMA ChainCut ==
    ASSUME NEW c, NEW m, NEW q \in Seq(Message), NEW r, CutOf(r, q),
           Chain(c, m, q)
    PROVE  Chain(c, m, r)
<1>1. /\ Len(q) \in Nat /\ Len(r) \in Nat
      /\ Len(r) =< Len(q) /\ \A i \in 1 .. Len(r) : r[i] = q[i]
  BY DEF CutOf
<1>2. ASSUME NEW i \in 1 .. Len(r)
      PROVE  i \in 1 .. Len(q) /\ r[i] = q[i] /\ (i > 1 => r[i - 1] = q[i - 1])
  BY <1>1
<1>3. Linked(c, r)
  BY <1>1, <1>2 DEF Chain, Linked
<1>4. StandsAlone(c, m, r)
  BY <1>1, <1>2 DEF Chain, StandsAlone
<1>. QED
  BY <1>3, <1>4 DEF Chain

LEMMA EmptyChain == \A c, m : Chain(c, m, <<>>)
BY DEF Chain, Linked, StandsAlone

-----------------------------------------------------------------------------
(* What the steps do to the pipeline.                                      *)

LEMMA PipelineType ==
    ASSUME TypeOK
    PROVE  Pipeline \in Seq(Message)
BY DEF TypeOK, Pipeline

(* A channel of capacity one, when it is not empty.                        *)
LEMMA OneMessage ==
    ASSUME NEW S, NEW q \in Seq(S), q # <<>>, Len(q) =< 1
    PROVE  \E e \in S : q = <<e>> /\ Head(q) = e
<1>1. Len(q) \in Nat /\ Len(q) # 0
  OBVIOUS
<1>2. Len(q) = 1
  BY <1>1
<1>3. q[1] \in S /\ Head(q) = q[1]
  BY <1>2
<1>4. q = <<q[1]>>
  <2>1. <<q[1]>> \in Seq(S) /\ Len(<<q[1]>>) = 1 /\ <<q[1]>>[1] = q[1]
    BY <1>3
  <2>. QED
    BY <1>2, <2>1, SeqEqual
<1>. QED
  BY <1>3, <1>4

(* The last element stays when the first one goes.                         *)
LEMMA TailEnd ==
    ASSUME NEW S, NEW q \in Seq(S), q # <<>>
    PROVE  /\ Len(q) \in Nat \ {0} /\ Head(q) = q[1]
           /\ Len(q) = 1 => Tail(q) = <<>>
           /\ Len(q) # 1 => /\ Tail(q) # <<>>
                            /\ Tail(q)[Len(Tail(q))] = q[Len(q)]
<1>1. Len(q) \in Nat \ {0} /\ Head(q) = q[1]
  BY EmptySeq
<1>2. PICK t \in Seq(S) : /\ t = Tail(q) /\ Len(t) = Len(q) - 1
                          /\ \A i \in 1 .. Len(t) : t[i] = q[i + 1]
  BY HeadTailProperties
<1>3. CASE Len(q) = 1
  BY <1>2, <1>3, EmptySeq
<1>4. CASE Len(q) # 1
  <2>1. Len(t) \in 1 .. Len(t) /\ Len(t) + 1 = Len(q)
    BY <1>1, <1>2, <1>4
  <2>2. t # <<>>
    BY <2>1, EmptySeq
  <2>3. t[Len(t)] = q[Len(q)]
    BY <1>2, <2>1
  <2>. QED
    BY <1>2, <1>4, <2>2, <2>3
<1>. QED
  BY <1>1, <1>3, <1>4

LEMMA PipelineUnmoved ==
    ASSUME conn' = conn, wire' = wire, hand' = hand, chan' = chan
    PROVE  Pipeline' = Pipeline
BY DEF Pipeline

(* A captured frame is the newest message, if somebody will still send it. *)
LEMMA PipelineCapture ==
    ASSUME TypeOK, PermitHeld, CaptureFrame
    PROVE  Pipeline' = IF conn /\ mediaUp
                       THEN Append(Pipeline, Encode(current, screen[current]))
                       ELSE Pipeline
<1>. DEFINE msg == Encode(current, screen[current])
<1>1. current \in Monitors /\ screen[current] \in Pictures
  BY DEF TypeOK
<1>2. msg \in Message
  BY <1>1, EncodeType
<1>. HIDE DEF msg
<1>3. CASE conn /\ mediaUp
  <2>1. chan = <<>> /\ chan' = <<msg>> /\ wire' = wire /\ hand' = hand /\ conn' = conn
    BY <1>3 DEF CaptureFrame, PermitHeld, controlVars, msg
  <2>2. wire \o hand \in Seq(Message)
    BY DEF TypeOK
  <2>3. (wire \o hand) \o <<msg>> = Append((wire \o hand) \o <<>>, msg)
    BY <1>2, <2>2
  <2>. QED
    BY <1>3, <2>1, <2>3 DEF Pipeline, msg
<1>4. CASE ~(conn /\ mediaUp)
  BY <1>4 DEF CaptureFrame, controlVars, Pipeline
<1>. QED
  BY <1>3, <1>4 DEF msg

(* The media task passes messages on.                                      *)
LEMMA PipelinePasses ==
    ASSUME TypeOK, MediaRecv \/ MediaSend
    PROVE  Pipeline' = Pipeline
<1>1. /\ wire \in Seq(Message) /\ hand \in Seq(Message) /\ chan \in Seq(Message)
      /\ Len(hand) =< 1
  BY DEF TypeOK
<1>2. CASE MediaRecv
  <2>1. (wire \o <<>>) \o chan = (wire \o chan) \o <<>>
    BY <1>1, ConcatProperties, ConcatEmptySeq
  <2>2. /\ hand = <<>> /\ hand' = chan /\ chan' = <<>>
        /\ wire' = wire /\ conn' = conn
    BY <1>2 DEF MediaRecv, controlVars
  <2>. QED
    BY <2>1, <2>2 DEF Pipeline
<1>3. CASE MediaSend
  <2>0. hand # <<>> /\ conn
    BY <1>3 DEF MediaSend
  <2>2. PICK h \in Message : hand = <<h>> /\ Head(hand) = h
    BY <1>1, <2>0, OneMessage
  <2>3. /\ wire' = Append(wire, h) /\ hand' = <<>>
        /\ chan' = chan /\ conn' = conn
    BY <1>3, <2>2 DEF MediaSend, controlVars
  <2>4. Append(wire, h) \o <<>> = wire \o <<h>>
    BY <1>1, AppendIsConcat, AppendProperties, ConcatEmptySeq
  <2>5. (wire' \o hand') \o chan' = (wire \o hand) \o chan
    BY <2>2, <2>3, <2>4
  <2>. QED
    BY <2>0, <2>3, <2>5 DEF Pipeline
<1>. QED
  BY <1>2, <1>3

(* Ending the media task, the connection or the loop cuts it.              *)
LEMMA PipelineCut ==
    ASSUME TypeOK, DropMedia \/ EndLoop \/ LoseConnection \/ ViewerEnds
    PROVE  CutOf(Pipeline', Pipeline)
<1>1. /\ wire \in Seq(Message) /\ hand \in Seq(Message) /\ chan \in Seq(Message)
      /\ conn \in BOOLEAN
  BY DEF TypeOK
<1>2. CutOf(wire, wire) /\ CutOf(wire, (wire \o hand) \o chan)
  BY <1>1 DEF CutOf
<1>3. CutOf((wire \o <<>>) \o <<>>, (wire \o hand) \o chan)
  BY <1>1 DEF CutOf
<1>4. CutOf(wire, Pipeline)
  BY <1>2 DEF Pipeline
<1>5. CASE DropMedia
  BY <1>5, <1>2, <1>3 DEF DropMedia, controlVars, Pipeline
<1>6. CASE EndLoop
  BY <1>6, <1>4 DEF EndLoop, Pipeline
<1>7. CASE LoseConnection
  <2>1. PICK n \in 0 .. Len(wire) : wire' = SubSeq(wire, 1, n)
    BY <1>7 DEF LoseConnection
  <2>2. CutOf(wire', wire)
    BY <1>1, <2>1 DEF CutOf
  <2>. QED
    BY <1>1, <1>4, <1>7, <2>2 DEF LoseConnection, Pipeline, CutOf
<1>8. CASE ViewerEnds
  <2>1. Pipeline' = <<>>
    BY <1>8 DEF ViewerEnds, controlVars, Pipeline
  <2>. QED
    BY <2>1, PipelineType DEF CutOf
<1>. QED
  BY <1>5, <1>6, <1>7, <1>8

LEMMA HeadTailConcat ==
    ASSUME NEW S, NEW s \in Seq(S), NEW t \in Seq(S), s # <<>>
    PROVE  s \o t # <<>> /\ Head(s \o t) = Head(s) /\ Tail(s \o t) = Tail(s) \o t
<1>1. /\ s \o t \in Seq(S) /\ Len(s \o t) = Len(s) + Len(t)
      /\ Len(s) \in Nat \ {0} /\ Len(t) \in Nat
      /\ \A i \in 1 .. Len(s) + Len(t) :
             (s \o t)[i] = IF i <= Len(s) THEN s[i] ELSE t[i - Len(s)]
  BY ConcatProperties, EmptySeq
<1>2. s \o t # <<>> /\ Head(s \o t) = Head(s)
  BY <1>1, EmptySeq
<1>3. /\ Tail(s) \in Seq(S) /\ Len(Tail(s)) = Len(s) - 1
      /\ \A i \in 1 .. Len(Tail(s)) : Tail(s)[i] = s[i + 1]
  BY HeadTailProperties
<1>4. /\ Tail(s \o t) \in Seq(S) /\ Len(Tail(s \o t)) = Len(s) + Len(t) - 1
      /\ \A i \in 1 .. Len(s) + Len(t) - 1 : Tail(s \o t)[i] = (s \o t)[i + 1]
  BY <1>1, <1>2, HeadTailProperties
<1>. DEFINE u == Tail(s) \o t
            v == Tail(s \o t)
<1>5. /\ u \in Seq(S) /\ Len(u) = Len(s) + Len(t) - 1
      /\ \A i \in 1 .. Len(s) + Len(t) - 1 :
             u[i] = IF i <= Len(s) - 1 THEN Tail(s)[i] ELSE t[i - (Len(s) - 1)]
  BY <1>1, <1>3, ConcatProperties
<1>6. ASSUME NEW i \in 1 .. Len(s) + Len(t) - 1
      PROVE  v[i] = u[i]
  <2>1. i + 1 \in 1 .. Len(s) + Len(t) /\ (i + 1) - Len(s) = i - (Len(s) - 1)
    BY <1>1
  <2>2. CASE i <= Len(s) - 1
    BY <1>1, <1>3, <1>4, <1>5, <2>1, <2>2
  <2>3. CASE ~(i <= Len(s) - 1)
    BY <1>1, <1>4, <1>5, <2>1, <2>3
  <2>. QED
    BY <2>2, <2>3
<1>. HIDE DEF u, v
<1>7. v = u
  BY <1>4, <1>5, <1>6, SeqEqual DEF v
<1>. QED
  BY <1>2, <1>7 DEF u, v

(* The viewer takes the oldest message.                                    *)
LEMMA PipelineShow ==
    ASSUME TypeOK, ViewerShow
    PROVE  /\ Pipeline # <<>> /\ Head(wire) = Head(Pipeline)
           /\ Head(wire) \in Message
           /\ Pipeline' = Tail(Pipeline)
<1>1. /\ wire \in Seq(Message) /\ hand \in Seq(Message) /\ chan \in Seq(Message)
      /\ wire # <<>>
  BY DEF TypeOK, ViewerShow
<1>. DEFINE rest == hand \o chan
<1>2. rest \in Seq(Message) /\ (wire \o hand) \o chan = wire \o rest
  BY <1>1, ConcatProperties, ConcatAssociative
<1>3. Tail(wire) \in Seq(Message) /\ Head(wire) \in Message
  BY <1>1, HeadTailProperties
<1>4. (Tail(wire) \o hand) \o chan = Tail(wire) \o rest
  BY <1>1, <1>3, ConcatAssociative
<1>. HIDE DEF rest
<1>5. /\ wire \o rest # <<>> /\ Head(wire \o rest) = Head(wire)
      /\ Tail(wire \o rest) = Tail(wire) \o rest
  BY <1>1, <1>2, HeadTailConcat
<1>. QED
  BY <1>1, <1>2, <1>3, <1>4, <1>5 DEF ViewerShow, controlVars, mediaVars, Pipeline

-----------------------------------------------------------------------------
(* The invariant.                                                          *)

LEMMA NoMessages == <<>> \in Seq(Message) /\ Len(<<>>) =< 1
OBVIOUS

LEMMA InitInvariant == Init => MediaInv
<1>. SUFFICES ASSUME Init PROVE MediaInv
  OBVIOUS
<1>1. TypeOK
  BY MediaAssumption, NoMessages DEF Init, TypeOK
<1>2. Pipeline = <<>>
  BY DEF Init, Pipeline
<1>. QED
  BY <1>1, <1>2, EmptyChain
     DEF Init, MediaInv, Quiet, PermitHeld, Fresh, InStep

LEMMA StepKeepsTypes ==
    ASSUME MediaInv, [Next]_vars
    PROVE  TypeOK'
<1>. USE DEF controlVars, captureVars, mediaVars, viewerVars
<1>0. TypeOK /\ PermitHeld
  BY DEF MediaInv
<1>1. CASE BeginSession
  BY <1>0, <1>1, MediaAssumption, NoMessages DEF TypeOK, BeginSession
<1>2. CASE \E id \in Monitors : RecvSelect(id)
  BY <1>0, <1>2 DEF TypeOK, RecvSelect
<1>3. CASE Ends \/ RecvError
  BY <1>0, <1>3 DEF TypeOK, Ends, RecvError, EndLoop
<1>4. CASE JoinCapture \/ AwaitMedia
  BY <1>0, <1>4, MediaAssumption DEF TypeOK, JoinCapture, AwaitMedia
<1>5. CASE CapStart
  BY <1>0, <1>5 DEF TypeOK, CapStart
<1>6. CASE Reserve \/ SkipTick
  BY <1>0, <1>6 DEF TypeOK, Reserve, SkipTick, Watch
<1>7. CASE EndCapture
  BY <1>0, <1>7, MediaAssumption DEF TypeOK, EndCapture
<1>8. CASE CaptureFrame
  <2>1. screen[current] \in Pictures /\ current \in Monitors
    BY <1>0 DEF TypeOK
  <2>2. Encode(current, screen[current]) \in Message
    BY <2>1, EncodeType
  <2>3. chan = <<>> /\ chan \in Seq(Message)
    BY <1>0, <1>8 DEF PermitHeld, CaptureFrame, TypeOK
  <2>4. chan' \in Seq(Message) /\ Len(chan') =< 1
    BY <1>8, <2>2, <2>3 DEF CaptureFrame
  <2>. QED
    BY <1>0, <1>8, <2>1, <2>4 DEF TypeOK, CaptureFrame
<1>9. CASE MediaRecv
  BY <1>0, <1>9 DEF TypeOK, MediaRecv
<1>10. CASE MediaSend
  BY <1>0, <1>10 DEF TypeOK, MediaSend
<1>11. CASE DropMedia
  BY <1>0, <1>11, NoMessages DEF TypeOK, DropMedia
<1>12. CASE ViewerShow
  <2>1. /\ Head(wire) \in Message /\ Follows(canvas, Head(wire))
    BY <1>0, <1>12, PipelineShow, PipelineType, ChainAdvances DEF MediaInv
  <2>2. /\ canvas' = Decoded(Head(wire).shot) /\ shown' = Head(wire).mon
    BY <1>12, <2>1, DecodeExact DEF ViewerShow
  <2>3. Head(wire).shot \in Pictures /\ Head(wire).mon \in Monitors
    BY <2>1 DEF Message
  <2>4. wire' \in Seq(Message)
    BY <1>0, <1>12, HeadTailProperties DEF TypeOK, ViewerShow
  <2>. QED
    BY <1>0, <1>12, <2>2, <2>3, <2>4 DEF TypeOK, ViewerShow
<1>13. CASE ViewerEnds
  BY <1>0, <1>13, NoMessages DEF TypeOK, ViewerEnds
<1>14. CASE LoseConnection
  <2>1. PICK n \in 0 .. Len(wire) : wire' = SubSeq(wire, 1, n)
    BY <1>14 DEF LoseConnection
  <2>2. wire' \in Seq(Message)
    BY <1>0, <2>1 DEF TypeOK
  <2>. QED
    BY <1>0, <1>14, <2>2 DEF TypeOK, LoseConnection
<1>15. CASE \E m \in Monitors : ChangeScreen(m)
  <2>1. screen' \in [Monitors -> Pictures]
    BY <1>0, <1>15, MediaAssumption DEF TypeOK, ChangeScreen
  <2>. QED
    BY <1>0, <1>15, <2>1 DEF TypeOK, ChangeScreen
<1>16. CASE UNCHANGED vars
  BY <1>0, <1>16 DEF TypeOK, vars
<1>. QED
  BY <1>1, <1>2, <1>3, <1>4, <1>5, <1>6, <1>7, <1>8, <1>9, <1>10, <1>11, <1>12,
     <1>13, <1>14, <1>15, <1>16
     DEF Next, ControlStep, CaptureStep, MediaStep, Failure, FindClosed, SeeStop,
         CaptureFails, MediaSendClosed, MediaSendFails, MediaEnds

LEMMA StepKeepsQuiet ==
    ASSUME MediaInv, [Next]_vars
    PROVE  Quiet' /\ PermitHeld' /\ Fresh'
<1>. USE DEF controlVars, captureVars, mediaVars, viewerVars
<1>0. Quiet /\ PermitHeld /\ Fresh
  BY DEF MediaInv
<1>1. CASE BeginSession
  BY <1>0, <1>1 DEF Quiet, PermitHeld, Fresh, BeginSession
<1>2. CASE \E id \in Monitors : RecvSelect(id)
  BY <1>0, <1>2 DEF Quiet, PermitHeld, Fresh, RecvSelect
<1>3. CASE Ends \/ RecvError
  BY <1>0, <1>3 DEF Quiet, PermitHeld, Fresh, Ends, RecvError, EndLoop
<1>4. CASE JoinCapture \/ AwaitMedia
  BY <1>0, <1>4 DEF Quiet, PermitHeld, Fresh, JoinCapture, AwaitMedia
<1>5. CASE CapStart \/ Reserve \/ SkipTick
  BY <1>0, <1>5 DEF Quiet, PermitHeld, Fresh, CapStart, Reserve, SkipTick, Watch
<1>6. CASE EndCapture
  BY <1>0, <1>6 DEF Quiet, PermitHeld, Fresh, EndCapture
<1>7. CASE CaptureFrame
  BY <1>0, <1>7 DEF Quiet, PermitHeld, Fresh, CaptureFrame
<1>8. CASE MediaRecv \/ MediaSend \/ DropMedia
  BY <1>0, <1>8 DEF Quiet, PermitHeld, Fresh, MediaRecv, MediaSend, DropMedia
<1>9. CASE ViewerShow \/ ViewerEnds \/ LoseConnection
  BY <1>0, <1>9 DEF Quiet, PermitHeld, Fresh, ViewerShow, ViewerEnds, LoseConnection
<1>10. CASE (\E m \in Monitors : ChangeScreen(m)) \/ UNCHANGED vars
  BY <1>0, <1>10 DEF Quiet, PermitHeld, Fresh, ChangeScreen, vars
<1>. QED
  BY <1>1, <1>2, <1>3, <1>4, <1>5, <1>6, <1>7, <1>8, <1>9, <1>10
     DEF Next, ControlStep, CaptureStep, MediaStep, Failure, FindClosed, SeeStop,
         CaptureFails, MediaSendClosed, MediaSendFails, MediaEnds

(* A captured frame follows what is under way; the encoder is in step.     *)
LEMMA CaptureKeepsChain ==
    ASSUME MediaInv, CaptureFrame
    PROVE  Chain(canvas, shown, Pipeline)' /\ InStep'
<1>. DEFINE msg == Encode(current, screen[current])
<1>1. current \in Monitors /\ screen[current] \in Pictures /\ prev \in Pictures \cup {None}
  BY DEF MediaInv, TypeOK
<1>2. /\ msg \in Message /\ msg.shot = screen[current] /\ msg.mon = current
  BY <1>1, EncodeType
<1>3. \A c : (prev # None => c = Decoded(prev)) => Follows(c, msg)
  BY <1>1, EncodeFollows
<1>4. prev = None => msg.full
  BY <1>1, EncodeStandsAlone
<1>. HIDE DEF msg
<1>5. /\ canvas' = canvas /\ shown' = shown /\ conn' = conn /\ mediaUp' = mediaUp
      /\ prev' = screen[current] /\ current' = current
  BY DEF CaptureFrame, controlVars, viewerVars
<1>6. Pipeline \in Seq(Message) /\ Chain(canvas, shown, Pipeline) /\ InStep
  BY PipelineType DEF MediaInv
<1>7. CASE conn /\ mediaUp
  <2>1. Pipeline' = Append(Pipeline, msg)
    BY <1>7, PipelineCapture DEF MediaInv, msg
  <2>2. prev # None => EndsWith(canvas, shown, Pipeline, prev, current)
    BY <1>6, <1>7 DEF InStep
  <2>3. Pipeline = <<>> => Follows(canvas, msg) /\ (msg.full \/ (canvas # None /\ msg.mon = shown))
    BY <1>1, <1>2, <1>3, <1>4, <2>2, DecodedIsPicture DEF EndsWith
  <2>4. Pipeline # <<>> =>
            /\ Follows(Decoded(Pipeline[Len(Pipeline)].shot), msg)
            /\ msg.full \/ msg.mon = Pipeline[Len(Pipeline)].mon
    BY <1>2, <1>3, <1>4, <2>2 DEF EndsWith
  <2>5. Chain(canvas, shown, Append(Pipeline, msg))
    BY <1>2, <1>6, <2>3, <2>4, ChainGrows
  <2>6. /\ Append(Pipeline, msg) # <<>>
        /\ Append(Pipeline, msg)[Len(Append(Pipeline, msg))] = msg
    BY <1>2, <1>6
  <2>7. EndsWith(canvas', shown', Pipeline', prev', current')
    BY <1>2, <1>5, <2>1, <2>6 DEF EndsWith
  <2>. QED
    BY <1>5, <2>1, <2>5, <2>7 DEF InStep
<1>8. CASE ~(conn /\ mediaUp)
  <2>1. Pipeline' = Pipeline
    BY <1>8, PipelineCapture DEF MediaInv
  <2>. QED
    BY <1>5, <1>6, <1>8, <2>1 DEF InStep
<1>. QED
  BY <1>7, <1>8

(* Decoding the oldest message gives its screenshot.                       *)
LEMMA ShowKeepsChain ==
    ASSUME MediaInv, ViewerShow
    PROVE  /\ canvas' = Decoded(Head(Pipeline).shot) /\ shown' = Head(Pipeline).mon
           /\ Chain(canvas, shown, Pipeline)' /\ InStep'
<1>1. /\ Pipeline \in Seq(Message) /\ Pipeline # <<>> /\ Head(wire) = Head(Pipeline)
      /\ Pipeline' = Tail(Pipeline) /\ Head(Pipeline) \in Message
      /\ Chain(canvas, shown, Pipeline) /\ InStep
  BY PipelineShow, PipelineType DEF MediaInv
<1>2. /\ Follows(canvas, Head(Pipeline))
      /\ Chain(Decoded(Head(Pipeline).shot), Head(Pipeline).mon, Tail(Pipeline))
  BY <1>1, ChainAdvances
<1>3. canvas' = Decoded(Head(Pipeline).shot) /\ shown' = Head(Pipeline).mon
  BY <1>1, <1>2, DecodeExact DEF ViewerShow
<1>4. /\ conn' = conn /\ mediaUp' = mediaUp /\ prev' = prev /\ current' = current
  BY DEF ViewerShow, controlVars, mediaVars, captureVars
<1>5. ASSUME EndsWith(canvas, shown, Pipeline, prev, current)
      PROVE  EndsWith(canvas', shown', Pipeline', prev', current')
  <2>1. /\ Pipeline[Len(Pipeline)].shot = prev
        /\ Pipeline[Len(Pipeline)].mon = current
    BY <1>1, <1>5 DEF EndsWith
  <2>2. /\ Head(Pipeline) = Pipeline[1]
        /\ Len(Pipeline) = 1 => Tail(Pipeline) = <<>>
        /\ Len(Pipeline) # 1 =>
               /\ Tail(Pipeline) # <<>>
               /\ Tail(Pipeline)[Len(Tail(Pipeline))] = Pipeline[Len(Pipeline)]
    BY <1>1, TailEnd
  <2>3. CASE Len(Pipeline) = 1
    BY <1>1, <1>3, <1>4, <2>1, <2>2, <2>3 DEF EndsWith
  <2>4. CASE Len(Pipeline) # 1
    BY <1>1, <1>4, <2>1, <2>2, <2>4 DEF EndsWith
  <2>. QED
    BY <2>3, <2>4
<1>. QED
  BY <1>1, <1>2, <1>3, <1>4, <1>5 DEF InStep

LEMMA StepKeepsChain ==
    ASSUME MediaInv, [Next]_vars
    PROVE  Chain(canvas, shown, Pipeline)' /\ InStep'
<1>. USE DEF controlVars, captureVars, mediaVars, viewerVars
<1>0. /\ TypeOK /\ Quiet /\ PermitHeld /\ Fresh
      /\ Pipeline \in Seq(Message) /\ Chain(canvas, shown, Pipeline) /\ InStep
  BY PipelineType DEF MediaInv
<1>1. CASE BeginSession
  <2>1. Pipeline' = <<>> /\ prev' = None
    BY <1>1 DEF BeginSession, Pipeline
  <2>. QED
    BY <2>1, EmptyChain DEF InStep
<1>2. ASSUME UNCHANGED <<conn, wire, hand, chan, mediaUp, canvas, shown>>,
             prev' = None \/ UNCHANGED <<prev, current>>
      PROVE  Chain(canvas, shown, Pipeline)' /\ InStep'
  <2>1. Pipeline' = Pipeline
    BY <1>2, PipelineUnmoved
  <2>. QED
    BY <1>0, <1>2, <2>1 DEF InStep
<1>3. CASE \E id \in Monitors : RecvSelect(id)
  BY <1>2, <1>3 DEF RecvSelect
<1>4. CASE JoinCapture \/ AwaitMedia
  BY <1>2, <1>4 DEF JoinCapture, AwaitMedia
<1>5. CASE CapStart
  BY <1>0, <1>2, <1>5 DEF CapStart, Fresh
<1>6. CASE Watch
  BY <1>2, <1>6 DEF Watch
<1>7. CASE EndCapture
  BY <1>2, <1>7 DEF EndCapture
<1>8. CASE CaptureFrame
  BY <1>8, CaptureKeepsChain
<1>9. CASE MediaRecv \/ MediaSend
  <2>1. Pipeline' = Pipeline
    BY <1>0, <1>9, PipelinePasses
  <2>2. UNCHANGED <<conn, mediaUp, canvas, shown, prev, current>>
    BY <1>9 DEF MediaRecv, MediaSend
  <2>. QED
    BY <1>0, <2>1, <2>2 DEF InStep
<1>10. CASE DropMedia \/ EndLoop \/ LoseConnection \/ ViewerEnds
  <2>1. CutOf(Pipeline', Pipeline)
    BY <1>0, <1>10, PipelineCut
  <2>2. canvas' = canvas /\ shown' = shown
    BY <1>10 DEF DropMedia, EndLoop, LoseConnection, ViewerEnds
  <2>3. (~conn)' \/ (~mediaUp)' \/ ViewerEnds
    BY <1>10 DEF DropMedia, EndLoop, LoseConnection
  <2>4. InStep'
    BY <2>3 DEF ViewerEnds, InStep
  <2>5. Chain(canvas, shown, Pipeline')
    BY <1>0, <2>1, ChainCut
  <2>. QED
    BY <2>2, <2>4, <2>5
<1>11. CASE ViewerShow
  BY <1>11, ShowKeepsChain
<1>12. CASE \E m \in Monitors : ChangeScreen(m)
  BY <1>2, <1>12 DEF ChangeScreen
<1>13. CASE UNCHANGED vars
  BY <1>2, <1>13 DEF vars
<1>. QED
  BY <1>1, <1>3, <1>4, <1>5, <1>6, <1>7, <1>8, <1>9, <1>10, <1>11, <1>12, <1>13
     DEF Next, ControlStep, CaptureStep, MediaStep, Failure, FindClosed, SeeStop,
         Reserve, SkipTick, Ends, RecvError,
         CaptureFails, MediaSendClosed, MediaSendFails, MediaEnds

-----------------------------------------------------------------------------
(* The invariant holds in every state the host and the viewer can reach.   *)
THEOREM MediaInvariant == Spec => []MediaInv
<1>1. MediaInv /\ [Next]_vars => MediaInv'
  BY StepKeepsTypes, StepKeepsQuiet, StepKeepsChain DEF MediaInv
<1>. QED
  BY <1>1, InitInvariant, PTL DEF Spec

(* Every variable keeps its type: in particular the media channel never    *)
(* holds more than the one frame it has room for.                          *)
THEOREM MediaTypes == Spec => []TypeOK
<1>1. MediaInv => TypeOK
  BY DEF MediaInv
<1>. QED
  BY <1>1, MediaInvariant, PTL

(* After a monitor switch, and at the start of a session, the next frame   *)
(* under way is a full one.                                                *)
THEOREM SwitchesStandAlone == Spec => []SwitchStandsAlone
<1>1. MediaInv => SwitchStandsAlone
  BY DEF MediaInv, Chain, StandsAlone, SwitchStandsAlone
<1>. QED
  BY <1>1, MediaInvariant, PTL

(* A session begins only when nothing of the last one captures or sends.   *)
THEOREM SessionsDoNotOverlap == Spec => []IdleMeansQuiet
<1>1. MediaInv => IdleMeansQuiet
  BY DEF MediaInv, Quiet, IdleMeansQuiet
<1>. QED
  BY <1>1, MediaInvariant, PTL

-----------------------------------------------------------------------------
(* MediaStream implements ScreenMirror.                                    *)

(* What a message, a queue and a canvas are to the abstract specification. *)
ShotOf(msg) == [mon |-> msg.mon, image |-> Decoded(msg.shot)]
ShotsOf(q) == [i \in 1 .. Len(q) |-> ShotOf(q[i])]
PictureOf(c, m) == IF c = None THEN None ELSE [mon |-> m, image |-> c]

LEMMA ShotsGrow ==
    ASSUME NEW q \in Seq(Message), NEW msg \in Message
    PROVE  ShotsOf(Append(q, msg)) = Append(ShotsOf(q), ShotOf(msg))
<1>. DEFINE S == {ShotOf(m) : m \in Message}
            r == Append(q, msg)
<1>1. /\ r \in Seq(Message) /\ Len(r) = Len(q) + 1 /\ Len(q) \in Nat
      /\ \A i \in 1 .. Len(q) : r[i] = q[i]
      /\ r[Len(q) + 1] = msg
  OBVIOUS
<1>. HIDE DEF r
<1>2. \A i \in 1 .. Len(q) : ShotOf(q[i]) \in S
  <2>1. \A i \in 1 .. Len(q) : q[i] \in Message
    OBVIOUS
  <2>. QED
    BY <2>1
<1>3. \A i \in 1 .. Len(r) : ShotOf(r[i]) \in S
  <2>1. \A i \in 1 .. Len(r) : r[i] \in Message
    BY <1>1
  <2>. QED
    BY <2>1
<1>4. ShotOf(msg) \in S
  OBVIOUS
<1>. HIDE DEF S
<1>5. /\ ShotsOf(q) \in Seq(S) /\ Len(ShotsOf(q)) = Len(q)
      /\ \A i \in 1 .. Len(q) : ShotsOf(q)[i] = ShotOf(q[i])
  BY <1>1, <1>2 DEF ShotsOf
<1>6. /\ ShotsOf(r) \in Seq(S) /\ Len(ShotsOf(r)) = Len(r)
      /\ \A i \in 1 .. Len(r) : ShotsOf(r)[i] = ShotOf(r[i])
  BY <1>1, <1>3 DEF ShotsOf
<1>. DEFINE a == Append(ShotsOf(q), ShotOf(msg))
<1>7. /\ a \in Seq(S) /\ Len(a) = Len(q) + 1 /\ a[Len(q) + 1] = ShotOf(msg)
      /\ \A i \in 1 .. Len(q) : a[i] = ShotOf(q[i])
  BY <1>4, <1>5, AppendProperties
<1>. HIDE DEF a
<1>8. \A i \in 1 .. Len(r) : a[i] = ShotsOf(r)[i]
  BY <1>1, <1>6, <1>7
<1>. QED
  BY <1>1, <1>6, <1>7, <1>8, SeqEqual DEF r, a

LEMMA ShotsAdvance ==
    ASSUME NEW q \in Seq(Message), q # <<>>
    PROVE  /\ ShotsOf(q) # <<>>
           /\ Head(ShotsOf(q)) = ShotOf(Head(q))
           /\ ShotsOf(Tail(q)) = Tail(ShotsOf(q))
<1>. DEFINE S == {ShotOf(m) : m \in Message}
<1>1. PICK t \in Seq(Message) :
          /\ t = Tail(q) /\ Len(t) = Len(q) - 1
          /\ \A i \in 1 .. Len(t) : t[i] = q[i + 1]
  BY HeadTailProperties
<1>2. Len(q) \in Nat \ {0} /\ Head(q) = q[1]
  BY EmptySeq
<1>3. (\A i \in 1 .. Len(q) : ShotOf(q[i]) \in S) /\ (\A i \in 1 .. Len(t) : ShotOf(t[i]) \in S)
  <2>1. (\A i \in 1 .. Len(q) : q[i] \in Message) /\ (\A i \in 1 .. Len(t) : t[i] \in Message)
    OBVIOUS
  <2>. QED
    BY <2>1
<1>. HIDE DEF S
<1>4. /\ ShotsOf(q) \in Seq(S) /\ Len(ShotsOf(q)) = Len(q)
      /\ \A i \in 1 .. Len(q) : ShotsOf(q)[i] = ShotOf(q[i])
  BY <1>2, <1>3 DEF ShotsOf
<1>5. /\ ShotsOf(t) \in Seq(S) /\ Len(ShotsOf(t)) = Len(t)
      /\ \A i \in 1 .. Len(t) : ShotsOf(t)[i] = ShotOf(t[i])
  BY <1>1, <1>3 DEF ShotsOf
<1>6. ShotsOf(q) # <<>> /\ Head(ShotsOf(q)) = ShotOf(Head(q))
  BY <1>2, <1>4, EmptySeq
<1>. DEFINE u == Tail(ShotsOf(q))
<1>7. /\ u \in Seq(S) /\ Len(u) = Len(ShotsOf(q)) - 1
      /\ \A i \in 1 .. Len(u) : u[i] = ShotsOf(q)[i + 1]
  BY <1>4, <1>6, HeadTailProperties
<1>. HIDE DEF u
<1>8. /\ Len(u) = Len(ShotsOf(t))
      /\ \A i \in 1 .. Len(u) : u[i] = ShotsOf(t)[i]
  <2>1. Len(u) = Len(t) /\ Len(ShotsOf(t)) = Len(t)
    BY <1>1, <1>4, <1>5, <1>7
  <2>2. ASSUME NEW i \in 1 .. Len(t)
        PROVE  u[i] = ShotsOf(t)[i]
    <3>1. i + 1 \in 1 .. Len(q) /\ i \in 1 .. Len(u)
      BY <1>1, <1>2, <2>1
    <3>2. u[i] = ShotOf(q[i + 1]) /\ ShotsOf(t)[i] = ShotOf(t[i]) /\ t[i] = q[i + 1]
      BY <1>1, <1>4, <1>5, <1>7, <3>1
    <3>. QED
      BY <3>2
  <2>. QED
    BY <2>1, <2>2
<1>9. ShotsOf(t) = u
  BY <1>5, <1>7, <1>8, SeqEqual
<1>. QED
  BY <1>1, <1>6, <1>7, <1>9 DEF u

LEMMA ShotsCut ==
    ASSUME NEW q \in Seq(Message), NEW r, CutOf(r, q)
    PROVE  \E n \in 0 .. Len(ShotsOf(q)) :
               ShotsOf(r) = [i \in 1 .. n |-> ShotsOf(q)[i]]
<1>1. /\ Len(q) \in Nat /\ Len(r) \in Nat /\ Len(r) =< Len(q)
      /\ \A i \in 1 .. Len(r) : r[i] = q[i]
  BY DEF CutOf
<1>2. /\ Len(ShotsOf(q)) = Len(q)
      /\ \A i \in 1 .. Len(q) : ShotsOf(q)[i] = ShotOf(q[i])
  BY <1>1 DEF ShotsOf
<1>3. ShotsOf(r) = [i \in 1 .. Len(r) |-> ShotsOf(q)[i]]
  BY <1>1, <1>2 DEF ShotsOf
<1>. QED
  BY <1>1, <1>2, <1>3

LEMMA StepMirrors ==
    ASSUME MediaInv, [Next]_vars
    PROVE  [Mirror!Next]_(Mirror!vars)
<1>. USE DEF controlVars, captureVars, mediaVars, viewerVars
<1>0. TypeOK /\ PermitHeld /\ Pipeline \in Seq(Message)
  BY PipelineType DEF MediaInv
<1>a. ASSUME UNCHANGED <<screen, canvas, shown>>, Pipeline' = Pipeline
      PROVE  UNCHANGED Mirror!vars
  BY <1>a DEF Mirror!vars
<1>b. ASSUME UNCHANGED <<screen, canvas, shown, conn, wire, hand, chan>>
      PROVE  UNCHANGED Mirror!vars
  BY <1>a, <1>b, PipelineUnmoved
<1>1. CASE BeginSession
  <2>1. Pipeline' = <<>> /\ canvas' = None /\ screen' = screen
    BY <1>1 DEF BeginSession, Pipeline
  <2>2. Mirror!Restart
    BY <2>1 DEF Mirror!Restart
  <2>. QED
    BY <2>2 DEF Mirror!Next
<1>2. CASE (\E id \in Monitors : RecvSelect(id)) \/ JoinCapture \/ AwaitMedia
  BY <1>b, <1>2 DEF RecvSelect, JoinCapture, AwaitMedia
<1>3. CASE CapStart \/ Watch \/ EndCapture
  BY <1>b, <1>3 DEF CapStart, Watch, EndCapture
<1>4. CASE CaptureFrame
  <2>1. UNCHANGED <<screen, canvas, shown>>
    BY <1>4 DEF CaptureFrame
  <2>2. CASE ~(conn /\ mediaUp)
    BY <1>0, <1>4, <1>a, <2>1, <2>2, PipelineCapture
  <2>3. CASE conn /\ mediaUp
    <3>. DEFINE msg == Encode(current, screen[current])
    <3>1. current \in Monitors /\ screen[current] \in Pictures
      BY <1>0 DEF TypeOK
    <3>2. msg \in Message /\ msg.shot = screen[current] /\ msg.mon = current
      BY <3>1, EncodeType
    <3>3. Pipeline' = Append(Pipeline, msg)
      BY <1>0, <1>4, <2>3, PipelineCapture
    <3>. HIDE DEF msg
    <3>4. ShotsOf(Pipeline') = Append(ShotsOf(Pipeline), ShotOf(msg))
      BY <1>0, <3>2, <3>3, ShotsGrow
    <3>5. ShotOf(msg) = [mon |-> current,
                         image |-> [p \in Pictures |-> Decoded(p)][screen[current]]]
      BY <3>1, <3>2 DEF ShotOf
    <3>6. Mirror!Take
      BY <2>1, <3>1, <3>4, <3>5 DEF Mirror!Take, Mirror!Screenshot, ShotsOf, ShotOf
    <3>. QED
      BY <3>6 DEF Mirror!Next
  <2>. QED
    BY <2>2, <2>3
<1>5. CASE MediaRecv \/ MediaSend
  <2>1. UNCHANGED <<screen, canvas, shown>>
    BY <1>5 DEF MediaRecv, MediaSend
  <2>. QED
    BY <1>0, <1>5, <1>a, <2>1, PipelinePasses
<1>6. CASE DropMedia \/ EndLoop \/ LoseConnection \/ ViewerEnds
  <2>1. UNCHANGED <<screen, canvas, shown>>
    BY <1>6 DEF DropMedia, EndLoop, LoseConnection, ViewerEnds
  <2>2. CutOf(Pipeline', Pipeline)
    BY <1>0, <1>6, PipelineCut
  <2>3. \E n \in 0 .. Len(ShotsOf(Pipeline)) :
            ShotsOf(Pipeline') = [i \in 1 .. n |-> ShotsOf(Pipeline)[i]]
    BY <1>0, <2>2, ShotsCut
  <2>4. Mirror!Lose
    BY <2>1, <2>3 DEF Mirror!Lose, ShotsOf, ShotOf
  <2>. QED
    BY <2>4 DEF Mirror!Next
<1>7. CASE ViewerShow
  <2>1. /\ Pipeline # <<>> /\ Pipeline' = Tail(Pipeline)
        /\ Head(Pipeline) \in Message
    BY <1>0, <1>7, PipelineShow
  <2>2. canvas' = Decoded(Head(Pipeline).shot) /\ shown' = Head(Pipeline).mon
    BY <1>7, ShowKeepsChain
  <2>3. canvas' # None
    BY <2>1, <2>2, DecodedIsPicture DEF Message
  <2>4. /\ ShotsOf(Pipeline) # <<>>
        /\ Head(ShotsOf(Pipeline)) = ShotOf(Head(Pipeline))
        /\ ShotsOf(Pipeline') = Tail(ShotsOf(Pipeline))
    BY <1>0, <2>1, ShotsAdvance
  <2>5. PictureOf(canvas', shown') = ShotOf(Head(Pipeline))
    BY <2>2, <2>3 DEF PictureOf, ShotOf
  <2>6. screen' = screen
    BY <1>7 DEF ViewerShow
  <2>7. Mirror!Show
    BY <2>4, <2>5, <2>6 DEF Mirror!Show, ShotsOf, ShotOf, PictureOf
  <2>. QED
    BY <2>7 DEF Mirror!Next
<1>8. CASE \E m \in Monitors : ChangeScreen(m)
  <2>1. screen' \in [Monitors -> Pictures]
    BY StepKeepsTypes DEF TypeOK
  <2>2. UNCHANGED <<canvas, shown, conn, wire, hand, chan>>
    BY <1>8 DEF ChangeScreen
  <2>3. Pipeline' = Pipeline
    BY <2>2, PipelineUnmoved
  <2>4. Mirror!Change
    BY <2>1, <2>2, <2>3 DEF Mirror!Change
  <2>. QED
    BY <2>4 DEF Mirror!Next
<1>9. CASE UNCHANGED vars
  BY <1>b, <1>9 DEF vars
<1>. QED
  BY <1>1, <1>2, <1>3, <1>4, <1>5, <1>6, <1>7, <1>8, <1>9
     DEF Next, ControlStep, CaptureStep, MediaStep, Failure, FindClosed, SeeStop,
         Reserve, SkipTick, Ends, RecvError,
         CaptureFails, MediaSendClosed, MediaSendFails, MediaEnds

(* Tiles, keyframes, the channel, the media task and the streams together  *)
(* show the viewer whole screenshots in the order they were taken.         *)
THEOREM ViewerSeesScreenshots == Spec => ViewerMirrorsScreens
<1>1. Init => Mirror!Init
  <2>. SUFFICES ASSUME Init PROVE Mirror!Init
    OBVIOUS
  <2>1. Pipeline = <<>> /\ canvas = None /\ screen \in [Monitors -> Pictures]
    BY DEF Init, Pipeline
  <2>. QED
    BY <2>1 DEF Mirror!Init
<1>. QED
  BY <1>1, StepMirrors, MediaInvariant, PTL
     DEF Spec, ViewerMirrorsScreens, Mirror!Spec

-----------------------------------------------------------------------------
(* The teardown is bounded: the part of TeardownCompletes that needs no    *)
(* fairness.                                                               *)

Tearing == phase \in {"join", "await"}

(* The steps that the capture thread, the media task and the control task  *)
(* still have before them, once `stop` is set and the connection closed.   *)
CaptureLeft == CASE capPc = "done" -> 0 [] capPc = "tick" -> 1 [] OTHER -> 2

MediaLeft == IF ~mediaUp THEN 0
             ELSE IF hand # <<>> THEN 1 ELSE IF chan # <<>> THEN 2 ELSE 3

ControlLeft == CASE phase = "join" -> 2 [] phase = "await" -> 1 [] OTHER -> 0

StepsLeft == CaptureLeft + MediaLeft + ControlLeft

(* One of the three can move: the control task has what it waits for, the  *)
(* thread comes to look at `stop`, or the media task has a message, a send *)
(* that fails, or a channel without sender.                                *)
SomebodyMoves ==
    \/ phase = "join" /\ capPc = "done"
    \/ phase = "await" /\ ~mediaUp
    \/ capPc \in {"start", "shoot"}
    \/ capPc = "tick" /\ stop
    \/ mediaUp /\ hand # <<>> /\ ~conn
    \/ mediaUp /\ hand = <<>> /\ chan # <<>>
    \/ mediaUp /\ hand = <<>> /\ chan = <<>> /\ capPc = "done"

TeardownMoves == Tearing => StepsLeft \in 1 .. 7 /\ SomebodyMoves

TaskStep == ControlStep \/ CaptureStep \/ MediaStep

TeardownAdvances ==
    [][/\ Tearing => StepsLeft' =< StepsLeft
       /\ Tearing /\ TaskStep => StepsLeft' < StepsLeft]_vars

(* `stop` is stored before anybody waits for those who look at it.         *)
StopStored == Tearing => stop

(* Ends and RecvError store `stop` as they leave the loop, and only the    *)
(* session that follows the teardown clears it.                            *)
LEMMA StopStoredStep ==
    ASSUME StopStored, [Next]_vars
    PROVE  StopStored'
<1>. USE DEF StopStored, Tearing
<1>1. CASE BeginSession \/ Ends \/ RecvError
  BY <1>1 DEF BeginSession, Ends, RecvError, EndLoop
<1>2. CASE JoinCapture \/ AwaitMedia
  BY <1>2 DEF JoinCapture, AwaitMedia
<1>3. CASE \/ \E id \in Monitors : RecvSelect(id)
           \/ CaptureStep \/ MediaStep \/ Failure \/ ViewerShow \/ ViewerEnds
           \/ \E m \in Monitors : ChangeScreen(m)
           \/ UNCHANGED vars
  <2>1. phase' = phase /\ stop' = stop
    BY <1>3 DEF RecvSelect, CaptureStep, CapStart, Reserve, SkipTick, Watch, FindClosed,
         SeeStop, EndCapture, CaptureFrame, MediaStep, MediaRecv, MediaSend,
         MediaSendClosed, MediaEnds, DropMedia, Failure, CaptureFails, MediaSendFails,
         LoseConnection, ViewerShow, ViewerEnds, ChangeScreen, controlVars, vars
  <2>. QED
    BY <2>1
<1>. QED
  BY <1>1, <1>2, <1>3 DEF Next, ControlStep

(* In the teardown one of the three tasks can move, and the measure is at  *)
(* least 1, for the control task still has its awaits before it.           *)
LEMMA TeardownNeverWaits ==
    ASSUME MediaInv, StopStored
    PROVE  TeardownMoves
<1>. SUFFICES ASSUME Tearing PROVE StepsLeft \in 1 .. 7 /\ SomebodyMoves
  BY DEF TeardownMoves
<1>1. /\ phase \in {"join", "await"} /\ capPc \in {"start", "tick", "shoot", "done"}
      /\ mediaUp \in BOOLEAN /\ stop /\ ~conn
      /\ phase = "await" => capPc = "done"
  BY DEF Tearing, MediaInv, TypeOK, Quiet, StopStored
<1>2. CaptureLeft \in 0 .. 2 /\ MediaLeft \in 0 .. 3 /\ ControlLeft \in 1 .. 2
  BY <1>1 DEF CaptureLeft, MediaLeft, ControlLeft
<1>3. StepsLeft \in 1 .. 7
  BY <1>2 DEF StepsLeft
<1>4. SomebodyMoves
  BY <1>1 DEF SomebodyMoves
<1>. QED
  BY <1>3, <1>4

(* A sum of three falls when one of them falls and none rises. *)
LEMMA ThreeRanks ==
    ASSUME NEW a \in Int, NEW b \in Int, NEW c \in Int,
           NEW x \in Int, NEW y \in Int, NEW z \in Int,
           x =< a, y =< b, z =< c, x < a \/ y < b \/ z < c
    PROVE  /\ x + y + z < a + b + c
           /\ x + y + z \in Int /\ a + b + c \in Int
OBVIOUS

(* No step of anybody raises the measure, and a step of a task lowers it:  *)
(* with `stop` set nobody reserves a permit any more, and without the      *)
(* connection no message is sent.                                          *)
LEMMA TeardownSteps ==
    ASSUME MediaInv, StopStored, Tearing, [Next]_vars
    PROVE  /\ StepsLeft' =< StepsLeft
           /\ TaskStep => StepsLeft' < StepsLeft
<1>1. /\ phase \in {"join", "await"} /\ capPc \in {"start", "tick", "shoot", "done"}
      /\ mediaUp \in BOOLEAN /\ stop /\ ~conn
  BY DEF Tearing, MediaInv, TypeOK, Quiet, StopStored
<1>2. CaptureLeft \in 0 .. 2 /\ MediaLeft \in 0 .. 3 /\ ControlLeft \in 1 .. 2
  BY <1>1 DEF CaptureLeft, MediaLeft, ControlLeft
<1>3. ASSUME CaptureLeft' = CaptureLeft, MediaLeft' = MediaLeft, ControlLeft' = ControlLeft,
             ~TaskStep
      PROVE  StepsLeft' =< StepsLeft /\ (TaskStep => StepsLeft' < StepsLeft)
  BY <1>2, <1>3 DEF StepsLeft
<1>4. ASSUME CaptureLeft' \in Int, MediaLeft' \in Int, ControlLeft' \in Int,
             CaptureLeft' =< CaptureLeft, MediaLeft' =< MediaLeft, ControlLeft' =< ControlLeft,
             \/ CaptureLeft' < CaptureLeft
             \/ MediaLeft' < MediaLeft
             \/ ControlLeft' < ControlLeft
      PROVE  StepsLeft' =< StepsLeft /\ (TaskStep => StepsLeft' < StepsLeft)
  <2>1. CaptureLeft \in Int /\ MediaLeft \in Int /\ ControlLeft \in Int
    BY <1>2
  <2>2. /\ StepsLeft = CaptureLeft + MediaLeft + ControlLeft
        /\ StepsLeft' = CaptureLeft' + MediaLeft' + ControlLeft'
    BY DEF StepsLeft
  <2>3. StepsLeft' < StepsLeft /\ StepsLeft' \in Int /\ StepsLeft \in Int
    BY <1>4, <2>1, <2>2, ThreeRanks
  <2>4. StepsLeft' =< StepsLeft
    BY <2>3
  <2>. QED
    BY <2>3, <2>4
<1>5. CASE JoinCapture \/ AwaitMedia
  <2>1. /\ CaptureLeft' = CaptureLeft /\ MediaLeft' = MediaLeft
        /\ ControlLeft' = ControlLeft - 1
    BY <1>5 DEF JoinCapture, AwaitMedia, captureVars, mediaVars,
         CaptureLeft, MediaLeft, ControlLeft
  <2>. QED
    BY <1>2, <1>4, <2>1
<1>6. CASE CapStart \/ SeeStop \/ CaptureFails
  <2>1. /\ CaptureLeft' < CaptureLeft /\ CaptureLeft' \in Int /\ MediaLeft' = MediaLeft
        /\ ControlLeft' = ControlLeft
    BY <1>6 DEF CapStart, SeeStop, CaptureFails, EndCapture, controlVars, mediaVars,
         CaptureLeft, MediaLeft, ControlLeft
  <2>. QED
    BY <1>2, <1>4, <2>1
<1>7. CASE CaptureFrame
  <2>1. /\ CaptureLeft' = 1 /\ CaptureLeft = 2 /\ ControlLeft' = ControlLeft
    BY <1>7 DEF CaptureFrame, controlVars, CaptureLeft, ControlLeft
  <2>2. MediaLeft' \in 0 .. 3 /\ MediaLeft' =< MediaLeft
    <3>1. mediaUp' = mediaUp /\ hand' = hand
      BY <1>7 DEF CaptureFrame
    <3>2. chan = <<>>
      BY <1>7 DEF CaptureFrame, MediaInv, PermitHeld
    <3>. QED
      BY <1>1, <3>1, <3>2 DEF MediaLeft
  <2>. QED
    BY <1>2, <1>4, <2>1, <2>2
<1>8. CASE Reserve \/ SkipTick \/ FindClosed
  BY <1>1, <1>8 DEF Reserve, SkipTick, Watch, FindClosed
<1>9. CASE MediaRecv
  <2>1. /\ MediaLeft = 2 /\ MediaLeft' = 1 /\ CaptureLeft' = CaptureLeft
        /\ ControlLeft' = ControlLeft
    BY <1>9 DEF MediaRecv, controlVars, captureVars, CaptureLeft, MediaLeft, ControlLeft
  <2>. QED
    BY <1>2, <1>4, <2>1
<1>10. CASE MediaSendClosed \/ MediaEnds \/ MediaSendFails
  <2>1. /\ MediaLeft > 0 /\ MediaLeft' = 0 /\ CaptureLeft' = CaptureLeft
        /\ ControlLeft' = ControlLeft
    BY <1>10 DEF MediaSendClosed, MediaEnds, MediaSendFails, DropMedia, controlVars,
         captureVars, CaptureLeft, MediaLeft, ControlLeft
  <2>. QED
    BY <1>2, <1>4, <2>1
<1>11. CASE \/ BeginSession \/ Ends \/ RecvError \/ MediaSend \/ LoseConnection
            \/ \E id \in Monitors : RecvSelect(id)
  BY <1>1, <1>11 DEF BeginSession, Ends, RecvError, MediaSend, LoseConnection, RecvSelect
<1>12. CASE \/ ViewerShow \/ ViewerEnds \/ UNCHANGED vars
            \/ \E m \in Monitors : ChangeScreen(m)
  <2>1. UNCHANGED <<controlVars, captureVars, mediaVars>>
    BY <1>12 DEF ViewerShow, ViewerEnds, ChangeScreen, vars
  <2>2. ~TaskStep
    BY <1>1, <2>1 DEF TaskStep, ControlStep, RecvError, JoinCapture, AwaitMedia, CaptureStep,
         CapStart, Reserve, SkipTick, Watch, FindClosed, SeeStop, EndCapture, CaptureFrame,
         MediaStep, MediaRecv, MediaSend, MediaSendClosed, MediaEnds, DropMedia,
         controlVars, captureVars, mediaVars
  <2>3. CaptureLeft' = CaptureLeft /\ MediaLeft' = MediaLeft /\ ControlLeft' = ControlLeft
    BY <2>1 DEF controlVars, captureVars, mediaVars, CaptureLeft, MediaLeft, ControlLeft
  <2>. QED
    BY <1>3, <2>2, <2>3
<1>. QED
  BY <1>5, <1>6, <1>7, <1>8, <1>9, <1>10, <1>11, <1>12
     DEF Next, ControlStep, CaptureStep, MediaStep, Failure

(* From the end of the control loop on, whatever viewer, user and network  *)
(* do, the tasks of the host are never all waiting, and together take      *)
(* seven steps at most until the host accepts viewers again.               *)
THEOREM TeardownIsBounded == Spec => []TeardownMoves /\ TeardownAdvances
<1>1. Init => StopStored
  BY DEF Init, StopStored, Tearing
<1>2. StopStored /\ [Next]_vars => StopStored'
  BY StopStoredStep
<1>3. MediaInv /\ StopStored => TeardownMoves
  BY TeardownNeverWaits
<1>4. MediaInv /\ StopStored /\ [Next]_vars
          => [/\ Tearing => StepsLeft' =< StepsLeft
              /\ Tearing /\ TaskStep => StepsLeft' < StepsLeft]_vars
  BY TeardownSteps
<1>. QED
  BY <1>1, <1>2, <1>3, <1>4, MediaInvariant, PTL DEF Spec, TeardownAdvances
=============================================================================

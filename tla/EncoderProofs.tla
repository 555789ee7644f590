--------------------------- MODULE EncoderProofs ---------------------------
(***************************************************************************)
(* Proofs about the codec pipeline, for every set of codecs and client     *)
(* settings, every number of rectangles and every window.                  *)
(***************************************************************************)
EXTENDS Encoder, TLAPS, FiniteSetTheorems, SequenceTheorems

Frame == [id : Nat, n : Nat]

-----------------------------------------------------------------------------
(* The inductive invariant. *)

\* The encoder thread still has pixels of its frame to read.
Reading == wpc \in {"rfx", "h264"} \/ (wpc = "jpg" /\ index < enc.n)

\* It has read the last of them.
ReadAll == wpc = "rfxset" \/ (wpc \in {"jpg", "jpgset"} /\ index >= enc.n)

\* The struct xrdp_encoder lives from the start to xrdp_encoder_delete, its thread
\* runs only the codec it was created for, and without it nothing is queued.
LifeOK ==
    /\ alive <=> codec # "none" /\ mpc # "gone"
    /\ ~alive => fifo_to_proc = <<>> /\ fifo_processed = <<>>
    /\ wpc \in {"jpg", "jpgset"} => codec = "jpg"
    /\ wpc \in {"rfx", "rfxset"} => codec = "rfx"
    /\ wpc = "h264" => codec = "h264"
    /\ codec = "none" \/ ~use_frame_acks => toack = {}

\* Every frame id in the pipeline is one the module sent.
IdsKnown ==
    /\ \A i \in 1 .. Len(fifo_to_proc) : fifo_to_proc[i].id \in 1 .. rect_id
    /\ Encoding => enc.id \in 1 .. rect_id
    /\ \A i \in 1 .. Len(fifo_processed) : fifo_processed[i].id \in 1 .. rect_id
    /\ freed \subseteq 1 .. rect_id

\* Frames wait in the order they were sent, one entry each, ...
ToProcSorted ==
    /\ \A i, j \in 1 .. Len(fifo_to_proc) :
          i < j => fifo_to_proc[i].id < fifo_to_proc[j].id
    /\ Encoding => \A j \in 1 .. Len(fifo_to_proc) : enc.id < fifo_to_proc[j].id

\* ... come back in that order, a frame in one or several pieces of which only the
\* final one is marked as the last, and marked once its pixels were all read, ...
ProcessedSorted ==
    /\ \A i, j \in 1 .. Len(fifo_processed) :
          i < j => /\ fifo_processed[i].id <= fifo_processed[j].id
                   /\ fifo_processed[i].last => fifo_processed[i].id < fifo_processed[j].id
    /\ \A i \in 1 .. Len(fifo_processed) :
          /\ Encoding => /\ fifo_processed[i].id <= enc.id
                         /\ fifo_processed[i].last => fifo_processed[i].id < enc.id \/ ReadAll
          /\ \A j \in 1 .. Len(fifo_to_proc) : fifo_processed[i].id < fifo_to_proc[j].id

\* ... and a frame is freed after its last piece was taken, so before any later one.
FreedFirst ==
    \A f \in freed :
        /\ \A i \in 1 .. Len(fifo_processed) : f < fifo_processed[i].id
        /\ Encoding => f < enc.id \/ (f = enc.id /\ ReadAll)
        /\ \A j \in 1 .. Len(fifo_to_proc) : f < fifo_to_proc[j].id

\* What the main thread has noted or acknowledged is 0 or a frame it freed.
NotedAreFreed ==
    codec # "none" => /\ frame_id_server \in freed \cup {0}
                      /\ rect_id_ack \in freed \cup {0}

\* The wakeups, also while the main thread is in server_paint_rects.
EventsOK ==
    alive =>
    /\ fifo_to_proc # <<>> /\ wpc = "wait" => event_to_proc \/ mpc = "signal"
    /\ fifo_processed # <<>> /\ mpc \in {"loop", "signal"} =>
           event_processed \/ wpc \in {"jpgset", "rfxset"}

\* With frame acks the module is told at most frames_in_flight - 1 frames beyond
\* what the client acknowledged, and it sends at most Window beyond that.
WindowOK ==
    codec # "none" /\ use_frame_acks =>
    /\ frame_id_client <= frame_id_server
    /\ rect_id_ack = frame_id_server_sent
    /\ rect_id_ack < frame_id_client + frames_in_flight
    /\ rect_id <= rect_id_ack + Window
    /\ \A i \in toack : i <= rect_id

EncInv == /\ TypeOK /\ LifeOK /\ IdsKnown /\ ToProcSorted /\ ProcessedSorted
          /\ FreedFirst /\ NotedAreFreed /\ EventsOK /\ WindowOK

-----------------------------------------------------------------------------
(* The operators the actions are built from. *)

\* A bound that moves up bounds no less.
LEMMA Farther ==
    \A a, b, c, d \in Int : b <= d => /\ a < b + c => a < d + c
                                      /\ a <= b + c => a <= d + c
    OBVIOUS

LEMMA WindowNat == Window \in Nat
    BY EncoderAssumption

LEMMA InitHolds ==
    Init => EncInv
<1> SUFFICES ASSUME Init PROVE EncInv
    OBVIOUS
<1>1. codec \in Codecs \cup {"none"} /\ use_frame_acks \in BOOLEAN
    BY EncoderAssumption DEF Init, ChosenCodec, Codecs
<1>2. frames_in_flight \in Nat \ {0}
    BY EncoderAssumption DEF Init
<1>3. TypeOK
    <2>1. alive \in BOOLEAN /\ wpc \in {"exit", "wait"}
        BY DEF Init
    <2>2. <<>> \in Seq([id : Nat, n : Nat]) /\ <<>> \in Seq(Piece)
        OBVIOUS
    <2>3. None \in [id : Nat, n : Nat] /\ 0 \in Nat /\ {} \subseteq Nat
        BY DEF None
    <2> QED BY <1>1, <1>2, <2>1, <2>2, <2>3, Zenon DEF Init, TypeOK
<1>4. LifeOK
    BY DEF Init, LifeOK
<1>4a. IdsKnown /\ ToProcSorted /\ ProcessedSorted /\ FreedFirst
    <2>1. ~Encoding /\ Len(fifo_to_proc) = 0 /\ Len(fifo_processed) = 0 /\ freed = {}
        BY DEF Init, Encoding
    <2> QED BY <2>1 DEF IdsKnown, ToProcSorted, ProcessedSorted, FreedFirst
<1>5. NotedAreFreed /\ EventsOK /\ WindowOK
    BY <1>2, EncoderAssumption DEF Init, NotedAreFreed, EventsOK, WindowOK
<1> QED BY <1>3, <1>4, <1>4a, <1>5 DEF EncInv

\* Steps that touch neither the fifos nor the frames: the parts of the invariant
\* about the order of frames carry over.
OrderVars == <<fifo_to_proc, fifo_processed, enc, freed, rect_id>>

LEMMA OrderKept ==
    ASSUME IdsKnown, ToProcSorted, ProcessedSorted, FreedFirst, UNCHANGED OrderVars,
           Encoding' => Encoding, ReadAll => ReadAll' \/ ~Encoding'
    PROVE  IdsKnown' /\ ToProcSorted' /\ ProcessedSorted' /\ FreedFirst'
    BY DEF IdsKnown, ToProcSorted, ProcessedSorted, FreedFirst, OrderVars

\* Steps of the main thread that send or signal.
LEMMA PaintRectsStep ==
    ASSUME EncInv, PaintRects
    PROVE  EncInv'
<1> USE DEF EncInv
<1>1. PICK n \in Rects : fifo_to_proc' = Append(fifo_to_proc, [id |-> rect_id', n |-> n])
    BY DEF PaintRects
<1> DEFINE new == [id |-> rect_id', n |-> n]
           k == Len(fifo_to_proc)
<1>2. /\ rect_id \in Nat /\ rect_id' = rect_id + 1 /\ new \in Frame
      /\ new.id = rect_id + 1
      /\ fifo_to_proc \in Seq(Frame) /\ k \in Nat
    BY EncoderAssumption DEF PaintRects, ModSends, TypeOK, Frame
<1> HIDE DEF new
<1>3. /\ fifo_to_proc' \in Seq(Frame) /\ Len(fifo_to_proc') = k + 1
      /\ \A i \in 1 .. k : fifo_to_proc'[i] = fifo_to_proc[i]
      /\ fifo_to_proc'[k + 1] = new
    BY <1>1, <1>2, AppendProperties DEF new
<1> HIDE DEF k
<1>4. /\ mpc = "loop" /\ mpc' = "signal" /\ codec # "none"
      /\ UNCHANGED <<cfgVars, wrkVars, fifo_processed, event_to_proc, event_processed,
                     encoder_term, g_term, idVars, freed, toack, alive>>
    BY DEF PaintRects, MainAt
<1>5. TypeOK'
    BY <1>2, <1>3, <1>4 DEF TypeOK, cfgVars, wrkVars, idVars, Frame
<1>6. LifeOK'
    BY <1>4 DEF LifeOK, cfgVars, wrkVars
<1>7. IdsKnown'
    <2>1. Encoding' <=> Encoding
        BY <1>4 DEF Encoding, wrkVars
    <2>2. 1 .. rect_id \subseteq 1 .. rect_id' /\ rect_id' \in 1 .. rect_id'
        BY <1>2
    <2>3. ASSUME NEW i \in 1 .. k + 1 PROVE fifo_to_proc'[i].id \in 1 .. rect_id'
        BY <1>2, <1>3, <2>2, <2>3 DEF IdsKnown, k
    <2> QED BY <1>3, <1>4, <2>1, <2>2, <2>3 DEF IdsKnown, wrkVars
<1>8. ToProcSorted'
    <2>1. Encoding' <=> Encoding
        BY <1>4 DEF Encoding, wrkVars
    <2>2. ASSUME NEW i \in 1 .. k + 1, NEW j \in 1 .. k + 1, i < j
          PROVE  fifo_to_proc'[i].id < fifo_to_proc'[j].id
        <3>1. CASE j = k + 1
            BY <1>2, <1>3, <2>2, <3>1 DEF IdsKnown, k
        <3>2. CASE j # k + 1
            <4>1. i \in 1 .. k /\ j \in 1 .. k
                BY <1>2, <2>2, <3>2
            <4> QED BY <1>3, <2>2, <4>1 DEF ToProcSorted, k
        <3> QED BY <3>1, <3>2
    <2>3. ASSUME Encoding, NEW j \in 1 .. k + 1
          PROVE  enc.id < fifo_to_proc'[j].id
        BY <1>2, <1>3, <2>3 DEF IdsKnown, ToProcSorted, k
    <2> QED BY <1>3, <1>4, <2>1, <2>2, <2>3 DEF ToProcSorted, wrkVars
<1>9. ProcessedSorted'
    <2>1. (Encoding' <=> Encoding) /\ (ReadAll' <=> ReadAll)
        BY <1>4 DEF Encoding, ReadAll, wrkVars
    <2>2. ASSUME NEW i \in 1 .. Len(fifo_processed), NEW j \in 1 .. k + 1
          PROVE  fifo_processed[i].id < fifo_to_proc'[j].id
        <3>1. fifo_processed[i].id \in 1 .. rect_id
            BY DEF IdsKnown
        <3>2. CASE j = k + 1
            BY <1>2, <1>3, <3>1, <3>2
        <3>3. CASE j # k + 1
            <4>1. j \in 1 .. k
                BY <1>2, <3>3
            <4> QED BY <1>3, <4>1 DEF ProcessedSorted, k
        <3> QED BY <3>2, <3>3
    <2> QED BY <1>3, <1>4, <2>1, <2>2 DEF ProcessedSorted, wrkVars
<1>10. FreedFirst'
    <2>1. (Encoding' <=> Encoding) /\ (ReadAll' <=> ReadAll)
        BY <1>4 DEF Encoding, ReadAll, wrkVars
    <2>2. ASSUME NEW f \in freed, NEW j \in 1 .. k + 1
          PROVE  f < fifo_to_proc'[j].id
        BY <1>2, <1>3, <2>2 DEF IdsKnown, FreedFirst, k
    <2> QED BY <1>3, <1>4, <2>1, <2>2 DEF FreedFirst, wrkVars
<1>11. NotedAreFreed' /\ EventsOK'
    BY <1>4 DEF NotedAreFreed, EventsOK, LifeOK, cfgVars, wrkVars, idVars
<1>12. WindowOK'
    BY <1>2, <1>4, EncoderAssumption
       DEF WindowOK, PaintRects, ModSends, TypeOK, cfgVars, idVars
<1> QED BY <1>5, <1>6, <1>7, <1>8, <1>9, <1>10, <1>11, <1>12

\* The signal handler sets the term event and touches nothing else.
LEMMA SignalTermStep ==
    ASSUME EncInv, SignalTerm
    PROVE  EncInv'
<1> USE DEF EncInv
<1>1. /\ UNCHANGED <<OrderVars, cfgVars, wrkVars, idVars, toack, alive, mpc, event_to_proc,
                     event_processed, encoder_term>>
      /\ g_term' = TRUE
    BY DEF SignalTerm, OrderVars, wrkVars
<1>2. TypeOK' /\ LifeOK' /\ NotedAreFreed' /\ EventsOK' /\ WindowOK'
    BY <1>1 DEF TypeOK, LifeOK, NotedAreFreed, EventsOK, WindowOK, OrderVars, cfgVars,
                wrkVars, idVars
<1>3. (Encoding' <=> Encoding) /\ (ReadAll' <=> ReadAll)
    BY <1>1 DEF Encoding, ReadAll, wrkVars
<1>4. IdsKnown' /\ ToProcSorted' /\ ProcessedSorted' /\ FreedFirst'
    BY <1>1, <1>3, OrderKept
<1> QED BY <1>2, <1>4

\* Steps of the main thread that change no frame.
LEMMA MainStep ==
    ASSUME EncInv, PaintSignal \/ CheckProcessed \/ DrainEnds \/ SessionEnds
    PROVE  EncInv'
<1> USE DEF EncInv
<1>1. UNCHANGED <<OrderVars, cfgVars, wrkVars, g_term, idVars, toack, alive>>
    BY DEF PaintSignal, CheckProcessed, DrainEnds, SessionEnds, MainAt, OrderVars, wrkVars
<1>2. (Encoding' <=> Encoding) /\ (ReadAll' <=> ReadAll)
    BY <1>1 DEF Encoding, ReadAll, wrkVars
<1>3. IdsKnown' /\ ToProcSorted' /\ ProcessedSorted' /\ FreedFirst'
    BY <1>1, <1>2, OrderKept
<1>4. NotedAreFreed' /\ WindowOK'
    BY <1>1 DEF NotedAreFreed, WindowOK, OrderVars, cfgVars, idVars
<1>5. CASE PaintSignal
    <2>1. TypeOK'
        BY <1>1, <1>5 DEF PaintSignal, TypeOK, OrderVars, cfgVars, wrkVars, idVars
    <2>2. LifeOK'
        BY <1>1, <1>5 DEF PaintSignal, MainAt, LifeOK, OrderVars, cfgVars, wrkVars
    <2>3. EventsOK'
        BY <1>1, <1>5 DEF PaintSignal, MainAt, EventsOK, OrderVars, wrkVars
    <2> QED BY <1>3, <1>4, <2>1, <2>2, <2>3
<1>6. CASE CheckProcessed
    <2>1. TypeOK'
        BY <1>1, <1>6 DEF CheckProcessed, TypeOK, OrderVars, cfgVars, wrkVars, idVars
    <2>2. LifeOK'
        BY <1>1, <1>6 DEF CheckProcessed, MainAt, LifeOK, OrderVars, cfgVars, wrkVars
    <2>3. EventsOK'
        BY <1>1, <1>6 DEF CheckProcessed, MainAt, EventsOK, OrderVars, wrkVars
    <2> QED BY <1>3, <1>4, <2>1, <2>2, <2>3
<1>7. CASE DrainEnds
    <2>1. TypeOK'
        BY <1>1, <1>7 DEF DrainEnds, TypeOK, OrderVars, cfgVars, wrkVars, idVars
    <2>2. LifeOK'
        BY <1>1, <1>7 DEF DrainEnds, MainAt, LifeOK, OrderVars, cfgVars, wrkVars
    <2>3. EventsOK'
        BY <1>1, <1>7 DEF DrainEnds, MainAt, EventsOK, OrderVars, wrkVars
    <2> QED BY <1>3, <1>4, <2>1, <2>2, <2>3
<1>8. CASE SessionEnds
    <2>1. TypeOK'
        BY <1>1, <1>8 DEF SessionEnds, TypeOK, OrderVars, cfgVars, wrkVars, idVars
    <2>2. LifeOK'
        BY <1>1, <1>8 DEF SessionEnds, MainAt, LifeOK, OrderVars, cfgVars, wrkVars
    <2>3. EventsOK'
        BY <1>1, <1>8 DEF SessionEnds, MainAt, EventsOK, OrderVars, wrkVars
    <2> QED BY <1>3, <1>4, <2>1, <2>2, <2>3
<1> QED BY <1>5, <1>6, <1>7, <1>8

LEMMA PaintDirectStep ==
    ASSUME EncInv, PaintDirect
    PROVE  EncInv'
<1> USE DEF EncInv
<1>1. /\ codec = "none" /\ codec' = "none" /\ rect_id' = rect_id + 1
      /\ rect_id_ack' = rect_id' /\ mpc = "loop"
      /\ UNCHANGED <<cfgVars, wrkVars, fifo_to_proc, fifo_processed, event_to_proc,
                     event_processed, encoder_term, g_term, frame_id_client, frame_id_server,
                     frame_id_server_sent, mpc, freed, toack, alive>>
    BY DEF PaintDirect, MainAt, ModSends, cfgVars
<1>2. ~alive /\ ~alive' /\ fifo_to_proc = <<>> /\ fifo_processed = <<>> /\ ~Encoding
    BY <1>1 DEF LifeOK, Encoding
<1>3. ~Encoding'
    BY <1>1, <1>2 DEF Encoding, wrkVars
<1>4. TypeOK'
    BY <1>1 DEF TypeOK, cfgVars, wrkVars
<1>5. LifeOK' /\ NotedAreFreed' /\ EventsOK' /\ WindowOK'
    BY <1>1, <1>2 DEF LifeOK, NotedAreFreed, EventsOK, WindowOK, cfgVars, wrkVars
<1>6. IdsKnown' /\ ToProcSorted' /\ ProcessedSorted' /\ FreedFirst'
    <2>1. 1 .. rect_id \subseteq 1 .. rect_id'
        BY <1>1 DEF TypeOK
    <2>2. fifo_to_proc' = <<>> /\ fifo_processed' = <<>> /\ freed' = freed
        BY <1>1, <1>2
    <2> QED BY <1>3, <2>1, <2>2
            DEF IdsKnown, ToProcSorted, ProcessedSorted, FreedFirst
<1> QED BY <1>4, <1>5, <1>6

LEMMA EncoderDeleteStep ==
    ASSUME EncInv, EncoderDelete
    PROVE  EncInv'
<1> USE DEF EncInv
<1>1. /\ mpc' = "gone" /\ ~alive' /\ alive' \in BOOLEAN
      /\ fifo_to_proc' = <<>> /\ fifo_processed' = <<>>
      /\ UNCHANGED <<cfgVars, wrkVars, event_to_proc, event_processed, encoder_term,
                     g_term, idVars, freed, rect_id, toack>>
    BY DEF EncoderDelete, MainAt
<1>2. (Encoding' <=> Encoding) /\ (ReadAll' <=> ReadAll)
    BY <1>1 DEF Encoding, ReadAll, wrkVars
<1>3. TypeOK'
    <2>1. <<>> \in Seq([id : Nat, n : Nat]) /\ <<>> \in Seq(Piece)
        OBVIOUS
    <2> QED BY <1>1, <2>1 DEF TypeOK, cfgVars, wrkVars, idVars
<1>4. LifeOK' /\ NotedAreFreed' /\ EventsOK' /\ WindowOK'
    BY <1>1 DEF LifeOK, NotedAreFreed, EventsOK, WindowOK, cfgVars, wrkVars, idVars
<1>5. IdsKnown' /\ ToProcSorted' /\ ProcessedSorted' /\ FreedFirst'
    BY <1>1, <1>2
       DEF IdsKnown, ToProcSorted, ProcessedSorted, FreedFirst, wrkVars
<1> QED BY <1>3, <1>4, <1>5

\* What an ack to the module changes, whoever triggers it.
LEMMA UpdateModuleFrameAckFacts ==
    ASSUME NEW c \in Nat, NEW s \in Nat, UpdateModuleFrameAck(c, s),
           frame_id_server_sent \in Nat, rect_id_ack \in Nat,
           rect_id_ack = frame_id_server_sent
    PROVE  /\ rect_id_ack' = frame_id_server_sent' /\ rect_id_ack' \in Nat
           /\ rect_id_ack' >= rect_id_ack
           /\ \/ rect_id_ack' = rect_id_ack
              \/ rect_id_ack' = s /\ c + frames_in_flight > s
    BY DEF UpdateModuleFrameAck

LEMMA FrameAckStep ==
    ASSUME EncInv, NEW id \in Int, FrameAck(id), toack' \subseteq toack
    PROVE  EncInv'
<1> USE DEF EncInv
<1>1. /\ mpc = "loop" /\ use_frame_acks /\ codec # "none"
      /\ UNCHANGED <<OrderVars, cfgVars, wrkVars, frame_id_server, event_to_proc,
                     event_processed, encoder_term, g_term, mpc, alive>>
    BY DEF FrameAck, MainAt, OrderVars, wrkVars
<1>2. /\ frame_id_client \in Nat /\ frame_id_server \in Nat
      /\ frame_id_server_sent \in Nat /\ rect_id_ack \in Nat /\ rect_id \in Nat
      /\ frames_in_flight \in Nat \ {0}
      /\ frame_id_client <= frame_id_server /\ rect_id_ack = frame_id_server_sent
    BY <1>1 DEF TypeOK, WindowOK
<1>3. /\ frame_id_client' \in Nat /\ frame_id_client' >= frame_id_client
      /\ frame_id_client' <= frame_id_server
    BY <1>2 DEF FrameAck
<1>4. UpdateModuleFrameAck(frame_id_client', frame_id_server)
    BY DEF FrameAck
<1>5. /\ rect_id_ack' = frame_id_server_sent' /\ rect_id_ack' \in Nat
      /\ rect_id_ack' >= rect_id_ack
      /\ \/ rect_id_ack' = rect_id_ack
         \/ /\ rect_id_ack' = frame_id_server
            /\ frame_id_client' + frames_in_flight > frame_id_server
    BY <1>2, <1>3, <1>4, UpdateModuleFrameAckFacts
<1>6. TypeOK'
    BY <1>1, <1>3, <1>5 DEF TypeOK, OrderVars, cfgVars, wrkVars
<1>7. LifeOK' /\ EventsOK'
    BY <1>1 DEF LifeOK, EventsOK, OrderVars, cfgVars, wrkVars
<1>8. (Encoding' <=> Encoding) /\ (ReadAll' <=> ReadAll)
    BY <1>1 DEF Encoding, ReadAll, wrkVars
<1>9. IdsKnown' /\ ToProcSorted' /\ ProcessedSorted' /\ FreedFirst'
    BY <1>1, <1>8, OrderKept
<1>10. NotedAreFreed'
    BY <1>1, <1>5 DEF NotedAreFreed, OrderVars, cfgVars
<1>11. WindowOK'
    <2>1. rect_id_ack' < frame_id_client' + frames_in_flight
        <3>1. rect_id_ack < frame_id_client + frames_in_flight
            BY <1>1 DEF WindowOK
        <3>2. /\ frames_in_flight \in Int /\ frame_id_client \in Int
              /\ rect_id_ack \in Int /\ frame_id_client' \in Int
              /\ frame_id_client <= frame_id_client'
            BY <1>2, <1>3
        <3>3. CASE rect_id_ack' = rect_id_ack
            BY <3>1, <3>2, <3>3, Farther
        <3>4. CASE rect_id_ack' # rect_id_ack
            BY <1>2, <1>3, <1>5, <3>2, <3>4
        <3> QED BY <3>3, <3>4
    <2>2. rect_id <= rect_id_ack' + Window
        <3>1. rect_id <= rect_id_ack + Window
            BY <1>1 DEF WindowOK
        <3>2. rect_id_ack <= rect_id_ack' /\ rect_id_ack' \in Int
            BY <1>5
        <3>3. rect_id \in Int /\ rect_id_ack \in Int /\ Window \in Int
            BY <1>2, WindowNat
        <3> QED BY <3>1, <3>2, <3>3, Farther
    <2> QED BY <1>1, <1>3, <1>5, <2>1, <2>2 DEF WindowOK, OrderVars, cfgVars
<1> QED BY <1>6, <1>7, <1>9, <1>10, <1>11

LEMMA ClientStep ==
    ASSUME EncInv, Client
    PROVE  EncInv'
<1>1. CASE ClientAcks
    <2>1. PICK id \in toack : FrameAck(id) /\ toack' = toack \ {id}
        BY <1>1 DEF ClientAcks
    <2>2. id \in Int
        BY <2>1 DEF EncInv, TypeOK
    <2> QED BY <2>1, <2>2, FrameAckStep
<1>2. CASE ClientAcksAll
    BY <1>2, FrameAckStep DEF ClientAcksAll
<1> QED BY <1>1, <1>2 DEF Client

\* A piece came back: what follows it is later, and a last piece is the end of its
\* frame, so the frame may be freed.
LEMMA ProcessEncDoneStep ==
    ASSUME EncInv, ProcessEncDone
    PROVE  EncInv'
<1> USE DEF EncInv
<1> DEFINE d == Head(fifo_processed)
           m == Len(fifo_processed)
<1>1. /\ mpc = "drain" /\ fifo_processed # <<>> /\ fifo_processed' = Tail(fifo_processed)
      /\ toack' = IF d.sent /\ use_frame_acks THEN toack \cup {d.id} ELSE toack
      /\ IF d.last THEN FrameDone(d) ELSE UNCHANGED <<freed, idVars>>
      /\ UNCHANGED <<cfgVars, wrkVars, fifo_to_proc, event_to_proc, event_processed,
                     encoder_term, g_term, mpc, rect_id, alive>>
    BY DEF ProcessEncDone, MainAt
<1>2. /\ fifo_processed \in Seq(Piece) /\ m \in Nat \ {0} /\ d \in Piece
      /\ d = fifo_processed[1] /\ fifo_processed' \in Seq(Piece)
      /\ Len(fifo_processed') = m - 1
      /\ \A i \in 1 .. m - 1 : fifo_processed'[i] = fifo_processed[i + 1]
    BY <1>1, HeadTailProperties DEF TypeOK
<1> HIDE DEF d, m
<1>3. d.id \in 1 .. rect_id /\ rect_id \in Nat /\ d.last \in BOOLEAN
    BY <1>2 DEF IdsKnown, TypeOK, Piece, m
<1>4. (Encoding' <=> Encoding) /\ (ReadAll' <=> ReadAll)
    BY <1>1 DEF Encoding, ReadAll, wrkVars
<1>5. codec # "none" /\ alive
    BY <1>1 DEF LifeOK
<1>6. \A i \in 1 .. m - 1 : i \in 1 .. m /\ i + 1 \in 1 .. m /\ 1 < i + 1 /\ 1 \in 1 .. m
    BY <1>2
<1>7. freed' = freed \/ (d.last /\ freed' = freed \cup {d.id})
    BY <1>1, <1>3 DEF FrameDone
<1>8. IdsKnown'
    <2>1. \A i \in 1 .. m - 1 : fifo_processed'[i].id \in 1 .. rect_id
        BY <1>2, <1>6 DEF IdsKnown, m
    <2> QED BY <1>1, <1>2, <1>3, <1>4, <1>7, <2>1 DEF IdsKnown, wrkVars
<1>9. ToProcSorted'
    BY <1>1, <1>4 DEF ToProcSorted, wrkVars
<1>10. ProcessedSorted'
    <2>1. ASSUME NEW i \in 1 .. m - 1
          PROVE  /\ \A j \in 1 .. m - 1 : i < j =>
                       /\ fifo_processed'[i].id <= fifo_processed'[j].id
                       /\ fifo_processed'[i].last =>
                             fifo_processed'[i].id < fifo_processed'[j].id
                 /\ Encoding => /\ fifo_processed'[i].id <= enc.id
                                /\ fifo_processed'[i].last =>
                                      fifo_processed'[i].id < enc.id \/ ReadAll
                 /\ \A j \in 1 .. Len(fifo_to_proc) :
                       fifo_processed'[i].id < fifo_to_proc[j].id
        <3>1. i + 1 \in 1 .. m /\ fifo_processed'[i] = fifo_processed[i + 1]
            BY <1>2, <1>6
        <3>2. ASSUME NEW j \in 1 .. m - 1, i < j
              PROVE  /\ fifo_processed'[i].id <= fifo_processed'[j].id
                     /\ fifo_processed'[i].last =>
                           fifo_processed'[i].id < fifo_processed'[j].id
            <4>1. j + 1 \in 1 .. m /\ i + 1 < j + 1
                BY <1>2, <3>2
            <4>2. fifo_processed'[j] = fifo_processed[j + 1]
                BY <1>2
            <4> QED BY <3>1, <4>1, <4>2 DEF ProcessedSorted, m
        <3> QED BY <3>1, <3>2 DEF ProcessedSorted, m
    <2> QED BY <1>1, <1>2, <1>4, <2>1 DEF ProcessedSorted, wrkVars
<1>11. FreedFirst'
    <2>1. ASSUME NEW f \in freed
          PROVE  /\ \A i \in 1 .. m - 1 : f < fifo_processed'[i].id
                 /\ Encoding => f < enc.id \/ (f = enc.id /\ ReadAll)
                 /\ \A j \in 1 .. Len(fifo_to_proc) : f < fifo_to_proc[j].id
        BY <1>2, <1>6 DEF FreedFirst, m
    <2>2. ASSUME d.last
          PROVE  /\ \A i \in 1 .. m - 1 : d.id < fifo_processed'[i].id
                 /\ Encoding => d.id < enc.id \/ (d.id = enc.id /\ ReadAll)
                 /\ \A j \in 1 .. Len(fifo_to_proc) : d.id < fifo_to_proc[j].id
        <3>1. \A i \in 1 .. m - 1 : d.id < fifo_processed'[i].id
            BY <1>2, <1>6, <2>2 DEF ProcessedSorted, m
        <3>2. 1 \in 1 .. m
            BY <1>2
        <3>3. ASSUME Encoding PROVE d.id < enc.id \/ (d.id = enc.id /\ ReadAll)
            <4>1. d.id <= enc.id /\ (d.id < enc.id \/ ReadAll)
                BY <1>2, <2>2, <3>2, <3>3 DEF ProcessedSorted, m
            <4>2. enc.id \in Int /\ d.id \in Int
                BY <1>3 DEF TypeOK
            <4> QED BY <4>1, <4>2
        <3> QED BY <1>2, <3>1, <3>2, <3>3 DEF ProcessedSorted, m
    <2> QED BY <1>1, <1>2, <1>4, <1>7, <2>1, <2>2 DEF FreedFirst, wrkVars
<1>12. CASE d.last
    <2>1. /\ freed' = freed \cup {d.id} /\ frame_id_client' = frame_id_client
          /\ \/ /\ use_frame_acks /\ frame_id_server' = d.id
                /\ UpdateModuleFrameAck(frame_id_client, d.id)
             \/ /\ ~use_frame_acks /\ rect_id_ack' = d.id
                /\ UNCHANGED <<frame_id_server, frame_id_server_sent>>
        BY <1>1, <1>12 DEF FrameDone, TypeOK
    <2>2. /\ frame_id_client \in Nat /\ frame_id_server \in Nat
          /\ frame_id_server_sent \in Nat /\ rect_id_ack \in Nat /\ d.id \in Nat
          /\ frames_in_flight \in Nat \ {0}
        BY <1>3 DEF TypeOK
    <2>3. CASE use_frame_acks
        <3>1. /\ frame_id_client <= frame_id_server /\ rect_id_ack = frame_id_server_sent
              /\ rect_id_ack < frame_id_client + frames_in_flight
              /\ rect_id <= rect_id_ack + Window
              /\ \A i \in toack : i <= rect_id
            BY <1>5, <2>3 DEF WindowOK
        <3>2. /\ rect_id_ack' = frame_id_server_sent' /\ rect_id_ack' \in Nat
              /\ rect_id_ack' >= rect_id_ack
              /\ \/ rect_id_ack' = rect_id_ack
                 \/ rect_id_ack' = d.id /\ frame_id_client + frames_in_flight > d.id
            BY <2>1, <2>2, <2>3, <3>1, UpdateModuleFrameAckFacts
        <3>3. frame_id_server < d.id
            BY <1>2, <1>3, <1>5, <1>6 DEF NotedAreFreed, FreedFirst, m
        <3>4. WindowOK'
            <4>1. rect_id_ack' < frame_id_client + frames_in_flight
                BY <2>2, <3>1, <3>2
            <4>2. rect_id <= rect_id_ack' + Window
                <5>1. rect_id_ack <= rect_id_ack' /\ rect_id_ack' \in Int
                    BY <3>2
                <5>2. rect_id \in Int /\ rect_id_ack \in Int /\ Window \in Int
                    BY <1>3, <2>2, WindowNat
                <5>3. rect_id <= rect_id_ack + Window
                    BY <3>1
                <5> QED BY <5>1, <5>2, <5>3, Farther
            <4>3. \A i \in toack' : i <= rect_id
                BY <1>1, <1>3, <3>1
            <4>4. frame_id_client <= d.id
                BY <2>2, <3>1, <3>3
            <4>5. frame_id_server' = d.id /\ frame_id_client' = frame_id_client
                BY <2>1, <2>3
            <4> QED BY <1>1, <3>2, <4>1, <4>2, <4>3, <4>4, <4>5 DEF WindowOK, cfgVars
        <3>5. TypeOK'
            BY <1>1, <1>2, <2>1, <2>2, <2>3, <3>2 DEF TypeOK, cfgVars, wrkVars
        <3> QED BY <2>1, <2>3, <3>2, <3>4, <3>5, <1>1, <1>8, <1>9, <1>10, <1>11, <1>5
                DEF NotedAreFreed, LifeOK, EventsOK, cfgVars, wrkVars
    <2>4. CASE ~use_frame_acks
        <3>1. TypeOK'
            BY <1>1, <1>2, <2>1, <2>2, <2>4 DEF TypeOK, cfgVars, wrkVars
        <3>2. LifeOK'
            BY <1>1, <1>5, <2>4 DEF LifeOK, cfgVars, wrkVars
        <3>3. NotedAreFreed' /\ EventsOK' /\ WindowOK'
            BY <1>1, <2>1, <2>4 DEF NotedAreFreed, EventsOK, WindowOK, cfgVars, wrkVars
        <3> QED BY <1>8, <1>9, <1>10, <1>11, <3>1, <3>2, <3>3
    <2> QED BY <2>3, <2>4
<1>13. CASE ~d.last
    <2>1. UNCHANGED <<freed, idVars>>
        BY <1>1, <1>13
    <2>2. TypeOK'
        <3>1. toack' = toack \/ toack' = toack \cup {d.id}
            BY <1>1
        <3>2. toack' \subseteq Nat
            <4>1. d.id \in Nat
                BY <1>3
            <4> QED BY <3>1, <4>1 DEF TypeOK
        <3> QED BY <1>1, <1>2, <2>1, <3>2 DEF TypeOK, cfgVars, wrkVars, idVars
    <2>3. LifeOK' /\ NotedAreFreed' /\ EventsOK'
        BY <1>1, <1>5, <2>1 DEF LifeOK, NotedAreFreed, EventsOK, cfgVars, wrkVars, idVars
    <2>4. WindowOK'
        BY <1>1, <1>3, <2>1 DEF WindowOK, cfgVars, idVars
    <2> QED BY <1>8, <1>9, <1>10, <1>11, <2>2, <2>3, <2>4
<1> QED BY <1>12, <1>13

\* The encoder thread writes none of what the main thread notes.
MainVars == <<cfgVars, encoder_term, g_term, idVars, mpc, freed, rect_id, toack, alive>>

LEMMA MainKept ==
    ASSUME NotedAreFreed, WindowOK, UNCHANGED MainVars
    PROVE  NotedAreFreed' /\ WindowOK'
    BY DEF NotedAreFreed, WindowOK, MainVars, cfgVars, idVars

\* The thread leaves its frame, or had none.
LEMMA WorkerIdleStep ==
    ASSUME EncInv, WorkerTerm \/ WorkerWakes \/ JpgEnds \/ EncodeH264
    PROVE  EncInv'
<1> USE DEF EncInv
<1>1. /\ UNCHANGED <<MainVars, OrderVars, index, event_processed>>
      /\ wpc \in {"wait", "jpg", "h264"} /\ wpc' \in {"exit", "get"}
      /\ event_to_proc' \in {event_to_proc, FALSE} /\ alive
    BY DEF WorkerTerm, WorkerWakes, JpgEnds, EncodeH264, WorkerAt, MainVars, OrderVars
<1>2. ~Encoding'
    BY <1>1 DEF Encoding
<1>3. IdsKnown' /\ ToProcSorted' /\ ProcessedSorted' /\ FreedFirst'
    BY <1>1, <1>2, OrderKept
<1>4. NotedAreFreed' /\ WindowOK'
    BY <1>1, MainKept
<1>5. TypeOK'
    <2>1. event_to_proc' \in BOOLEAN
        BY <1>1 DEF TypeOK
    <2> QED BY <1>1, <2>1 DEF TypeOK, MainVars, OrderVars, cfgVars, idVars
<1>6. LifeOK'
    BY <1>1 DEF LifeOK, MainVars, OrderVars, cfgVars
<1>7. EventsOK'
    BY <1>1 DEF EventsOK, MainVars, OrderVars
<1> QED BY <1>3, <1>4, <1>5, <1>6, <1>7

LEMMA WorkerSignalsStep ==
    ASSUME EncInv, WorkerSignals
    PROVE  EncInv'
<1> USE DEF EncInv
<1>1. /\ UNCHANGED <<MainVars, OrderVars, index, event_to_proc>>
      /\ wpc \in {"jpgset", "rfxset"} /\ event_processed' = TRUE /\ alive
      /\ wpc' = IF wpc = "jpgset" THEN "jpg" ELSE "get"
    BY DEF WorkerSignals, WorkerAt, MainVars, OrderVars
<1>2. (Encoding' => Encoding) /\ (ReadAll => ReadAll' \/ ~Encoding')
    BY <1>1 DEF Encoding, ReadAll, OrderVars
<1>3. IdsKnown' /\ ToProcSorted' /\ ProcessedSorted' /\ FreedFirst'
    BY <1>1, <1>2, OrderKept
<1>4. NotedAreFreed' /\ WindowOK'
    BY <1>1, MainKept
<1>5. TypeOK'
    BY <1>1 DEF TypeOK, MainVars, OrderVars, cfgVars, idVars
<1>6. LifeOK'
    BY <1>1 DEF LifeOK, MainVars, OrderVars, cfgVars
<1>7. EventsOK'
    BY <1>1 DEF EventsOK, MainVars, OrderVars
<1> QED BY <1>3, <1>4, <1>5, <1>6, <1>7

\* The next frame is the earliest that waits, and none of it was read yet.
LEMMA WorkerGetsStep ==
    ASSUME EncInv, WorkerGets
    PROVE  EncInv'
<1> USE DEF EncInv
<1>1. /\ UNCHANGED <<MainVars, fifo_processed, event_to_proc, event_processed>>
      /\ wpc = "get" /\ alive /\ index' = 0
    BY DEF WorkerGets, WorkerAt, MainVars
<1>2. NotedAreFreed' /\ WindowOK'
    BY <1>1, MainKept
<1>3. CASE fifo_to_proc = <<>>
    <2>1. wpc' = "wait" /\ enc' = None /\ fifo_to_proc' = fifo_to_proc
        BY <1>3 DEF WorkerGets
    <2>2. ~Encoding'
        BY <2>1 DEF Encoding
    <2>3. IdsKnown' /\ ToProcSorted' /\ ProcessedSorted' /\ FreedFirst'
        BY <1>1, <2>1, <2>2
           DEF IdsKnown, ToProcSorted, ProcessedSorted, FreedFirst, MainVars
    <2>4. TypeOK'
        BY <1>1, <2>1 DEF TypeOK, None, MainVars, cfgVars, idVars
    <2>5. LifeOK'
        BY <1>1, <2>1 DEF LifeOK, MainVars, cfgVars
    <2>6. EventsOK'
        BY <1>1, <1>3, <2>1 DEF EventsOK, MainVars
    <2> QED BY <1>2, <2>3, <2>4, <2>5, <2>6
<1>4. CASE fifo_to_proc # <<>>
    <2> DEFINE k == Len(fifo_to_proc)
    <2>1. enc' = Head(fifo_to_proc) /\ fifo_to_proc' = Tail(fifo_to_proc) /\ wpc' = codec
        BY <1>4 DEF WorkerGets
    <2>2. fifo_to_proc \in Seq(Frame) /\ k \in Nat \ {0}
        BY <1>4 DEF TypeOK, Frame
    <2>3. /\ enc' = fifo_to_proc[1] /\ enc' \in Frame
          /\ fifo_to_proc' \in Seq(Frame) /\ Len(fifo_to_proc') = k - 1
          /\ \A i \in 1 .. k - 1 : fifo_to_proc'[i] = fifo_to_proc[i + 1]
        BY <1>4, <2>1, <2>2, HeadTailProperties
    <2> HIDE DEF k
    <2>4. codec \in Codecs /\ ~Encoding
        BY <1>1 DEF TypeOK, LifeOK, Encoding
    <2>5. Encoding' /\ codec' = codec
        BY <1>1, <2>1, <2>4 DEF Encoding, Codecs, MainVars, cfgVars
    <2>6. /\ 1 \in 1 .. k
          /\ \A i \in 1 .. k - 1 : i + 1 \in 1 .. k /\ 1 < i + 1
          /\ \A i, j \in 1 .. k - 1 : i < j => i + 1 < j + 1
        BY <2>2
    <2>7. IdsKnown'
        BY <1>1, <2>3, <2>6 DEF IdsKnown, MainVars, k
    <2>8. ToProcSorted'
        <3>1. ASSUME NEW i \in 1 .. k - 1
              PROVE  /\ enc'.id < fifo_to_proc'[i].id
                     /\ \A j \in 1 .. k - 1 :
                           i < j => fifo_to_proc'[i].id < fifo_to_proc'[j].id
            BY <2>3, <2>6 DEF ToProcSorted, k
        <3> QED BY <2>3, <3>1 DEF ToProcSorted
    <2>9. ProcessedSorted'
        <3>1. ASSUME NEW i \in 1 .. Len(fifo_processed)
              PROVE  /\ fifo_processed[i].id < enc'.id /\ fifo_processed[i].id <= enc'.id
                     /\ \A j \in 1 .. k - 1 : fifo_processed[i].id < fifo_to_proc'[j].id
            <4>1. fifo_processed[i].id < enc'.id
                BY <2>3, <2>6 DEF ProcessedSorted, k
            <4>2. fifo_processed[i].id \in Int /\ enc'.id \in Int
                <5>1. fifo_processed[i] \in Piece
                    BY DEF TypeOK
                <5> QED BY <2>3, <5>1 DEF Piece, Frame
            <4>3. \A j \in 1 .. k - 1 : fifo_processed[i].id < fifo_to_proc'[j].id
                BY <2>3, <2>6 DEF ProcessedSorted, k
            <4> QED BY <4>1, <4>2, <4>3
        <3> QED BY <1>1, <2>3, <3>1 DEF ProcessedSorted
    <2>10. FreedFirst'
        <3>1. ASSUME NEW f \in freed
              PROVE  /\ f < enc'.id
                     /\ \A j \in 1 .. k - 1 : f < fifo_to_proc'[j].id
            BY <2>3, <2>6 DEF FreedFirst, k
        <3> QED BY <1>1, <2>3, <3>1 DEF FreedFirst, MainVars
    <2>11. TypeOK'
        BY <1>1, <2>1, <2>3, <2>4 DEF TypeOK, Frame, Codecs, MainVars, cfgVars, idVars
    <2>12. LifeOK'
        BY <1>1, <2>1, <2>4 DEF LifeOK, Codecs, MainVars, cfgVars
    <2>13. EventsOK'
        BY <1>1, <2>1, <2>4 DEF EventsOK, Codecs, MainVars
    <2> QED BY <1>2, <2>7, <2>8, <2>9, <2>10, <2>11, <2>12, <2>13
<1> QED BY <1>3, <1>4

\* A piece of the frame that is being read goes behind the pieces that are back.
LEMMA SendBackKeeps ==
    ASSUME EncInv, Reading, Encoding', NEW last \in BOOLEAN, NEW sent \in BOOLEAN,
           SendBack(last, sent), last => ReadAll',
           UNCHANGED <<MainVars, fifo_to_proc, enc>>
    PROVE  /\ IdsKnown' /\ ToProcSorted' /\ ProcessedSorted' /\ FreedFirst'
           /\ fifo_processed' \in Seq(Piece)
<1> USE DEF EncInv
<1> DEFINE d == [id |-> enc.id, last |-> last, sent |-> sent]
           m == Len(fifo_processed)
<1>1. d \in Piece /\ d.id = enc.id /\ d.last = last
    BY DEF TypeOK, Piece
<1>2. fifo_processed' = Append(fifo_processed, d) /\ fifo_processed \in Seq(Piece)
    BY DEF SendBack, TypeOK
<1> HIDE DEF d
<1>3. /\ fifo_processed' \in Seq(Piece) /\ Len(fifo_processed') = m + 1 /\ m \in Nat
      /\ \A i \in 1 .. m : fifo_processed'[i] = fifo_processed[i]
      /\ fifo_processed'[m + 1] = d
    BY <1>1, <1>2, AppendProperties
<1> HIDE DEF m
<1>4. Encoding /\ ~ReadAll
    BY DEF Reading, Encoding, ReadAll, TypeOK
<1>5. \A i \in 1 .. m + 1 : i \in 1 .. m \/ i = m + 1
    BY <1>3
<1>6. \A i \in 1 .. m : fifo_processed[i].last => fifo_processed[i].id < enc.id
    BY <1>4 DEF ProcessedSorted, m
<1>7. IdsKnown'
    BY <1>1, <1>3, <1>4, <1>5 DEF IdsKnown, MainVars, m
<1>8. ToProcSorted'
    BY <1>4 DEF ToProcSorted
<1>9. ProcessedSorted'
    <2>1. ASSUME NEW i \in 1 .. m + 1, NEW j \in 1 .. m + 1, i < j
          PROVE  /\ fifo_processed'[i].id <= fifo_processed'[j].id
                 /\ fifo_processed'[i].last => fifo_processed'[i].id < fifo_processed'[j].id
        <3>1. i \in 1 .. m
            BY <1>3, <2>1
        <3>2. CASE j \in 1 .. m
            BY <1>3, <2>1, <3>1, <3>2 DEF ProcessedSorted, m
        <3>3. CASE j = m + 1
            BY <1>1, <1>3, <1>4, <1>6, <3>1, <3>3 DEF ProcessedSorted, m
        <3> QED BY <1>5, <3>2, <3>3
    <2>2. ASSUME NEW i \in 1 .. m + 1
          PROVE  /\ fifo_processed'[i].id <= enc.id
                 /\ fifo_processed'[i].last => fifo_processed'[i].id < enc.id \/ ReadAll'
                 /\ \A j \in 1 .. Len(fifo_to_proc) : fifo_processed'[i].id < fifo_to_proc[j].id
        <3>1. CASE i \in 1 .. m
            BY <1>3, <1>4, <1>6, <3>1 DEF ProcessedSorted, m
        <3>2. CASE i = m + 1
            <4>1. enc.id \in Int
                BY DEF TypeOK
            <4> QED BY <1>1, <1>3, <1>4, <3>2, <4>1 DEF ToProcSorted
        <3> QED BY <1>5, <3>1, <3>2
    <2> QED BY <1>3, <2>1, <2>2 DEF ProcessedSorted
<1>10. FreedFirst'
    <2>1. ASSUME NEW f \in freed
          PROVE  f < enc.id /\ \A i \in 1 .. m + 1 : f < fifo_processed'[i].id
        BY <1>1, <1>3, <1>4, <1>5 DEF FreedFirst, m
    <2> QED BY <1>3, <1>4, <2>1 DEF FreedFirst, MainVars
<1> QED BY <1>3, <1>7, <1>8, <1>9, <1>10

LEMMA EncodeJpgStep ==
    ASSUME EncInv, EncodeJpg
    PROVE  EncInv'
<1> USE DEF EncInv
<1>1. /\ UNCHANGED <<MainVars, fifo_to_proc, event_to_proc, event_processed, enc>>
      /\ wpc = "jpg" /\ index < enc.n /\ alive /\ codec = "jpg" /\ codec' = codec
    BY DEF EncodeJpg, WorkerAt, MainVars, cfgVars, LifeOK
<1>2. NotedAreFreed' /\ WindowOK'
    BY <1>1, MainKept
<1>3. index \in Nat /\ enc.n \in Nat /\ Encoding /\ Reading
    BY <1>1 DEF TypeOK, Encoding, Reading
<1>4. CASE /\ SendBack(index = enc.n - 1, TRUE) /\ wpc' = "jpgset" /\ index' = index + 1
    <2>1. Encoding' /\ (index = enc.n - 1 => ReadAll')
        BY <1>1, <1>3, <1>4 DEF Encoding, ReadAll
    <2>2. /\ IdsKnown' /\ ToProcSorted' /\ ProcessedSorted' /\ FreedFirst'
          /\ fifo_processed' \in Seq(Piece)
        BY <1>1, <1>3, <1>4, <2>1, SendBackKeeps
    <2>3. TypeOK'
        BY <1>1, <1>3, <1>4, <2>2 DEF TypeOK, MainVars, cfgVars, idVars
    <2>4. LifeOK'
        BY <1>1, <1>4 DEF LifeOK, MainVars, cfgVars
    <2>5. EventsOK'
        BY <1>1, <1>4 DEF EventsOK, MainVars
    <2> QED BY <1>2, <2>2, <2>3, <2>4, <2>5
<1>5. CASE /\ UNCHANGED fifo_processed
           /\ \/ index' = index + 1 /\ wpc' = wpc
              \/ index' = index /\ wpc' = "get"
    <2>1. (Encoding' => Encoding) /\ (ReadAll => ReadAll' \/ ~Encoding')
        BY <1>1, <1>3 DEF Encoding, ReadAll
    <2>2. IdsKnown' /\ ToProcSorted' /\ ProcessedSorted' /\ FreedFirst'
        BY <1>1, <1>5, <2>1, OrderKept DEF OrderVars, MainVars
    <2>3. TypeOK'
        BY <1>1, <1>3, <1>5 DEF TypeOK, MainVars, cfgVars, idVars
    <2>4. LifeOK'
        BY <1>1, <1>5 DEF LifeOK, MainVars, cfgVars
    <2>5. EventsOK'
        BY <1>1, <1>5 DEF EventsOK, MainVars
    <2> QED BY <1>2, <2>2, <2>3, <2>4, <2>5
<1> QED BY <1>4, <1>5 DEF EncodeJpg

LEMMA EncodeRfxStep ==
    ASSUME EncInv, EncodeRfx
    PROVE  EncInv'
<1> USE DEF EncInv
<1>1. /\ UNCHANGED <<MainVars, fifo_to_proc, event_to_proc, event_processed, enc, index>>
      /\ wpc = "rfx" /\ wpc' = "rfxset" /\ alive /\ codec = "rfx" /\ codec' = codec
    BY DEF EncodeRfx, WorkerAt, MainVars, cfgVars, LifeOK
<1>2. PICK ok \in BOOLEAN : SendBack(TRUE, ok)
    BY DEF EncodeRfx
<1>3. NotedAreFreed' /\ WindowOK'
    BY <1>1, MainKept
<1>4. Reading /\ Encoding' /\ ReadAll'
    BY <1>1 DEF Reading, Encoding, ReadAll
<1>5. /\ IdsKnown' /\ ToProcSorted' /\ ProcessedSorted' /\ FreedFirst'
      /\ fifo_processed' \in Seq(Piece)
    BY <1>1, <1>2, <1>4, SendBackKeeps
<1>6. TypeOK'
    BY <1>1, <1>5 DEF TypeOK, MainVars, cfgVars, idVars
<1>7. LifeOK'
    BY <1>1 DEF LifeOK, MainVars, cfgVars
<1>8. EventsOK'
    BY <1>1 DEF EventsOK, MainVars
<1> QED BY <1>3, <1>5, <1>6, <1>7, <1>8

-----------------------------------------------------------------------------
(* The theorems. *)

\* No step breaks the invariant.
LEMMA NextKeeps ==
    ASSUME EncInv, [Next]_vars
    PROVE  EncInv'
<1>1. CASE Main
    BY <1>1, PaintRectsStep, MainStep, PaintDirectStep, ProcessEncDoneStep,
       EncoderDeleteStep DEF Main
<1>2. CASE Client
    BY <1>2, ClientStep
<1>3. CASE Worker
    BY <1>3, WorkerIdleStep, WorkerGetsStep, EncodeJpgStep, EncodeRfxStep,
       WorkerSignalsStep DEF Worker
<1>4. CASE UNCHANGED vars
    BY <1>4 DEF EncInv, TypeOK, LifeOK, IdsKnown, ToProcSorted, ProcessedSorted,
       FreedFirst, NotedAreFreed, EventsOK, WindowOK, Encoding, ReadAll,
       vars, cfgVars, idVars, wrkVars
<1>5. CASE SignalTerm
    BY <1>5, SignalTermStep
<1> QED BY <1>1, <1>2, <1>3, <1>4, <1>5 DEF Next, Stopped

\* The inductive invariant of the codec pipeline.
THEOREM EncInvHolds ==
    Spec => []EncInv
<1>1. Init => EncInv
    BY InitHolds
<1>2. EncInv /\ [Next]_vars => EncInv'
    BY NextKeeps
<1> QED BY <1>1, <1>2, PTL DEF Spec

\* The queues, events and frame ids shared by xrdp_mm.c and proc_enc_msg keep
\* their types.
THEOREM EncoderTypeOK ==
    Spec => []TypeOK
<1>1. EncInv => TypeOK
    BY DEF EncInv
<1> QED BY <1>1, EncInvHolds, PTL

\* xrdp_mm_process_enc_done frees no frame that process_enc still reads.
THEOREM NoFreedFrameEncodedHolds ==
    Spec => []NoFreedFrameEncoded
<1>1. EncInv => NoFreedFrameEncoded
    <2> SUFFICES ASSUME EncInv, Reading PROVE enc.id \notin freed
        BY DEF NoFreedFrameEncoded, Reading
    <2>1. Encoding /\ ~ReadAll
        BY DEF EncInv, Reading, Encoding, ReadAll, TypeOK
    <2>2. enc.id \in Nat
        BY DEF EncInv, TypeOK
    <2> QED BY <2>1, <2>2 DEF EncInv, FreedFirst
<1> QED BY <1>1, EncInvHolds, PTL

\* Neither thread sleeps on work it was not woken for.
THEOREM NoLostWakeupHolds ==
    Spec => []NoLostWakeup
<1>1. EncInv => NoLostWakeup
    BY DEF EncInv, EventsOK, NoLostWakeup
<1> QED BY <1>1, EncInvHolds, PTL

\* The module may reuse the pixels of a frame only when all of them were read.
THEOREM AckedPixelsAreDoneHolds ==
    Spec => []AckedPixelsAreDone
<1>1. EncInv => AckedPixelsAreDone
    <2> SUFFICES ASSUME EncInv, alive
                 PROVE  /\ \A i \in DOMAIN fifo_to_proc : fifo_to_proc[i].id > rect_id_ack
                        /\ Reading => enc.id > rect_id_ack
        BY DEF AckedPixelsAreDone, Reading
    <2>1. rect_id_ack \in freed \/ rect_id_ack = 0
        BY DEF EncInv, LifeOK, NotedAreFreed
    <2>2. ASSUME NEW i \in 1 .. Len(fifo_to_proc)
          PROVE  fifo_to_proc[i].id > rect_id_ack
        BY <2>1 DEF EncInv, IdsKnown, FreedFirst, TypeOK
    <2>3. ASSUME Reading PROVE enc.id > rect_id_ack
        <3>1. Encoding /\ ~ReadAll
            BY <2>3 DEF EncInv, Reading, Encoding, ReadAll, TypeOK
        <3> QED BY <2>1, <3>1 DEF EncInv, IdsKnown, FreedFirst, TypeOK
    <2>4. DOMAIN fifo_to_proc = 1 .. Len(fifo_to_proc)
        BY DEF EncInv, TypeOK
    <2> QED BY <2>2, <2>3, <2>4
<1> QED BY <1>1, EncInvHolds, PTL

\* Sequences of frame ids that do not fall, and one that is nowhere above another.
Sorted(s) == \A i, j \in 1 .. Len(s) : i < j => s[i] <= s[j]
Below(s, t) == \A i \in 1 .. Len(s), j \in 1 .. Len(t) : s[i] <= t[j]

LEMMA SortedConcat ==
    ASSUME NEW s \in Seq(Int), NEW t \in Seq(Int), Sorted(s), Sorted(t), Below(s, t)
    PROVE  /\ s \o t \in Seq(Int) /\ Sorted(s \o t)
           /\ \A u \in Seq(Int) : Below(s, u) /\ Below(t, u) => Below(s \o t, u)
<1> DEFINE m == Len(s)
           n == Len(t)
           c == s \o t
<1>1. /\ c \in Seq(Int) /\ Len(c) = m + n /\ m \in Nat /\ n \in Nat
      /\ \A i \in 1 .. m + n : c[i] = IF i <= m THEN s[i] ELSE t[i - m]
    BY ConcatProperties
<1> HIDE DEF m, n, c
<1>2. \A i \in 1 .. m + n : IF i <= m THEN i \in 1 .. m ELSE i - m \in 1 .. n
    BY <1>1
<1>3. Sorted(c)
    <2> SUFFICES ASSUME NEW i \in 1 .. m + n, NEW j \in 1 .. m + n, i < j
                 PROVE  c[i] <= c[j]
        BY <1>1 DEF Sorted
    <2>1. CASE j <= m
        <3>1. i <= m /\ i \in 1 .. m /\ j \in 1 .. m
            BY <1>1, <2>1
        <3> QED BY <1>1, <2>1, <3>1 DEF Sorted, m
    <2>2. CASE i <= m /\ ~(j <= m)
        BY <1>1, <1>2, <2>2 DEF Below, m, n
    <2>3. CASE ~(i <= m)
        <3>1. ~(j <= m) /\ i - m < j - m /\ i - m \in 1 .. n /\ j - m \in 1 .. n
            BY <1>1, <2>3
        <3> QED BY <1>1, <2>3, <3>1 DEF Sorted, n
    <2> QED BY <2>1, <2>2, <2>3
<1>4. ASSUME NEW u \in Seq(Int), Below(s, u), Below(t, u)
      PROVE  Below(c, u)
    <2> SUFFICES ASSUME NEW i \in 1 .. m + n, NEW j \in 1 .. Len(u)
                 PROVE  c[i] <= u[j]
        BY <1>1 DEF Below
    <2> QED BY <1>1, <1>2, <1>4 DEF Below, m, n
<1> QED BY <1>1, <1>3, <1>4 DEF c

\* The order of the module survives both fifos and the encoder thread.
THEOREM FramesInOrderHolds ==
    Spec => []FramesInOrder
<1>1. EncInv => FramesInOrder
    <2> SUFFICES ASSUME EncInv, alive
                 PROVE  FramesInOrder
        BY DEF FramesInOrder
    <2> DEFINE ids(q) == [i \in DOMAIN q |-> q[i].id]
               s1 == <<frame_id_server>>
               s2 == ids(fifo_processed)
               s3 == IF Encoding THEN <<enc.id>> ELSE <<>>
               s4 == ids(fifo_to_proc)
               all == s1 \o s2 \o s3 \o s4
    <2>1. /\ frame_id_server \in Int /\ enc.id \in Int
          /\ frame_id_server \in freed \/ frame_id_server = 0
        BY DEF EncInv, TypeOK, LifeOK, NotedAreFreed
    <2>2. s1 \in Seq(Int) /\ Len(s1) = 1 /\ s1[1] = frame_id_server
        BY <2>1
    <2>3. /\ s2 \in Seq(Int) /\ Len(s2) = Len(fifo_processed)
          /\ \A x \in 1 .. Len(s2) : s2[x] = fifo_processed[x].id /\ s2[x] \in 1 .. rect_id
        <3>1. /\ \A x \in 1 .. Len(fifo_processed) : fifo_processed[x].id \in Int
              /\ DOMAIN fifo_processed = 1 .. Len(fifo_processed)
              /\ Len(fifo_processed) \in Nat
            BY DEF EncInv, IdsKnown, TypeOK
        <3> QED BY <3>1 DEF EncInv, IdsKnown
    <2>4. /\ s4 \in Seq(Int) /\ Len(s4) = Len(fifo_to_proc)
          /\ \A x \in 1 .. Len(s4) : s4[x] = fifo_to_proc[x].id /\ s4[x] \in 1 .. rect_id
        <3>1. /\ \A x \in 1 .. Len(fifo_to_proc) : fifo_to_proc[x].id \in Int
              /\ DOMAIN fifo_to_proc = 1 .. Len(fifo_to_proc)
              /\ Len(fifo_to_proc) \in Nat
            BY DEF EncInv, IdsKnown, TypeOK
        <3> QED BY <3>1 DEF EncInv, IdsKnown
    <2>5. /\ s3 \in Seq(Int) /\ Len(s3) \in {0, 1}
          /\ \A x \in 1 .. Len(s3) : Encoding /\ x = 1 /\ s3[x] = enc.id
        BY <2>1
    <2> HIDE DEF s1, s2, s3, s4
    <2>6. Sorted(s1) /\ Sorted(s2) /\ Sorted(s3) /\ Sorted(s4)
        <3>1. Sorted(s1) /\ Sorted(s3)
            BY <2>2, <2>5 DEF Sorted
        <3>2. Sorted(s2)
            BY <2>3 DEF Sorted, EncInv, ProcessedSorted
        <3>3. Sorted(s4)
            <4> SUFFICES ASSUME NEW i \in 1 .. Len(s4), NEW j \in 1 .. Len(s4), i < j
                         PROVE  s4[i] <= s4[j]
                BY DEF Sorted
            <4>1. s4[i] < s4[j]
                BY <2>4 DEF EncInv, ToProcSorted
            <4>2. s4[i] \in Int /\ s4[j] \in Int
                BY <2>4
            <4> QED BY <4>1, <4>2
        <3> QED BY <3>1, <3>2, <3>3
    <2>7. Below(s1, s2) /\ Below(s1, s3) /\ Below(s1, s4)
        <3>1. frame_id_server = 0 \/ frame_id_server \in freed
            BY <2>1
        <3>2. Below(s1, s2)
            BY <2>1, <2>2, <2>3 DEF Below, EncInv, FreedFirst
        <3>3. Below(s1, s3)
            BY <2>1, <2>2, <2>5 DEF Below, EncInv, FreedFirst, IdsKnown
        <3>4. Below(s1, s4)
            BY <2>1, <2>2, <2>4, SMTT(40) DEF Below, EncInv, FreedFirst
        <3> QED BY <3>2, <3>3, <3>4
    <2>8. Below(s2, s3) /\ Below(s2, s4) /\ Below(s3, s4)
        <3>1. Below(s2, s3)
            BY <2>3, <2>5 DEF Below, EncInv, ProcessedSorted
        <3>2. Below(s2, s4)
            BY <2>3, <2>4 DEF Below, EncInv, ProcessedSorted
        <3>3. Below(s3, s4)
            BY <2>1, <2>4, <2>5 DEF Below, EncInv, ToProcSorted
        <3> QED BY <3>1, <3>2, <3>3
    <2> DEFINE s12 == s1 \o s2
               s123 == s12 \o s3
    <2>9. s12 \in Seq(Int) /\ Sorted(s12) /\ Below(s12, s3) /\ Below(s12, s4)
        BY <2>2, <2>3, <2>4, <2>5, <2>6, <2>7, <2>8, SortedConcat
    <2> HIDE DEF s12
    <2>10. s123 \in Seq(Int) /\ Sorted(s123) /\ Below(s123, s4)
        BY <2>4, <2>5, <2>6, <2>8, <2>9, SortedConcat
    <2> HIDE DEF s123
    <2>11. s123 \o s4 \in Seq(Int) /\ Sorted(s123 \o s4)
        BY <2>4, <2>6, <2>10, SortedConcat
    <2>12. all \in Seq(Int) /\ Sorted(all)
        BY <2>11 DEF s123, s12
    <2> HIDE DEF all
    <2>13. \A i, j \in DOMAIN all : i < j => all[i] <= all[j]
        <3>1. DOMAIN all = 1 .. Len(all)
            BY <2>12
        <3> QED BY <2>12, <3>1 DEF Sorted
    <2> QED BY <2>13 DEF FramesInOrder, all, s1, s2, s3, s4
<1> QED BY <1>1, EncInvHolds, PTL

\* Flow control: with the window of frame acks the client never has more frames
\* to acknowledge than frames_in_flight - 1 and what the module sends ahead.
THEOREM UnackedBoundedHolds ==
    Spec => []UnackedBounded
<1>1. EncInv => UnackedBounded
    <2> SUFFICES ASSUME EncInv PROVE UnackedBounded
        OBVIOUS
    <2> DEFINE S == {i \in toack : i > frame_id_client}
               n == frames_in_flight + Window - 1
    <2>1. /\ frames_in_flight \in Nat \ {0} /\ frame_id_client \in Nat /\ toack \subseteq Nat
          /\ rect_id \in Nat /\ rect_id_ack \in Nat
        BY DEF EncInv, TypeOK
    <2>2. n \in Nat
        BY <2>1, WindowNat
    <2>3. CASE codec # "none" /\ use_frame_acks
        <3>1. /\ rect_id_ack < frame_id_client + frames_in_flight
              /\ rect_id <= rect_id_ack + Window /\ \A i \in toack : i <= rect_id
            BY <2>3 DEF EncInv, WindowOK
        <3>2. rect_id <= frame_id_client + n
            BY <2>1, <3>1, WindowNat
        <3> DEFINE a == frame_id_client + 1
                   b == frame_id_client + n
                   I == a .. b
        <3>2a. a \in Int /\ b \in Int /\ b - a + 1 = n /\ rect_id <= b /\ (a > b => n = 0)
            BY <2>1, <2>2, <3>2
        <3>3. S \subseteq I
            <4> SUFFICES ASSUME NEW i \in toack, i > frame_id_client PROVE i \in I
                OBVIOUS
            <4>1. i \in Int /\ i <= rect_id /\ i >= a
                BY <2>1, <3>1
            <4> HIDE DEF a, b
            <4> QED BY <2>1, <3>2a, <4>1
        <3>4. IsFiniteSet(I) /\ Cardinality(I) = n
            <4> HIDE DEF a, b, n
            <4> QED BY <3>2a, FS_Interval
        <3>5. Cardinality(S) <= n
            BY <3>3, <3>4, FS_Subset, ZenonT(40)
        <3> QED BY <3>5 DEF UnackedBounded
    <2>4. CASE ~(codec # "none" /\ use_frame_acks)
        <3>1. S = {}
            BY <2>4 DEF EncInv, LifeOK, TypeOK
        <3>2. Cardinality(S) = 0
            BY <3>1, FS_EmptySet
        <3> QED BY <2>2, <3>2 DEF UnackedBounded
    <2> QED BY <2>3, <2>4
<1> QED BY <1>1, EncInvHolds, PTL
=============================================================================

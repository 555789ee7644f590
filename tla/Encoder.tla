------------------------------ MODULE Encoder ------------------------------
(***************************************************************************)
(* The codec pipeline of one session: xrdp/xrdp_encoder.c and the part of  *)
(* xrdp/xrdp_mm.c that feeds it.  The main thread takes frames from the    *)
(* module (server_paint_rects), queues them for the encoder thread         *)
(* (proc_enc_msg), sends what comes back to the client                     *)
(* (xrdp_mm_process_enc_done) and acknowledges frames to the module as the *)
(* client acknowledges them (xrdp_mm_frame_ack).  The threads share two    *)
(* fifos under one mutex, so a fifo operation is one step, and three wait  *)
(* objects.  A wait object is a pipe that one thread sets and another      *)
(* resets; g_set_wait_obj and g_reset_wait_obj each take effect at their   *)
(* last read or write, so they are one step too.                           *)
(***************************************************************************)
EXTENDS Integers, Sequences, FiniteSets

CONSTANTS Caps,       \* what codecs a client may announce: sets of codec names
          UseAcks,    \* whether the client may announce frame acks: booleans
          Unacked,    \* values of max_unacknowledged_frame_count
          Rects,      \* numbers of rectangles a frame may have
          Outcomes,   \* of encoding one rectangle: "ok", "empty", "fail"
          Window,     \* frames the module sends ahead of its acks
          MaxFrame,   \* bound: frames the module sends
          MayStop     \* whether the session may end, and xrdp be terminated

Codecs == {"jpg", "rfx", "h264"}

ASSUME EncoderAssumption ==
    /\ Caps \subseteq SUBSET Codecs /\ UseAcks \subseteq BOOLEAN
    /\ Unacked \subseteq Int /\ Rects \subseteq Nat
    /\ Outcomes \subseteq {"ok", "empty", "fail"}
    /\ Window \in Nat \ {0} /\ MaxFrame \in Nat /\ MayStop \in BOOLEAN

VARIABLES
    codec,                 \* process_enc, or "none" without an encoder
    use_frame_acks, frames_in_flight,
    fifo_to_proc,          \* frames for the encoder thread: [id, n]
    fifo_processed,        \* pieces that came back: [id, last, sent]
    event_to_proc, event_processed, encoder_term,
    g_term,                \* g_term_event: the process is to end
    frame_id_client,       \* last frame id received from the client
    frame_id_server,       \* last frame id received from Xorg
    frame_id_server_sent,  \* last one acknowledged to the module
    mpc, wpc,              \* where the main and the encoder thread are
    enc, index,            \* the frame and rectangle being encoded
    freed,                 \* frames whose XRDP_ENC_DATA was freed
    rect_id, rect_id_ack,  \* the module: last frame sent, last one acked
    toack,                 \* the client: frames shown and not acked yet
    alive                  \* the struct xrdp_encoder is not freed

cfgVars == <<codec, use_frame_acks, frames_in_flight>>
idVars  == <<frame_id_client, frame_id_server, frame_id_server_sent, rect_id_ack>>
wrkVars == <<wpc, enc, index>>
vars == <<cfgVars, fifo_to_proc, fifo_processed, event_to_proc, event_processed,
          encoder_term, g_term, idVars, mpc, wrkVars, freed, rect_id, toack, alive>>

None == [id |-> 0, n |-> 0]

\* xrdp_encoder_create: jpeg before rfx before h264, or no encoder.
ChosenCodec(caps) == IF "jpg" \in caps THEN "jpg"
                     ELSE IF "rfx" \in caps THEN "rfx"
                     ELSE IF "h264" \in caps THEN "h264" ELSE "none"

Init ==
    /\ codec \in {ChosenCodec(c) : c \in Caps}
    /\ use_frame_acks \in UseAcks
    /\ frames_in_flight \in {IF u > 1 THEN u ELSE 1 : u \in Unacked}
    /\ fifo_to_proc = <<>> /\ fifo_processed = <<>>
    /\ event_to_proc = FALSE /\ event_processed = FALSE /\ encoder_term = FALSE
    /\ g_term = FALSE
    /\ frame_id_client = 0 /\ frame_id_server = 0 /\ frame_id_server_sent = 0
    /\ mpc = "loop" /\ wpc = IF codec = "none" THEN "exit" ELSE "wait"
    /\ enc = None /\ index = 0 /\ freed = {}
    /\ rect_id = 0 /\ rect_id_ack = 0 /\ toack = {}
    /\ alive = (codec # "none")

-----------------------------------------------------------------------------
(* The main thread *)

MainAt(pc) == mpc = pc /\ UNCHANGED <<cfgVars, wrkVars, g_term>>

\* The module sends frames ahead of its acks, up to Window.
ModSends == rect_id < MaxFrame /\ rect_id - rect_id_ack < Window
            /\ rect_id' = rect_id + 1

\* server_paint_rects queues a frame for the encoder thread ...
PaintRects ==
    /\ MainAt("loop") /\ codec # "none" /\ ModSends
    /\ \E n \in Rects : fifo_to_proc' = Append(fifo_to_proc, [id |-> rect_id', n |-> n])
    /\ mpc' = "signal"
    /\ UNCHANGED <<fifo_processed, event_to_proc, event_processed, encoder_term,
                   idVars, freed, toack, alive>>

\* ... and signals it;
PaintSignal ==
    /\ MainAt("signal")
    /\ event_to_proc' = TRUE
    /\ mpc' = "loop"
    /\ UNCHANGED <<fifo_to_proc, fifo_processed, event_processed, encoder_term,
                   idVars, freed, rect_id, toack, alive>>

\* without an encoder it paints at once and acknowledges the frame.
PaintDirect ==
    /\ MainAt("loop") /\ codec = "none" /\ ModSends
    /\ rect_id_ack' = rect_id'
    /\ UNCHANGED <<fifo_to_proc, fifo_processed, event_to_proc, event_processed,
                   encoder_term, frame_id_client, frame_id_server,
                   frame_id_server_sent, mpc, freed, toack, alive>>

\* xrdp_mm_check_wait_objs finds event_processed set.
CheckProcessed ==
    /\ MainAt("loop") /\ event_processed
    /\ event_processed' = FALSE
    /\ mpc' = "drain"
    /\ UNCHANGED <<fifo_to_proc, fifo_processed, event_to_proc, encoder_term,
                   idVars, freed, rect_id, toack, alive>>

\* Mutant of UpdateModuleFrameAck: the frames in flight are not limited.
AckWithoutWindow(c, s) ==
    IF s > frame_id_server_sent THEN frame_id_server_sent' = s /\ rect_id_ack' = s
    ELSE UNCHANGED <<frame_id_server_sent, rect_id_ack>>

\* Mutant of UpdateModuleFrameAck: one frame in flight too few.
AckTooLate(c, s) ==
    IF c + frames_in_flight - 1 > s /\ s > frame_id_server_sent
    THEN frame_id_server_sent' = s /\ rect_id_ack' = s
    ELSE UNCHANGED <<frame_id_server_sent, rect_id_ack>>

\* xrdp_mm_update_module_frame_ack with frame ids c of the client, s of Xorg.
UpdateModuleFrameAck(c, s) ==
    IF c + frames_in_flight > s /\ s > frame_id_server_sent
    THEN frame_id_server_sent' = s /\ rect_id_ack' = s
    ELSE UNCHANGED <<frame_id_server_sent, rect_id_ack>>

\* The last piece of a frame is back: acknowledge it and free its data.
FrameDone(d) ==
    /\ freed' = freed \cup {d.id}
    /\ IF use_frame_acks
       THEN /\ frame_id_server' = d.id
            /\ UpdateModuleFrameAck(frame_id_client, d.id)
       ELSE rect_id_ack' = d.id /\ UNCHANGED <<frame_id_server, frame_id_server_sent>>
    /\ UNCHANGED frame_id_client

\* xrdp_mm_process_enc_done: one turn of its loop.  A piece with data is sent
\* between frame markers, which only a client with frame acks gets.
ProcessEncDone ==
    /\ MainAt("drain") /\ fifo_processed # <<>>
    /\ LET d == Head(fifo_processed) IN
       /\ fifo_processed' = Tail(fifo_processed)
       /\ toack' = IF d.sent /\ use_frame_acks THEN toack \cup {d.id} ELSE toack
       /\ IF d.last THEN FrameDone(d) ELSE UNCHANGED <<freed, idVars>>
    /\ UNCHANGED <<fifo_to_proc, event_to_proc, event_processed, encoder_term, mpc,
                   rect_id, alive>>

DrainEnds ==
    /\ MainAt("drain") /\ fifo_processed = <<>>
    /\ mpc' = "loop"
    /\ UNCHANGED <<fifo_to_proc, fifo_processed, event_to_proc, event_processed,
                   encoder_term, idVars, freed, rect_id, toack, alive>>

\* Mutant of FrameAck: the id of the client is taken as it is.
FrameAckUnchecked(id) ==
    /\ MainAt("loop") /\ use_frame_acks /\ codec # "none"
    /\ frame_id_client' = id
    /\ UpdateModuleFrameAck(frame_id_client', frame_id_server)
    /\ UNCHANGED <<frame_id_server, fifo_to_proc, fifo_processed, event_to_proc,
                   event_processed, encoder_term, mpc, freed, rect_id, alive>>

\* xrdp_mm_frame_ack: a negative or too large id acknowledges all sent frames;
\* acks come out of order, so an older one is ignored.  A client acknowledges what is
\* sent between frame markers, so it has something to acknowledge only when there is
\* an encoder; the handler relies on that.
FrameAck(id) ==
    /\ MainAt("loop") /\ use_frame_acks /\ codec # "none"
    /\ frame_id_client' = IF id < 0 \/ id > frame_id_server THEN frame_id_server
                          ELSE IF id > frame_id_client THEN id ELSE frame_id_client
    /\ UpdateModuleFrameAck(frame_id_client', frame_id_server)
    /\ UNCHANGED <<frame_id_server, fifo_to_proc, fifo_processed, event_to_proc,
                   event_processed, encoder_term, mpc, freed, rect_id, alive>>

\* The client acknowledges a frame it got, in any order, ...
ClientAcks == \E id \in toack : FrameAck(id) /\ toack' = toack \ {id}

\* ... or all that are pending, with a negative number.
ClientAcksAll == FrameAck(-1) /\ toack' = {}

\* SIGTERM or SIGINT sets the term event of the process; the main loop looks at it in
\* every turn, and the encoder thread whenever it wakes up.
SignalTerm ==
    /\ MayStop /\ ~g_term /\ mpc # "gone"
    /\ g_term' = TRUE
    /\ UNCHANGED <<cfgVars, fifo_to_proc, fifo_processed, event_to_proc, event_processed,
                   encoder_term, idVars, mpc, wrkVars, freed, rect_id, toack, alive>>

\* The session ends.  xrdp_encoder_delete tells the thread to shut down ...
SessionEnds ==
    /\ MainAt("loop") /\ MayStop
    /\ mpc' = IF codec = "none" THEN "gone" ELSE "sleep"
    /\ encoder_term' = TRUE
    /\ UNCHANGED <<fifo_to_proc, fifo_processed, event_to_proc, event_processed,
                   idVars, freed, rect_id, toack, alive>>

\* ... and after a sleep of one second frees everything.  In a second a thread
\* that waits has seen encoder_term; one that encodes may need longer.
EncoderDelete ==
    /\ MainAt("sleep") /\ wpc \notin {"wait", "get"}
    /\ mpc' = "gone" /\ alive' = FALSE
    /\ fifo_to_proc' = <<>> /\ fifo_processed' = <<>>
    /\ UNCHANGED <<event_to_proc, event_processed, encoder_term, idVars, freed,
                   rect_id, toack>>

-----------------------------------------------------------------------------
(* The encoder thread; what it does once its memory is freed is undefined, and
   the model stops there. *)

WorkerAt(pc) ==
    /\ wpc = pc /\ alive
    /\ UNCHANGED <<cfgVars, encoder_term, g_term, idVars, mpc, freed, rect_id, toack, alive>>

\* proc_enc_msg wakes up: the process is to end or it is told to stop, ...
WorkerTerm ==
    /\ WorkerAt("wait") /\ (g_term \/ encoder_term)
    /\ wpc' = "exit"
    /\ UNCHANGED <<fifo_to_proc, fifo_processed, event_to_proc, event_processed, enc,
                   index>>

\* ... or there is work, and the event is cleared before the fifo is read.
WorkerWakes ==
    /\ WorkerAt("wait") /\ ~g_term /\ ~encoder_term /\ event_to_proc
    /\ event_to_proc' = FALSE
    /\ wpc' = "get"
    /\ UNCHANGED <<fifo_to_proc, fifo_processed, event_processed, enc, index>>

\* The next frame, until there is none; neither term event is looked at.
WorkerGets ==
    /\ WorkerAt("get")
    /\ IF fifo_to_proc = <<>>
       THEN wpc' = "wait" /\ enc' = None /\ UNCHANGED fifo_to_proc
       ELSE /\ enc' = Head(fifo_to_proc) /\ fifo_to_proc' = Tail(fifo_to_proc)
            /\ wpc' = codec
    /\ index' = 0
    /\ UNCHANGED <<fifo_processed, event_to_proc, event_processed>>

\* Mutant of SendBack: every piece is marked as the last one.
SendBackAsLast(last, sent) ==
    fifo_processed' = Append(fifo_processed, [id |-> enc.id, last |-> TRUE, sent |-> sent])

\* Mutant of SendBack: the fifo is a stack.
SendBackInFront(last, sent) ==
    fifo_processed' = <<[id |-> enc.id, last |-> last, sent |-> sent]>> \o fifo_processed

\* A piece goes back to the main thread.
SendBack(last, sent) ==
    fifo_processed' = Append(fifo_processed, [id |-> enc.id, last |-> last, sent |-> sent])

\* process_enc_jpg: one rectangle.  An empty one is skipped, an error ends it.
EncodeJpg ==
    /\ WorkerAt("jpg") /\ index < enc.n
    /\ \/ /\ "ok" \in Outcomes
          /\ SendBack(index = enc.n - 1, TRUE)
          /\ wpc' = "jpgset" /\ index' = index + 1
       \/ /\ "empty" \in Outcomes
          /\ index' = index + 1
          /\ UNCHANGED <<fifo_processed, wpc>>
       \/ /\ "fail" \in Outcomes
          /\ wpc' = "get"
          /\ UNCHANGED <<fifo_processed, index>>
    /\ UNCHANGED <<fifo_to_proc, event_to_proc, event_processed, enc>>

JpgEnds ==
    /\ WorkerAt("jpg") /\ index >= enc.n
    /\ wpc' = "get"
    /\ UNCHANGED <<fifo_to_proc, fifo_processed, event_to_proc, event_processed, enc,
                   index>>

\* process_enc_rfx: one piece for the whole frame, empty on an error.
EncodeRfx ==
    /\ WorkerAt("rfx")
    /\ \E ok \in BOOLEAN :
       /\ ok => enc.n > 0 /\ "ok" \in Outcomes
       /\ ~ok => enc.n = 0 \/ "fail" \in Outcomes
       /\ SendBack(TRUE, ok)
    /\ wpc' = "rfxset"
    /\ UNCHANGED <<fifo_to_proc, event_to_proc, event_processed, enc, index>>

\* process_enc_h264 does nothing yet.
EncodeH264 ==
    /\ WorkerAt("h264")
    /\ wpc' = "get"
    /\ UNCHANGED <<fifo_to_proc, fifo_processed, event_to_proc, event_processed, enc,
                   index>>

\* Mutant of WorkerSignals: one frame per wakeup.
WorkerSignalsThenWaits ==
    /\ WorkerAt("jpgset") \/ WorkerAt("rfxset")
    /\ event_processed' = TRUE
    /\ wpc' = IF wpc = "jpgset" THEN "jpg" ELSE "wait"
    /\ UNCHANGED <<fifo_to_proc, fifo_processed, event_to_proc, enc, index>>

\* The main thread is signalled after each piece.
WorkerSignals ==
    /\ WorkerAt("jpgset") \/ WorkerAt("rfxset")
    /\ event_processed' = TRUE
    /\ wpc' = IF wpc = "jpgset" THEN "jpg" ELSE "get"
    /\ UNCHANGED <<fifo_to_proc, fifo_processed, event_to_proc, enc, index>>

-----------------------------------------------------------------------------
Stopped == mpc = "gone" /\ UNCHANGED vars

Main == \/ PaintRects \/ PaintSignal \/ PaintDirect \/ CheckProcessed
        \/ ProcessEncDone \/ DrainEnds \/ SessionEnds \/ EncoderDelete

Client == ClientAcks \/ ClientAcksAll

Worker == \/ WorkerTerm \/ WorkerWakes \/ WorkerGets \/ EncodeJpg \/ JpgEnds
          \/ EncodeRfx \/ EncodeH264 \/ WorkerSignals

Next == Main \/ Client \/ Worker \/ SignalTerm \/ Stopped

Spec == Init /\ [][Next]_vars

-----------------------------------------------------------------------------
(* Properties *)

Piece == [id : Nat, last : BOOLEAN, sent : BOOLEAN]

TypeOK ==
    /\ codec \in Codecs \cup {"none"} /\ use_frame_acks \in BOOLEAN
    /\ frames_in_flight \in Nat \ {0}
    /\ fifo_to_proc \in Seq([id : Nat, n : Nat]) /\ fifo_processed \in Seq(Piece)
    /\ event_to_proc \in BOOLEAN /\ event_processed \in BOOLEAN
    /\ encoder_term \in BOOLEAN /\ g_term \in BOOLEAN
    /\ frame_id_client \in Nat /\ frame_id_server \in Nat
    /\ frame_id_server_sent \in Nat
    /\ mpc \in {"loop", "signal", "drain", "sleep", "gone"}
    /\ wpc \in {"wait", "get", "jpg", "jpgset", "rfx", "rfxset", "h264", "exit"}
    /\ enc \in [id : Nat, n : Nat] /\ index \in Nat
    /\ freed \subseteq Nat /\ rect_id \in Nat /\ rect_id_ack \in Nat
    /\ toack \subseteq Nat /\ alive \in BOOLEAN

\* The encoder thread is inside process_enc.
Encoding == wpc \in {"jpg", "jpgset", "rfx", "rfxset", "h264"}

\* process_enc never reads a frame that xrdp_mm_process_enc_done has freed: only
\* the last piece of a frame lets the main thread free it.
NoFreedFrameEncoded == wpc \in {"rfx", "h264"} \/ (wpc = "jpg" /\ index < enc.n)
                       => enc.id \notin freed

\* No wakeup is lost: a thread with work in its fifo that is about to sleep has
\* its event set, or the other thread is about to set it.
NoLostWakeup ==
    alive =>
    /\ fifo_to_proc # <<>> /\ wpc = "wait" => event_to_proc \/ mpc = "signal"
    /\ fifo_processed # <<>> /\ mpc = "loop" =>
           event_processed \/ wpc \in {"jpgset", "rfxset"}

\* The module is told that it may reuse the pixels of a frame only when the
\* encoder thread will not read them again: no frame that waits or is being
\* encoded has been acknowledged.
AckedPixelsAreDone ==
    alive =>
    /\ \A i \in DOMAIN fifo_to_proc : fifo_to_proc[i].id > rect_id_ack
    /\ wpc \in {"rfx", "h264"} \/ (wpc = "jpg" /\ index < enc.n) => enc.id > rect_id_ack

\* Frames reach the client in the order the module sent them, through both
\* fifos and the encoder thread.
FramesInOrder ==
    LET ids(q) == [i \in DOMAIN q |-> q[i].id]
        all == <<frame_id_server>> \o ids(fifo_processed)
               \o (IF Encoding THEN <<enc.id>> ELSE <<>>) \o ids(fifo_to_proc)
    IN  alive => \A i, j \in DOMAIN all : i < j => all[i] <= all[j]

\* Flow control: whatever order the acks come in, the frames shown to the client
\* after the last one it acknowledged are at most frames_in_flight, beyond what
\* the module sends ahead.
UnackedBounded ==
    Cardinality({i \in toack : i > frame_id_client}) <= frames_in_flight + Window - 1

\* Fairness: both threads run, the main loop breaks once the process is to end, and
\* the client acknowledges the frames it gets.
Fairness == /\ WF_vars(Worker) /\ WF_vars(PaintSignal) /\ WF_vars(CheckProcessed)
            /\ WF_vars(ProcessEncDone) /\ WF_vars(DrainEnds)
            /\ SF_vars(CheckProcessed) /\ SF_vars(ClientAcks)
            /\ SF_vars(g_term /\ SessionEnds)

FairSpec == Spec /\ Fairness

\* "You must always send something back even on error so Xorg can get ack"
\* (process_enc_rfx): every frame of the module is acknowledged.
EveryFrameAcked ==
    \A i \in 1 .. MaxFrame : rect_id >= i ~> (rect_id_ack >= i \/ mpc \in {"sleep", "gone"})

\* A frame that is on its way through the fifos or the encoder thread.
UnderWay(j) ==
    \/ \E k \in DOMAIN fifo_to_proc : fifo_to_proc[k].id = j
    \/ \E k \in DOMAIN fifo_processed : fifo_processed[k].id = j
    \/ Encoding /\ enc.id = j

\* A frame of which the pipeline let nothing through: no last piece came back or,
\* with a client that acknowledges, nothing it could acknowledge was shown to it.
Unseen(j) ==
    /\ ~UnderWay(j)
    /\ IF use_frame_acks THEN j > frame_id_client /\ j \notin toack ELSE j \notin freed

\* The ack of a frame to the module is held back for ever only when some frame of
\* the session came to nothing on its way to the client: neither out-of-order acks
\* nor the window of frames_in_flight nor the wakeups of the threads lose one.
AckedUnlessUnseen ==
    \A i \in 1 .. MaxFrame :
        rect_id >= i ~> \/ rect_id_ack >= i
                        \/ mpc \in {"sleep", "gone"}
                        \/ \E j \in 1 .. rect_id : Unseen(j)

\* "tell worker thread to shut down" (xrdp_encoder_delete) and "shutdown thread"
\* (xrdp_mm_delete): when the fifos, the mutex and the struct itself are freed, the
\* encoder thread has left.
ThreadLeftBeforeFree == ~alive => wpc = "exit"
=============================================================================

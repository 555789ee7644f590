------------------------------- MODULE Trans -------------------------------
(***************************************************************************)
(* The buffered transports of one xrdp session process: common/trans.c and *)
(* the three transports that share one struct source_info: the RDP client  *)
(* (server_trans), the channel server (chan_trans) and the module (the     *)
(* trans of xup or vnc).  One thread runs them all.  It polls a transport  *)
(* (trans_check_wait_objs), the transport calls trans_data_in, and that    *)
(* callback writes on other transports; after a drawing PDU has been       *)
(* written to the client it even polls chan_trans again from inside the    *)
(* callback (xrdp_mm_check_chan).  That nesting is the variable stack.     *)
(*                                                                         *)
(* The bytes written on a transport are numbered 1, 2, ... in the order of *)
(* the calls that write them, and a struct stream of the waiting list is   *)
(* an interval of those numbers.                                           *)
(***************************************************************************)
EXTENDS Integers, Sequences, FiniteSets

CONSTANTS Trans,       \* transports, each named by its my_source
          Client,      \* server_trans      (XRDP_SOURCE_CLIENT)
          Chan,        \* mm->chan_trans    (XRDP_SOURCE_CHANSRV)
          NoTrans,     \* XRDP_SOURCE_NONE: the main loop itself
          Draws,       \* sources whose handlers send drawing PDUs
          HeaderSize,  \* bytes of a message header
          BodySize,    \* bytes of a message body
          MaxWrite,    \* bound: bytes of one write
          MaxBytes,    \* bound: bytes ever written on one transport
          MaxIn,       \* bound: bytes received but not read
          Cap,         \* capacity of the socket's send buffer
          MayClose,    \* transports whose peer may go away
          MayTerm      \* whether xrdp may be told to terminate

ASSUME TransAssumption ==
    /\ IsFiniteSet(Trans)
    /\ Client \in Trans /\ Chan \in Trans /\ Client # Chan
    /\ NoTrans \notin Trans
    /\ Draws \subseteq Trans \cup {NoTrans}
    /\ MayClose \subseteq Trans /\ MayTerm \in BOOLEAN
    /\ HeaderSize \in Nat \ {0} /\ BodySize \in Nat \ {0}
    /\ MaxWrite \in Nat /\ MaxBytes \in Nat /\ MaxIn \in Nat /\ Cap \in Nat

VARIABLES
    status,       \* "UP", "DOWN", or "GONE" once trans_delete freed it
    wait_s,       \* list of streams not yet sent: [lo, hi, src]
    written,      \* bytes handed to a write so far
    wire,         \* the bytes the socket took, in order
    source,       \* si->source[]: bytes waiting because of that source
    cur_source,   \* si->cur_source
    lost,         \* tagged bytes thrown away by trans_delete
    in_s,         \* bytes in the input stream
    header_size,  \* bytes to collect before trans_data_in is called
    extra_flags,  \* 0: in the header, 1: in the body
    room,         \* free space of the socket's send buffer
    avail,        \* bytes ready to be received
    closed,       \* the peer closed the connection
    stack,        \* running calls, the main loop first
    doomed,       \* a check failed: delete_chan_trans, or the loop will break
    term          \* g_is_term()

outVars == <<wait_s, written, wire, source, lost, room>>
inVars  == <<in_s, header_size, extra_flags, avail>>
vars == <<status, wait_s, written, wire, source, cur_source, lost, in_s,
          header_size, extra_flags, room, avail, closed, stack,
          doomed, term>>

(***************************************************************************)
(* A frame is one running call: of the main loop (t = NoTrans) or of       *)
(* trans_check_wait_objs on t.  saved is the local cur_source; dst, lo and *)
(* hi are the write in progress; err is rv.                                *)
(***************************************************************************)
PCs == {"check", "run", "copy1", "copy2", "force", "poll", "ckdel", "flush"}

Frame == [t : Trans \cup {NoTrans}, pc : PCs, saved : Trans \cup {NoTrans},
          dst : Trans, lo : Nat, hi : Nat, err : BOOLEAN]

NewFrame(t, pc) == [t |-> t, pc |-> pc, saved |-> NoTrans, dst |-> Client,
                    lo |-> 1, hi |-> 0, err |-> FALSE]

Top == stack[Len(stack)]
SetTop(f) == [stack EXCEPT ![Len(stack)] = f]
Goto(pc) == SetTop([Top EXCEPT !.pc = pc])
WriteDone(pc) == SetTop([Top EXCEPT !.pc = pc, !.dst = Client, !.lo = 1, !.hi = 0])
At(pc) == stack # <<>> /\ Top.pc = pc
Pop == SubSeq(stack, 1, Len(stack) - 1)

Bytes(a, b) == [i \in 1 .. (b - a + 1) |-> a + i - 1]
Least(a, b) == IF a <= b THEN a ELSE b

Item == [lo : Nat, hi : Nat, src : Trans \cup {NoTrans}]

Init ==
    /\ status = [t \in Trans |-> "UP"]
    /\ wait_s = [t \in Trans |-> <<>>]
    /\ written = [t \in Trans |-> 0]
    /\ wire = [t \in Trans |-> <<>>]
    /\ source = [t \in Trans |-> 0]
    /\ cur_source = NoTrans
    /\ lost = [t \in Trans |-> 0]
    /\ in_s = [t \in Trans |-> 0]
    /\ header_size = [t \in Trans |-> HeaderSize]
    /\ extra_flags = [t \in Trans |-> 0]
    /\ room = [t \in Trans |-> Cap]
    /\ avail = [t \in Trans |-> 0]
    /\ closed = [t \in Trans |-> FALSE]
    /\ stack = <<NewFrame(NoTrans, "run")>>
    /\ doomed = {}
    /\ term = FALSE

-----------------------------------------------------------------------------
(* The socket and the peer at its other end. *)

\* Mutant of Takes: the return value of the send is not looked at.
TakesAll(t, n) == {n}

\* How many of n bytes a non-blocking send takes: none when the socket is not
\* writable, else any part that fits.
Takes(t, n) == IF room[t] = 0 THEN {0} ELSE 1 .. Least(n, room[t])

PeerReads(t) ==
    /\ ~closed[t] /\ room[t] < Cap
    /\ room' = [room EXCEPT ![t] = @ + 1]
    /\ UNCHANGED <<status, wait_s, written, wire, source, cur_source, lost,
                   inVars, closed, stack, doomed, term>>

PeerSends(t) ==
    /\ ~closed[t] /\ avail[t] < MaxIn
    /\ avail' = [avail EXCEPT ![t] = @ + 1]
    /\ UNCHANGED <<status, outVars, cur_source, in_s, header_size,
                   extra_flags, closed, stack, doomed, term>>

PeerCloses(t) ==
    /\ t \in MayClose /\ ~closed[t]
    /\ closed' = [closed EXCEPT ![t] = TRUE]
    /\ UNCHANGED <<status, outVars, cur_source, inVars, stack, doomed, term>>

SignalTerm ==
    /\ ~term /\ MayTerm
    /\ term' = TRUE
    /\ UNCHANGED <<status, outVars, cur_source, inVars, closed, stack, doomed>>

-----------------------------------------------------------------------------
(* trans_send_waiting *)

HeadLen(t) == wait_s[t][1].hi - wait_s[t][1].lo + 1

\* Mutant of RestOf: temp_s->p is not advanced after a partial send.
RestNotAdvanced(q, k) == IF k = q[1].hi - q[1].lo + 1 THEN Tail(q) ELSE q

\* Mutant of RestOf: the stream is freed after a partial send.
RestFreed(q, k) == Tail(q)

\* What is left of a waiting list after k bytes of its first stream are sent.
RestOf(q, k) == IF k = q[1].hi - q[1].lo + 1 THEN Tail(q)
                ELSE [q EXCEPT ![1] = [lo |-> q[1].lo + k, hi |-> q[1].hi,
                                       src |-> q[1].src]]

\* Mutant of SentHead: temp_s->source[0] is not credited.
SentHeadUncredited(t, k) ==
    LET h == wait_s[t][1] IN
    /\ wire' = [wire EXCEPT ![t] = @ \o Bytes(h.lo, h.lo + k - 1)]
    /\ wait_s' = [wait_s EXCEPT ![t] = RestOf(@, k)]
    /\ room' = [room EXCEPT ![t] = @ - k]
    /\ UNCHANGED <<written, lost, source>>

\* The socket took k bytes of the first waiting stream.
SentHead(t, k) ==
    LET h == wait_s[t][1] IN
    /\ wire' = [wire EXCEPT ![t] = @ \o Bytes(h.lo, h.lo + k - 1)]
    /\ source' = IF h.src = NoTrans THEN source
                 ELSE [source EXCEPT ![h.src] = @ - k]
    /\ wait_s' = [wait_s EXCEPT ![t] = RestOf(@, k)]
    /\ room' = [room EXCEPT ![t] = @ - k]
    /\ UNCHANGED <<written, lost>>

\* trans_send_waiting(self, 0) returns 0: at most one send, of the first stream.
SendWaiting(t) ==
    \/ wait_s[t] = <<>> /\ UNCHANGED outVars
    \/ /\ wait_s[t] # <<>> /\ ~closed[t]
       /\ \E k \in Takes(t, HeadLen(t)) : SentHead(t, k)

\* trans_send_waiting returns 1: the socket failed.
SendWaitingFails(t) == wait_s[t] # <<>> /\ closed[t]

GoDown(t) == status' = [status EXCEPT ![t] = "DOWN"]

-----------------------------------------------------------------------------
(* Writes, by the main loop or by the callback on top of the stack. *)

\* (A handler of chan_trans writes to the client, never back to chansrv.)
MayWrite(u, n) ==
    /\ At("run") /\ status[u] = "UP" /\ ~(u = Chan /\ Top.t = Chan)
    /\ written[u] + n <= MaxBytes

StartWrite(u, n, pc) ==
    /\ MayWrite(u, n)
    /\ written' = [written EXCEPT ![u] = @ + n]
    /\ stack' = SetTop([Top EXCEPT !.pc = pc, !.dst = u,
                        !.lo = written[u] + 1, !.hi = written[u] + n])
    /\ UNCHANGED <<status, wait_s, wire, source, cur_source, lost, inVars,
                   room, closed, doomed, term>>

\* trans_write_copy_s is called with n bytes ...
StartCopy(u, n) == StartWrite(u, n, "copy1")

\* ... tries to send any left over ...
CopyLeftOver ==
    /\ At("copy1")
    /\ \/ /\ SendWaitingFails(Top.dst)
          /\ GoDown(Top.dst)
          /\ stack' = WriteDone("run")
          /\ UNCHANGED outVars
       \/ /\ SendWaiting(Top.dst)
          /\ stack' = Goto("copy2")
          /\ UNCHANGED status
    /\ UNCHANGED <<cur_source, inVars, closed, doomed, term>>

\* The source that a waiting stream on u is charged to.
ChargedTo(u) == IF cur_source \notin {NoTrans, u} THEN cur_source ELSE NoTrans

\* Mutant of AfterWrite: the callback 0x5556 is made for channel data too.
AfterAnyWrite(u) == IF u = Client THEN {"run", "poll"} ELSE {"run"}

\* Where a write ends.  A drawing PDU sent to the client ends in the callback
\* 0x5556, which polls chan_trans.
AfterWrite(u) ==
    IF u = Client /\ Top.t \in Draws THEN {"run", "poll"} ELSE {"run"}

\* ... then sends the new data if nothing is left over, and queues the rest.
\* A failing send returns 1 and leaves status alone.
CopyNew ==
    LET u == Top.dst
        n == Top.hi - Top.lo + 1
        direct == wait_s[u] = <<>>
    IN
    /\ At("copy2")
    /\ \/ /\ direct /\ (closed[u] \/ (n = 0 /\ room[u] > 0))
          /\ stack' = WriteDone("run")
          /\ UNCHANGED outVars
       \/ /\ ~direct \/ (~closed[u] /\ (n > 0 \/ room[u] = 0))
          /\ \E k \in IF direct /\ n > 0 THEN Takes(u, n) ELSE {0} :
             /\ wire' = [wire EXCEPT ![u] = @ \o Bytes(Top.lo, Top.lo + k - 1)]
             /\ room' = [room EXCEPT ![u] = @ - k]
             /\ IF n - k < 1
                THEN UNCHANGED <<wait_s, source>>
                ELSE /\ wait_s' = [wait_s EXCEPT ![u] = Append(@,
                                     [lo |-> Top.lo + k, hi |-> Top.hi,
                                      src |-> ChargedTo(u)])]
                     /\ source' = IF ChargedTo(u) = NoTrans THEN source
                                  ELSE [source EXCEPT ![ChargedTo(u)] =
                                                             @ + (n - k)]
             /\ UNCHANGED <<written, lost>>
          /\ \E pc \in AfterWrite(u) : stack' = WriteDone(pc)
    /\ UNCHANGED <<status, cur_source, inVars, closed, doomed, term>>

\* trans_force_write_s: blocks the whole process until all left over and all
\* of the new data is sent, or the socket fails, or a termination is requested.
\* Only chan_trans is written like that, with what the client sends to it.
StartForce(u, n) == u = Chan /\ StartWrite(u, n, "force")

ForceSend ==
    LET u == Top.dst IN
    /\ At("force") /\ ~closed[u] /\ room[u] > 0
    /\ \/ /\ wait_s[u] # <<>>
          /\ \E k \in Takes(u, HeadLen(u)) : SentHead(u, k)
          /\ UNCHANGED stack
       \/ /\ wait_s[u] = <<>> /\ Top.lo <= Top.hi
          /\ \E k \in Takes(u, Top.hi - Top.lo + 1) :
             /\ wire' = [wire EXCEPT ![u] = @ \o Bytes(Top.lo, Top.lo + k - 1)]
             /\ room' = [room EXCEPT ![u] = @ - k]
             /\ stack' = SetTop([Top EXCEPT !.lo = Top.lo + k])
          /\ UNCHANGED <<wait_s, written, source, lost>>
    /\ UNCHANGED <<status, cur_source, inVars, closed, doomed, term>>

ForceEnd ==
    LET u == Top.dst
        done == wait_s[u] = <<>> /\ Top.lo > Top.hi
    IN
    /\ At("force")
    /\ \/ done /\ UNCHANGED status
       \/ ~done /\ (closed[u] \/ (room[u] = 0 /\ term)) /\ GoDown(u)
    /\ stack' = WriteDone("run")
    /\ UNCHANGED <<outVars, cur_source, inVars, closed, doomed, term>>

-----------------------------------------------------------------------------
(* trans_check_wait_objs *)

\* The main loop polls a transport.
Poll(t) ==
    /\ At("run") /\ Len(stack) = 1 /\ ~term
    /\ status[t] # "GONE" /\ t \notin doomed /\ doomed \subseteq {Chan}
    /\ stack' = Append(stack, NewFrame(t, "check"))
    /\ UNCHANGED <<status, outVars, cur_source, inVars, closed, doomed, term>>

\* xrdp_mm_check_chan polls chan_trans from inside a handler.
CheckChan ==
    /\ At("poll")
    /\ IF status[Chan] = "GONE"
       THEN stack' = Goto("run")
       ELSE stack' = Append(Goto("ckdel"), NewFrame(Chan, "check"))
    /\ UNCHANGED <<status, outVars, cur_source, inVars, closed, doomed, term>>

\* Return from trans_check_wait_objs with rv # 0 or with 0.
Return(rv) ==
    /\ stack' = Pop
    /\ doomed' = IF rv THEN doomed \cup {Top.t} ELSE doomed

CanRecv(t) == avail[t] > 0 \/ closed[t]

\* The handler of t is running and has polled t again (rail orders of chansrv
\* are drawing PDUs).  Its message still fills the stream: nothing is received,
\* and a nested trans_data_in finds nothing left to process.
Busy(t) == \E i \in 1 .. (Len(stack) - 1) : stack[i].t = t

\* The transport is not up.
CheckDown ==
    /\ At("check") /\ status[Top.t] # "UP"
    /\ Return(TRUE)
    /\ UNCHANGED <<status, outVars, cur_source, inVars, closed, term>>

\* Bytes caused by this source still wait somewhere (MAX_SBYTES is 0), or
\* there is nothing to read.
CheckNoRead ==
    /\ At("check") /\ status[Top.t] = "UP"
    /\ source[Top.t] > 0 \/ ~CanRecv(Top.t) \/ Busy(Top.t)
    /\ stack' = Goto("flush")
    /\ UNCHANGED <<status, outVars, cur_source, inVars, closed, doomed, term>>

ToRead(t) == header_size[t] - in_s[t]

\* Mutant of MayRead: source[] is not compared with MAX_SBYTES.
MayAlwaysRead(t) == CanRecv(t) /\ ~Busy(t)

MayRead(t) == source[t] <= 0 /\ CanRecv(t) /\ ~Busy(t)

\* The peer is gone and everything it sent has been read.
CheckEof ==
    LET t == Top.t IN
    /\ At("check") /\ status[t] = "UP" /\ MayRead(t)
    /\ ToRead(t) > 0 /\ avail[t] = 0
    /\ GoDown(t)
    /\ Return(TRUE)
    /\ UNCHANGED <<outVars, cur_source, inVars, closed, term>>

\* Read what is missing of the header or of the message.
Recv(t, k) ==
    /\ k \in IF ToRead(t) > 0 THEN 1 .. Least(ToRead(t), avail[t]) ELSE {0}
    /\ in_s' = [in_s EXCEPT ![t] = @ + k]
    /\ avail' = [avail EXCEPT ![t] = @ - k]

\* Not all there yet; or the header is there and says a body follows.
CheckReadPart ==
    LET t == Top.t IN
    /\ At("check") /\ status[t] = "UP" /\ MayRead(t)
    /\ \E k \in 0 .. avail[t] :
       /\ Recv(t, k)
       /\ IF k < ToRead(t)
          THEN UNCHANGED <<header_size, extra_flags>>
          ELSE /\ extra_flags[t] = 0
               /\ header_size' = [header_size EXCEPT ![t] = @ + BodySize]
               /\ extra_flags' = [extra_flags EXCEPT ![t] = 1]
    /\ stack' = Goto("flush")
    /\ UNCHANGED <<status, outVars, cur_source, closed, doomed, term>>

\* A whole message is there: trans_data_in processes it.
CheckDataIn ==
    LET t == Top.t IN
    /\ At("check") /\ status[t] = "UP" /\ MayRead(t)
    /\ \E k \in 0 .. avail[t] : Recv(t, k) /\ k = ToRead(t)
    /\ cur_source' = t
    /\ stack' = SetTop([Top EXCEPT !.pc = "run", !.saved = cur_source])
    /\ UNCHANGED <<status, outVars, header_size, extra_flags, closed, doomed,
                   term>>

\* Mutant of DataInReturns: cur_source is reset instead of restored.
DataInReturnsResets ==
    LET t == Top.t IN
    /\ At("run") /\ t # NoTrans /\ status[t] # "GONE"
    /\ \E err \in BOOLEAN : stack' = SetTop([Top EXCEPT !.pc = "flush",
                                                        !.err = err])
    /\ cur_source' = NoTrans
    /\ in_s' = [in_s EXCEPT ![t] = 0]
    /\ header_size' = [header_size EXCEPT ![t] = HeaderSize]
    /\ extra_flags' = [extra_flags EXCEPT ![t] = 0]
    /\ UNCHANGED <<status, outVars, avail, closed, doomed, term>>

\* The handler returns: the stream is reset for the next header.
DataInReturns ==
    LET t == Top.t IN
    /\ At("run") /\ t # NoTrans /\ status[t] # "GONE"
    /\ \E err \in BOOLEAN : stack' = SetTop([Top EXCEPT !.pc = "flush",
                                                        !.err = err])
    /\ cur_source' = Top.saved
    /\ in_s' = [in_s EXCEPT ![t] = 0]
    /\ header_size' = [header_size EXCEPT ![t] = HeaderSize]
    /\ extra_flags' = [extra_flags EXCEPT ![t] = 0]
    /\ UNCHANGED <<status, outVars, avail, closed, doomed, term>>

\* The handler of a deleted chan_trans writes through self->chan_trans, which
\* is NULL by now: the process dies.
HandlerDies ==
    /\ At("run") /\ Top.t # NoTrans /\ status[Top.t] = "GONE"
    /\ stack' = <<>>
    /\ UNCHANGED <<status, outVars, cur_source, inVars, closed, doomed, term>>

\* The check ends with trans_send_waiting.
Flush ==
    /\ At("flush")
    /\ \/ /\ SendWaitingFails(Top.t)
          /\ GoDown(Top.t)
          /\ Return(TRUE)
          /\ UNCHANGED outVars
       \/ /\ SendWaiting(Top.t)
          /\ Return(Top.err)
          /\ UNCHANGED status
    /\ UNCHANGED <<cur_source, inVars, closed, term>>

-----------------------------------------------------------------------------
(* trans_delete, and the callers that decide on it *)

\* The bytes of t that wait because of source s.
Owed(t, s) ==
    {i \in 1 .. written[t] : \E k \in DOMAIN wait_s[t] :
        /\ wait_s[t][k].src = s
        /\ i \in wait_s[t][k].lo .. wait_s[t][k].hi}

\* Mutant of trans_delete: what is thrown away is credited to its source.
trans_delete_credits(t) ==
    /\ status' = [status EXCEPT ![t] = "GONE"]
    /\ lost' = [s \in Trans |-> lost[s] + Cardinality(Owed(t, s))]
    /\ source' = [s \in Trans |-> source[s] - Cardinality(Owed(t, s))]
    /\ wait_s' = [wait_s EXCEPT ![t] = <<>>]
    /\ doomed' = doomed \ {t}
    /\ UNCHANGED <<written, wire, room>>

\* The waiting streams go with the transport; nothing corrects source[].
trans_delete(t) ==
    /\ status' = [status EXCEPT ![t] = "GONE"]
    /\ lost' = [s \in Trans |-> lost[s] + Cardinality(Owed(t, s))]
    /\ wait_s' = [wait_s EXCEPT ![t] = <<>>]
    /\ doomed' = doomed \ {t}
    /\ UNCHANGED <<written, wire, source, room>>

\* xrdp_mm_check_chan after its poll of chan_trans.
CheckChanEnds ==
    /\ At("ckdel")
    /\ stack' = Goto("run")
    /\ IF Chan \in doomed THEN trans_delete(Chan)
       ELSE UNCHANGED <<status, outVars, doomed>>
    /\ UNCHANGED <<cur_source, inVars, closed, term>>

\* xrdp_mm_check_wait_objs deletes chan_trans after the polls of one turn.
DeleteChan ==
    /\ At("run") /\ Len(stack) = 1 /\ Chan \in doomed
    /\ trans_delete(Chan)
    /\ UNCHANGED <<cur_source, inVars, closed, stack, term>>

\* The main loop breaks: the client or the module failed, or a termination.
LoopBreaks ==
    /\ At("run") /\ Len(stack) = 1
    /\ term \/ doomed \ {Chan} # {}
    /\ stack' = <<>>
    /\ UNCHANGED <<status, outVars, cur_source, inVars, closed, doomed, term>>

Stopped == stack = <<>> /\ UNCHANGED vars

-----------------------------------------------------------------------------
Peer == \E t \in Trans : PeerReads(t) \/ PeerSends(t) \/ PeerCloses(t)

Write == \E u \in Trans, n \in 0 .. MaxWrite : StartCopy(u, n) \/ StartForce(u, n)

WriteStep == CopyLeftOver \/ CopyNew \/ ForceSend \/ ForceEnd

CheckStep == \/ CheckChan \/ CheckDown \/ CheckNoRead \/ CheckEof
             \/ CheckReadPart \/ CheckDataIn \/ DataInReturns \/ HandlerDies
             \/ Flush \/ CheckChanEnds \/ DeleteChan \/ LoopBreaks

Next == \/ Peer \/ SignalTerm
        \/ Write \/ WriteStep
        \/ \E t \in Trans : Poll(t)
        \/ CheckStep
        \/ Stopped

Spec == Init /\ [][Next]_vars

-----------------------------------------------------------------------------
(* Properties *)

TypeOK ==
    /\ status \in [Trans -> {"UP", "DOWN", "GONE"}]
    /\ wait_s \in [Trans -> Seq(Item)]
    /\ written \in [Trans -> Nat]
    /\ wire \in [Trans -> Seq(Nat)]
    /\ source \in [Trans -> Int]
    /\ cur_source \in Trans \cup {NoTrans}
    /\ lost \in [Trans -> Nat]
    /\ in_s \in [Trans -> Nat]
    /\ header_size \in [Trans -> Nat]
    /\ extra_flags \in [Trans -> {0, 1}]
    /\ room \in [Trans -> Nat]
    /\ avail \in [Trans -> Nat]
    /\ closed \in [Trans -> BOOLEAN]
    /\ stack \in Seq(Frame)
    /\ doomed \subseteq Trans
    /\ term \in BOOLEAN

\* All the bytes that wait because of source s, on any transport.
OwedTo(s) == {b \in Trans \X (1 .. MaxBytes) : b[2] \in Owed(b[1], s)}

\* si->source[s] is exactly the number of bytes that wait because of s, plus
\* those that trans_delete threw away without correcting it.
SourceAccounting ==
    \A s \in Trans : source[s] = Cardinality(OwedTo(s)) + lost[s]

\* si->cur_source names the innermost trans_data_in that is running, nested
\* polls included: trans_check_wait_objs restores it on every path.
CurSourceIsInnermost ==
    LET inside == {i \in DOMAIN stack : stack[i].pc \notin {"check", "flush"}}
    IN  inside # {} =>
        \E i \in inside : (\A j \in inside : j <= i) /\ cur_source = stack[i].t

\* No call that is still running works on a transport that trans_delete freed:
\* chan_trans is deleted only when all are "done with channel connection"
\* (xrdp_types.h), though a poll nested in a handler may delete it.
NoUseAfterDelete ==
    \A i \in DOMAIN stack :
        stack[i].t # NoTrans => status[stack[i].t] # "GONE"

DataInStarts(s) == /\ At("check") /\ Top.t = s
                   /\ Len(stack') = Len(stack) /\ Top'.pc = "run"

\* Back-pressure: a new message of source s is processed only when no byte that
\* an earlier message of s produced waits on any transport, so the memory one
\* source can tie up is bounded by one message's output.
BackPressure == [][\A s \in Trans : DataInStarts(s) => OwedTo(s) = {}]_vars

\* What trans_delete throws away stays charged: from then on the source it was
\* charged to is never read again, although its own connection is fine.
LostChargeBlocksSource ==
    [][\A s \in Trans : lost[s] > 0 => source'[s] > 0 /\ ~DataInStarts(s)]_vars

\* Fairness: the thread takes its next step; a handler returns, and a turn of
\* the main loop ends, after finitely many writes; the main loop polls every
\* transport again and again; and a peer that is there reads what it is sent.
Fairness ==
    /\ WF_vars(WriteStep) /\ WF_vars(CheckStep)
    /\ SF_vars(DataInReturns) /\ SF_vars(DeleteChan) /\ SF_vars(LoopBreaks)
    /\ \A t \in Trans : SF_vars(Poll(t)) /\ WF_vars(PeerReads(t))

FairSpec == Spec /\ Fairness

\* A source that back-pressure stopped is read again: the bytes it caused
\* leave, unless they were thrown away with their transport or the session is
\* over.
BlockedSourceResumes ==
    \A s \in Trans : source[s] > 0 ~> (source[s] = lost[s] \/ stack = <<>>)
=============================================================================

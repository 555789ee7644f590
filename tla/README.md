# A TLA+ model of myxrdp

myxrdp is xrdp 0.9.12 (a remote-desktop server) with additions for shared
sessions and for accounts handed out from a pool. This directory holds TLA+ modules for
the parts of it where order, interleaving and failure decide whether it works,
TLC configurations that check them on small instances, and TLAPS proofs, for every
instance, of all the invariants, action properties and refinements they check. All paths below are relative to
`src/xrdp-0.9.12/` unless they start with `src/`.

Contents: [1 Inventory](#1-inventory) - [2 Modules](#2-modules-and-the-code) -
[3 Runs](#3-runs) - [4 Bounds](#4-bounds) - [5 Fairness](#5-fairness) -
[6 Proofs](#6-proofs) - [7 Disagreements](#7-where-the-code-and-its-documents-disagree) -
[8 Limits](#8-what-is-not-modelled) - [9 Plan](#9-plan)

## 1 Inventory

Three kinds of process make up a running system.

- **xrdp** listens on the RDP port (`xrdp/xrdp_listen.c`) and forks a *session
  process* for each client. That process has one main thread
  (`xrdp/xrdp_process.c`), which polls every transport in turn, and one encoder
  thread (`xrdp/xrdp_encoder.c`).
- **xrdp-sesman** (`sesman/sesman.c`) is one daemon with one thread. It answers
  one SCP connection after the other, starts sessions by `fork()` and keeps a
  linked chain of session records that its signal handlers edit.
- **xrdp-chansrv** (`sesman/chansrv/`) runs inside each user session and carries
  the clipboard, sound, drives, smart cards and rail windows. It talks to the
  session process over a local socket.

| component | state | operations | talks to | what is hard | correct when |
|---|---|---|---|---|---|
| Buffered transports, `common/trans.c` | waiting streams per transport, input stream, `source[]`, `cur_source` | check_wait_objs, send_waiting, write_copy, force_write, delete | client, chansrv, module; callbacks of `xrdp_mm` | partial sends, re-entrant polls, deletion inside a callback, accounting spread over three functions | bytes arrive once and in order; `source[]` is exact; back-pressure stops and resumes a source; nobody uses a deleted transport |
| Encoder thread, `xrdp/xrdp_encoder.c`, `common/fifo.c` | two fifos, three wait objects, frame ids | paint_rects, process_enc_*, process_enc_done, frame_ack, create, delete | module, client | two threads, shared memory, wakeups, acks out of order, encoding failures, shutdown | no lost wakeup, no use of a freed frame, every frame is acknowledged exactly once and in order, bounded frames in flight |
| Session manager, `sesman/*.c` | session chain, count, authentication handles, child processes | SCP v0, v1 and management dialogues, start, reconnect, kill, SIGCHLD, SIGTERM, SIGHUP | xrdp, X servers, PAM | handlers interrupt the thread anywhere, signals coalesce, fork fails, X servers die in their own time | the count is exact, the limit holds, displays are not shared, one session per key, each login is answered |
| Module manager, `xrdp/xrdp_mm.c` | connection state, transports to sesman, chansrv and module | connect, login, channel data, rail orders, frame acks | all of the above | several asynchronous connections that can each fail | every connection attempt ends; resources are freed once |
| Session process, `xrdp/xrdp_process.c`, `xrdp_wm.c`, `xrdp_login_wnd.c` | up-and-running flag, `login_mode`, window manager | main loop, wm init, teardown | listener, libxrdp, `xrdp_mm` | order of the teardown, `login_mode` driven by callbacks | the login sequence advances; nothing is used after its teardown |
| Master and slave sessions, `xrdp/myxrdp_devel.c`, `common/myxrdp_*.c` | marker file, two named pipes, `my_trans_info` | become master or slave, forward PDUs, forward input | second session process | two processes that race for a file, blocking writes to a pipe, crash leaves the marker | one master per id; a slave never blocks its master |
| User pool and queries, `xrdp/myxrdp_extra.c`, `myxrdp_query.c` | account files, lock files | take and give back an account, query | redis bridge | processes racing for an account, crash while holding one | an account is in use by one session; it returns to the pool |
| Listener, `xrdp/xrdp.c`, `xrdp_listen.c` | process list, term and sync events | accept, fork, terminate | session processes | signals, fork failure | every accepted connection is served or closed |
| RDP layers, `libxrdp/xrdp_{rdp,sec,mcs,iso,fastpath,caps}.c` | connection sequence, encryption counters | receive and send PDUs | client | byte-level protocol | sequence respected |
| Virtual channels, `libxrdp/xrdp_channel.c`, `xrdpapi/xrdpapi.c` | table of dynamic channels with their status, id maps of `xrdp_mm` | open, data, close and their answers | client, chansrv, applications | ids reused by three tables that learn of a close at different times; a close that crosses an open | a message takes effect on its sender's channel only; ids come back |
| Orders, `libxrdp/xrdp_orders.c`, `xrdp_orders_rail.c` | the batch with its level, the last order, clip and fields sent | begin, append, force, end; one function per order | client, chansrv (rail) | orders are differences to a remembered state, re-entrant flush, sizes announced before they are known | the client draws what was asked; nothing is lost or left waiting |
| Caches, `xrdp/xrdp_cache.c` | bitmap tables, hash lists, linked order of use, stamps | add a bitmap, pointer, glyph or brush; reset | client | a table mirrored by the client without any answer from it | an index always names what the client has there; least recently used goes first |
| Channel server, `sesman/chansrv/` | dynamic-channel table, IRP table, clipboard owner, sound acks | channels of applications, device redirection, clipboard, sound | client, X, applications | requests answered out of order; xrdp goes away and comes back | a request is completed once |
| SCP library, `sesman/libscp/` | dialogue buffers | read and write one message | - | blocking reads | - |
| Redis bridge, `src/devel/conn_redis_server/` | sockets, redis connection | answer queries | redis | one thread per connection | each query is answered |

`PROJECT.json` lists all of them with their status, and every hazard at its
line with the property that would catch it or the reason there is none yet.

## 2 Modules and the code

### Trans

One session process seen from its transports. Two or more transports share one
`struct source_info`: `Client` (server_trans), `Chan` (chan_trans) and any
further ones (the module). A byte written on a transport is the number of the
byte, so that loss, doubling and overtaking can be seen; what it says is left
out. A stream of the waiting list `wait_s` is an interval of such numbers with
the source it is charged to.

The variable `stack` holds the running calls. The bottom frame is the main
loop; every other one is a running `trans_check_wait_objs`. A handler that sends
a drawing PDU to the client ends up, through the callback `0x5556` of
`libxrdp`, in `xrdp_mm_check_chan`, which polls `chan_trans` inside that handler
and may delete it; `Draws` says whose handlers do so. With `Chan \in Draws` the
handler of chan_trans itself does (rail orders), and the poll is of a transport
whose handler is running.

| action | code |
|---|---|
| `Poll`, `DeleteChan` | `xrdp_mm_check_wait_objs` and the poll of server_trans in `xrdp_process_main_loop` |
| `CheckDown`, `CheckNoRead`, `CheckEof`, `CheckReadPart`, `CheckDataIn`, `Flush` | the branches of `trans_check_wait_objs` |
| `DataInReturns`, `HandlerDies` | the end of `xrdp_mm_chan_data_in` and its siblings |
| `StartCopy`, `CopyLeftOver`, `CopyNew` | `trans_write_copy_s`; `SendWaiting` is `trans_send_waiting(self, 0)` |
| `StartForce`, `ForceSend`, `ForceEnd` | `trans_force_write_s`, used for what the client sends to chansrv |
| `CheckChan`, `CheckChanEnds` | `xrdp_mm_check_chan` |
| `LoopBreaks` | the breaks of `xrdp_process_main_loop` |
| `PeerReads`, `PeerSends`, `PeerCloses`, `SignalTerm` | the other ends of the sockets, and `g_is_term` |

`ByteChannel` is the abstract specification of a transport: bytes are accepted, leave
in the order they were accepted, each once, and are given up only when the connection
breaks. `TransChannel` maps a transport to it (pending bytes are those of the
waiting streams followed by the write in progress) and states `ReliableBytes`: Trans
implements `ByteChannel`.

Properties: `ReliableBytes`, `BytesInOrder`, `SourceAccounting`, `CurSourceIsInnermost`,
`NoUseAfterDelete`, `BackPressure`, `LostChargeBlocksSource`,
`BlockedSourceResumes`. Two of them deserve a word.
`SourceAccounting` has the term `lost`: `trans_delete` throws waiting streams
away without touching `source[]`, so the count of a source stays too high, and
`LostChargeBlocksSource` says what follows: that source is never read again,
though its own connection is healthy. The model keeps this behaviour; it is what
the code does.

At this commit the main loop also breaks in the turn that creates the window
manager; `SessionProcess` shows it. `Trans` models the transports at their own
interface, for a main loop that goes on.

### Encoder

The two threads of the codec pipeline. `fifo_to_proc` and `fifo_processed` are
guarded by one mutex, so an access is one step; setting and resetting a wait
object are steps of their own, because that is where wakeups get lost. The main
thread is `PaintRects`/`PaintSignal`/`PaintDirect` (`server_paint_rects`),
`CheckProcessed`, `ProcessEncDone`, `DrainEnds` (`xrdp_mm_process_enc_done`),
`FrameAck` (`xrdp_mm_frame_ack`), `SessionEnds` and `EncoderDelete`
(`xrdp_mm_delete`, `xrdp_encoder_delete`). The encoder thread is `WorkerTerm`,
`WorkerWakes`, `WorkerGets` (`proc_enc_msg`), `EncodeJpg`, `JpgEnds`, `EncodeRfx`,
`EncodeH264`, `WorkerSignals` (`process_enc_*`). `SignalTerm` is the process's own
termination signal: the thread leaves for it as it does for `encoder_term`, and the main loop
breaks (`SessionEnds`). Encoding one rectangle may succeed,
be skipped as empty or fail (`Outcomes`). The module is its window: it sends
frames with increasing ids, at most `Window` ahead of the last acknowledged one.
The client acknowledges frames it was shown, in any order, or all at once with
a negative id. It has something to acknowledge only where there is an encoder, since
only frames of the encoder are sent between frame markers; so `FrameAck`, which
dereferences the encoder unchecked, is enabled only then.

`EncoderDelete` sleeps one second before it frees. The model takes that second
as long enough for a thread that waits to see `encoder_term`, and not for one
that encodes. After the free the model stops: what the thread does with freed
memory is undefined. `ThreadLeftBeforeFree`, that the thread has left by then, is what the
comments promise and the code does not keep (section 7).

### Sesman

The daemon, with the steps of its only thread as fine as its reads and writes
of the chain, and `sig_sesman_session_end` and `sig_sesman_shutdown` enabled
between any two of them. `LinkNext`, `LinkHead` and `CountSession` are the three
assignments that end `session_start_fork`; each walk of the chain
(`session_get_bydata`, `session_get_byuser`,
`session_get_avail_display_from_chain`) takes one element per step. Outside the
daemon, a session child starts X once its display is free, ends at any time and
leaves an X server that is still stopping.

Decisions taken:

- `free()` overwrites both words of a `session_chain`, so a walk that follows a
  freed element ends the daemon (`FollowFreed`), also when the walk is the one of
  `session_kill` in the handler. The element keeps its number, so that
  `NoFreedElementRead` can see it. The record a search has returned is another
  matter: the display lies beyond the words that are overwritten, so
  `scp_v0_process` reads it and answers with it (`UseFoundItem`).
- `g_session_count++` is one instruction on the platforms the build supports.
- A session child inherits `sig_sesman_shutdown`, which returns because
  `g_getpid()` is not `g_pid`; its `waitpid` is restarted (`signal()` installs
  with SA_RESTART), so the signal of `session_sigkill_all` has no effect on it.
- A user stands for the whole key that `session_get_bydata` compares (user,
  bits per pixel, type and, by policy, geometry and address).
- No record ever becomes `SESMAN_SESSION_STATUS_DISCONNECTED`, so a version 1
  login always starts a session.
- Process ids are not reused within a behaviour. SIGHUP is left out, and so is a
  failing fork of the window manager inside the session child (section 8).

### Orders

The order batch of one session (`orders`: level, count, the orders in `out_s` and
their bytes), the state the server remembers of the last order sent
(`orders_state`), and the client, which decodes each PDU with the state the
protocol prescribes. The eight kinds of primary order are records of their fields
in the order of the present bits (`Rect` ... `Text`); `Encode` chooses the type
flag, the delta coordinates, the bounds and the fields as every
`xrdp_orders_*` function does, `OutBounds` keeps the 127/128 edge, the byte and
word widths and the exclusive right and bottom, and `After` is what is stored.
The secondary and window orders carry no remembered state: a record of the size
they announce to `xrdp_orders_check` and of the size they write.

`BeginUpdate`, `EndUpdate` are `xrdp_painter_begin_update` and `_end_update`;
`Draw` is a call of any order function, including `xrdp_orders_check` with its
forced send and new batch; `RailOrder` is a window order of chansrv, with its own
init and send; `SendPalette` and `Reset` are `libxrdp_send_palette` and
`libxrdp_reset`. A send ends in the callback that polls chan_trans, so a rail order
may be appended inside a forced send (`Asked`): it is dropped when the count is
reset after the callback, and `lost` counts it. An oversized order is refused
at level 0 only (`DrawRefused`). Failing sends end the session and are left out.
`OrdersAssumption` says what callers draw: coordinates of 16 bits, and no transform that is
used with a matrix of zeros.

Properties: `DrawnAsAsked` (the client rebuilds the order asked for, with a clip that
has the same effect), `StatesAgree`, `NoOrderLost`, `NothingLeftWaiting`,
`OneFragment`.

### Cache and LruCache

`Cache` is `xrdp/xrdp_cache.c` next to the client's copies: for each class of
bitmaps the table, the lists of indices by CRC, and the order of use as a
doubly linked list over the indices, which `Cut` shortens to the client's entries
at the first miss after a reset; for pointers (and, with other bounds, glyphs and
brushes) a table with stamps. `drawn` and `client_drawn` are what the client shows
when told the index.

`LruCache` is the abstract specification: a cache of a given size holds the items
last used, in that order, gives up the one used longest ago, and a use always
yields the item asked for. `BitmapsAreLru` and `StampedAreLru` say that `Cache`
implements it. The mapping of bitmaps walks along `lru_next` from the head over as many
places as the client has entries (`Walk`, `Listing`): the entries that hold a bitmap are the
last ones of the walk (`BitmapsByUse`). The mapping of the stamped items lists the used
entries by increasing stamp (`ByStamp`, `ItemsByUse`). A broken link, a stale CRC entry or a
wrong index all end as a step `LruCache` does not allow.

### DynChannels

Dynamic virtual channels from the application to the client and back: an
application (`xrdpapi.c`), chansrv with its table `g_drdynvcs`, the session process with
its table and the maps `xr2cr_cid_map` and `cs2xr_cid_map`, and the client. The four
queues between them are in order, and every message carries the application it is
about, which the code does not see: `landed` records whose message took
effect on whose channel. It covers data, closes and the client's answers at xrdp; when
chansrv takes the answer to a close its table has no owner for the id, and
`CloseIsUnderWay` and `TablesAgree` say what must hold there. An application may leave while its open is on the way. The
session process may end once and be replaced (`Detach`, `ChansrvResets`, `Attach`):
chansrv's table survives, xrdp's starts empty. The actions named `Api...` are
`my_api_trans_data_in` and the list of application connections, `Cs...`
chansrv's handlers of messages from xrdp, `Xr...` the handlers in `xrdp_mm.c` and
`xrdp_channel.c`. Errors inside `process_message` and `xrdp_mm_chan_process_msg` are
swallowed, as in the code.

`Spec` has a client that accepts channels and answers closes; `StraySpec` adds a client
that refuses a channel or closes one itself.

### SessionProcess

The main loop of `xrdp/xrdp_process.c` from its start to the first login mode: the
wait, `xrdp_wm_check_wait_objs`, the poll of the client, in which the window
manager is created, and `myxrdp_read_fifo_data`. It exists for the run
`process_wminit`.

## 3 Runs

Passing runs (times on two cores).

| run | shows | states | time |
|---|---|---|---|
| `trans_safety` | bytes in order and complete; accounting, back-pressure and the absence of use after delete, with a chansrv that may go away in the middle of anything and polls nested in the client's handler | 1 670 000 | 90 s |
| `trans_term` | each transport implements `ByteChannel`, also when a termination request cuts a blocking write, and with rail orders that let chan_trans be deleted under its handler | 530 000 | 50 s |
| `trans_live` | a source stopped by back-pressure is read again | 166 000 | 130 s |
| `encoder_safety` | six safety properties, for all codecs, outcomes and settings, with the session or the process ending anywhere; an ack is held back for ever only when some frame came to nothing | 176 000 | 65 s |
| `sesman_safety` | exact count, the limit and distinct displays, for all kinds of connection mixed, with failing forks, SIGTERM and SIGCHLD anywhere | 3 050 000 | 65 s |
| `sesman_live` | one session per user, a user is sent to its own display only, every login is answered, a session that ends alone loses its record; version 0, forks that succeed | 58 000 | 17 s |
| `orders` | the client draws what was asked, remembered state and client state agree, no order is lost or left waiting, a batch fits a fragment | 132 000 | 45 s |
| `cache` | both kinds of cache implement `LruCache`; hash lists exact; the client's entries are what the server takes them to be | 64 000 | 95 s |
| `dyn_safety` | no message on another application's channel, tables agree, no fragment lost, every closing id gets its answer | 1 180 000 | 45 s |

Runs that must find a violation, each the evidence for an entry of section 7:
`encoder_rfxack`, `dyn_mixup`, `process_wminit`.

For each property of a passing run `PROJECT.json` names a mutant: an operator
next to the definition it replaces, changed the way a slip in that code would
change it (a partial send that does not advance the pointer, a wakeup per frame,
an off-by-one in the limit). With the mutant TLC finds the property violated.

Deadlock checking is on in the runs of Trans and Encoder, where a finished session
stutters in `Stopped`, and in Orders and Cache. It is off in Sesman and DynChannels:
once the bounds on logins, or on applications and writes, are used up everybody
rightly waits for ever.

## 4 Bounds

- Trans: two transports are enough for every interaction of a source with
  another transport; the proofs are for any number. Two bytes per write and three per
  transport make a stream that is sent in two parts behind another one that
  waits (`trans_safety`; the refinement of `trans_term`, which costs
  more per step, is checked with two bytes, and `BytesInOrder` says of every state what it
  says of a step). A one-byte header and body make messages that arrive in two reads. A
  send buffer of one byte makes nearly every send partial.
- Encoder: three frames with a window and a flight limit of two let the window
  close and open again. Up to two rectangles make the difference between a last
  piece and another one; zero rectangles is the empty frame.
- Sesman: two users, a limit of two, and four connections, so that a third
  session is refused, a record is removed at the head, in the middle and at the
  tail of the chain, and a display is given out again. `Foreign`, in
  `sesman_live`, makes the search for a display skip one.

- Orders: every primary order once, four of them again with the first coordinate moved by
  128 and other values, two with one moved by 127 and a second clip, one of whose sides
  moves by less than 128 and one by more; clips that are needed and not needed;
  three sizes of bitmap, of which two or three fill the (small) batch; two nested updates,
  three orders.
- Cache: two classes of bitmaps, the larger with more bitmaps than entries and two that
  share a CRC, lists of four indices cut to the client's fewer entries, one bitmap that is
  too big; three pointers for two free entries next to the two static ones.
- DynChannels: three applications and two usable ids, so that an id is used again while its
  last owner's messages are on the way and an open is refused because none is free; two
  fragments from each application and two from the client.

`MCDynChannels` adds the symmetry of applications, which no action tells apart.
`MCSesman` adds the symmetry of users, which is sound because no action tells one
user from another and `sesman_safety` checks invariants only.

`MaxWrite`, `MaxBytes`, `MaxIn`, `MaxFrame`, `MaxLogins`, `MaxOrders`, `MaxStamp`, `MaxWrites`,
`MaxReplies`, `MaxPdus` exist only to keep the
instances finite.

## 5 Fairness

- Trans: weak fairness of the thread's next step, as the kernel runs it; strong
  fairness of a handler's return, of the deletion and of the break of the loop,
  because a handler makes finitely many writes and a turn of the loop ends; strong
  fairness of each poll, because every turn polls every transport; weak fairness of
  the peer's reads, which is the assumption the property is about: a peer that is
  there reads.
- Encoder: weak fairness of the encoder thread, and of every step the main
  thread has begun; strong fairness of `CheckProcessed`, because the main loop
  looks at the event in every turn, of the client's acknowledgements, which the
  protocol asks for, and of the end of the session once the process is to end, because
  every turn looks at `g_term_event`.
- Sesman: weak fairness of the thread and of the delivery of SIGCHLD; scripts
  end and a stopping X server exits. Nothing makes a session end.

- SessionProcess: weak fairness of the loop's next step, nothing of the client.

`sesman_live` serves version 0 logins and gateway checks only: the version 1 and
management dialogues read further messages from a client nobody can force to send
them.

## 6 Proofs

Every invariant, action property and refinement that a passing run checks is also a
theorem, for any sets and any bounds. Each module states in one named assumption what its
constants are (`TransAssumption`, `EncoderAssumption`, `SesmanAssumption`,
`OrdersAssumption`, `CacheAssumption`, `DynAssumption`; TLC evaluates them), and nothing
else is assumed but the hypotheses of six theorems, named below; without one of them its
property can fail in the code too. All theorems are of the form `Spec => []P` or `Spec => [][A]_v`,
by an inductive invariant with one lemma per action.

**Trans** (`TransProofs`, `TransSourceProofs`, `TransChannelProofs`; any transports).

- `TypeCorrect`, with the inductive invariant `Inv1 = TypeOK /\ StackOK /\ QueueOK /\ OpOK`.
  `TypeOK` alone is not inductive: popping a frame needs to know that the bottom frame is the
  main loop and only it (`StackOK`), and sending a part of a stream needs to know that a
  waiting stream is a non-empty interval of bytes already written, disjoint from its
  neighbours (`QueueOK`), and that the write in progress lies behind all of them (`OpOK`).
- `SourceAccountingHolds`: `source[s]` is the cardinality of the set of bytes charged to `s`
  over all transports. Each action changes that set by an interval that is added, removed or
  thrown away; since by `Inv1` the streams are disjoint, the cardinalities add up. From it
  follow `BackPressureHolds`, a message is handed to its handler only when that set is
  empty, and `LostChargeBlocks`, because a lost byte keeps `source[s]` above zero for ever.
- `NoUseAfterDeleteHolds`, with the hypothesis `Chan \notin Draws` (no rail orders). A
  deletion happens in two places, and in neither does a frame of chan_trans lie on the stack:
  only the top frame can be one of chan_trans, unless its handler draws. Section 7 has what
  happens when it does.
- `CurSourceIsInnermostHolds`: the invariant `CurInv` adds what every frame has saved
  (`SavedOK`), so that the value restored when a nested poll returns is the right one.
- `BytesInOrderHolds` and `ReliableBytesHolds`: by `BytesInv` the wire, the waiting streams and
  the write in progress tile what was accepted, without a gap. A broken `ByteChannel` takes
  and delivers nothing more, which needs `CallsInv`: which calls can be nested in
  which (`NestOK`), that a transport that went down is not flushed by a call further down the
  stack (`DownOK`), and that a deleted one has nothing to send (`GoneOK`). Every
  action is then a step of `ByteChannel`, for each transport, or a stutter.

**Encoder** (`EncoderProofs`; any codecs, frames and window). `EncInv` says that ids grow
along the encoder thread's frame and both fifos (`ToProcSorted`, `ProcessedSorted`), that a
frame's last piece is the only one marked so and comes after the pixels were read, that
only frames whose last piece was taken are freed and noted as done (`FreedFirst`,
`NotedAreFreed`), that an event is set whenever its fifo has work, unless its setter is about
to set it or its reader to look (`EventsOK`), which codec runs and when (`LifeOK`), and what
is in flight (`WindowOK`). It gives `NoFreedFrameEncoded`, `NoLostWakeup`, `AckedPixelsAreDone`,
`FramesInOrder` and `UnackedBounded`.

**Sesman** (`SesmanProofs`; any users, limit and number of logins, SIGCHLD and SIGTERM
between any two steps). `SInv` has what a record is at each place of the thread (`RecInv`);
that links lead to older elements and every kept record is on the chain (`ChainInv`), but for
the one being linked, whose link may by then lead to an element the handler freed; that the
count is the number of kept records, less the one not counted yet (`CountOK`); and what the
walks have passed, unless they stand on a freed element (`WalkInv`). The three properties about the limit, the count and the displays hold
without a hypothesis. `OneSessionPerUserHolds` has the hypothesis `"v1" \notin Kinds` (version
1 never reconnects), `SentToOwnSessionHolds` has `~MayFail` (a failed fork is answered with
a display).

**DynChannels** (`DynChannelsProofs`; any applications and ids, with the RDP connection lost
and made again; `Spec`, whose client refuses nothing and closes nothing by itself: with
`StraySpec` the run `dyn_mixup` shows `OwnChannelOnly` violated). The code does not remember
who had an id last, so the invariant quantifies it: `DynInv == \E cur : Inv(cur)`, where
`cur[i]` is the application that opened id `i` last. `Inv(cur)` gives every id one of four
stages (its open is under way, xrdp has it under an id of its own, xrdp has closed it and
the answer is on its way, or xrdp knows nothing of it)
and says for each what may be in which of the four queues, and in what order. `OwnChannelOnly`,
`TablesAgree`, `CloseIsUnderWay` and `NothingLost` follow.

**Orders** (`OrdersProofs`; any orders, clips and coordinates of 16 bits). `OrdersInv`: every
order is drawn, waiting or lost; decoding the waiting ones takes the client's state to
`orders_state` (`Coded`, `Agree`). The lemmas below it show, field by field, that what
`Encode` leaves out the client has: the delta and absolute coordinates, the bounds with their
inclusive right and bottom, the change flags. `OneFragmentHolds` has the hypothesis
`SizesFit`: a batch and each single order are at most a fragment, which is so for the
defaults (16128 against 16256 bytes). `DrawnAsAskedHolds` has `SizesFit \/ RailOps = {}`,
since between two fragments the callback may write over the rest of the stream.

**Cache** (`CacheProofs`; any classes, sizes and bitmaps). `CacheInv`: the linked list of each
class is one permutation of the client's entries, forwards and backwards, the crc16 lists
hold exactly the entries with that crc16, and after a reset everything is fresh; from it
`CrcListsExact` and `ClientAgrees`. `BitmapsAreLruHolds` adds `UseInv` (entries that hold
nothing come first, no bitmap twice): moving an entry to the tail of the permutation is taking
it out of the abstract list and appending it. `StampedAreLruHolds` uses `StampInv` (no stamp
beyond the last one, so the enumeration by stamp exists and is the only one) and has the
hypothesis `Blank \notin StampedItems`, since an all-zero item is found where nothing was
sent (section 7).

Induction over data, which would take the library's induction rules with an operator as
their parameter, is avoided: what is said of a recursive function (`Chain`, `Walk`) or of a
sequence is proved by the least counterexample, from the well-foundedness of `<` on the naturals.
No module has a RECURSIVE operator.

Only model-checked: the four liveness properties `BlockedSourceResumes`, `AckedUnlessUnseen`,
`EveryLoginAnswered` and `LoneEndIsNoticed`, since the prover has no rules for fairness and `ENABLED`,
and what the three runs that expect a violation show.

## 7 Where the code and its documents disagree

The quotations and lines are in `PROJECT.json` under `findings`.

- `encoder_rfxack`: "you must always send something back even on error so Xorg can
  get ack". A RemoteFX error sends an empty piece that a client with frame acks
  never sees, so the window stays closed. `AckedUnlessUnseen`, which holds, says that
  this is the only way an ack is held back.
- `dyn_mixup`: a handle stands for "a specified virtual channel". When the client refuses
  the channel, chansrv frees the id and the application keeps it; when the client
  closes it, chansrv goes on as if it were open. In both cases what the application does
  next takes effect on the channel of whoever got the id.
- `process_wminit`: "so xrdp_wm_init should be called by xrdp_wm_check_wait_objs". The
  loop has ended before.

The models show further ones, which no run keeps:

- A rail order makes the handler of chan_trans poll chan_trans; if chansrv has just
  gone away the transport is deleted under its handler (`xrdp_mm.c:2495`, then 1422).
  `NoUseAfterDelete` is violated in Trans with `Draws = {client, chan}`.
- "if the session started up ok, auth_end will be called on sig child"
  (`sesman/scp_v0.c:139`). It is not: the daemon's handle is lost.
  `AuthEndedOnSigChild` of Sesman is violated with two users, `Kinds = {"v0"}`, two
  logins and no failures.
- "tell worker thread to shut down" (`xrdp/xrdp_encoder.c:166`), "shutdown thread"
  (`xrdp/xrdp_mm.c:154`): the main thread tells it, sleeps one second and frees the codec,
  the fifos, the mutex and the struct. A thread with a long frame, or with several in its fifo,
  which it empties before it looks at the event, is still encoding.
  `ThreadLeftBeforeFree` of Encoder is violated, in seven states, with `jpg` and with `rfx`.
- session_get_bydata() "finds a session matching the supplied parameters" and returns "session
  data or 0" (`sesman/session.h:90`). The handler frees the element that the walk stands on,
  or the one it has just returned (`sesman/session.c:963`). `NoFreedElementRead` of Sesman is
  violated, same constants as above.
- A record's pid is the "pid of sesman waiting for wm to end" (`sesman/session.h:63`). When
  two children end together one SIGCHLD arrives and one of them is reaped
  (`sesman/sig.c:138`); the record of the other stays on the chain, is counted against the
  limit, and its user is sent to the dead session. When a further child ends, one of the two is
  reaped and the other's record stays. `RecordsFollowSessions` of Sesman is violated under
  `FairSpec`, same constants; `LoneEndIsNoticed`, which holds, says that this is the only way
  the end of a session whose record is on the chain goes unnoticed. `CountIsExact` holds all
  the same, since it counts records, not sessions. A record that is linked after its process
  was reaped stays, too.
- A rail order that arrives in the callback of a forced send is thrown away
  (`xrdp_orders.c:211`, `CallbackOrdersSent` of Orders), although the callback is there "so
  the module can send any high priority mcs packets" (`libxrdp/xrdp_mcs.c:982`).
- `process_enc_jpg` sends nothing back on an error (`EncodeJpg`), against the same
  comment.
- A failed `fork()` is answered with a display (`session_start_fork`), against
  "0 on error" (`sesman/session.h:104`); `SentToOwnSession` therefore needs forks
  that succeed.
- MaxSessions=0 allows no session (`LimitReached`); `sesman.ini(5)` says unlimited.
- A version 1 login never finds a session to reconnect to (`session_get_byuser`);
  `OneSessionPerUser` therefore is a property of version 0 logins.
- "sends sigkill to all sessions" (`sesman/session.h:126`) has no effect on them
  (`sig_sesman_shutdown`).
- A management action spins for ever (`scp_v1_mng_process`).
- Orders: a composite order compares `srctransform[1..9]` with a copy that is never
  stored; it announces 80 bytes and may write 94, and a bitmap announces 16 bytes of
  header and may write 23: the slack of 100 bytes pays, and `OneFragment` shows that it is
  enough. An oversized order is refused only when no batch is open. A raw 64 x 64 tile of 32
  bits loses its last rows. An order drawn outside an update would leave the level one too
  high; no caller does so. A client whose MultifragmentUpdate capability is larger
  than about 16.5 K (`xrdp_caps.c:562`) raises MAX_ORDERS_SIZE above FASTPATH_FRAG_SIZE
  (`xrdp_rdp.c:40`): a PDU may then take several fragments, and a rail order written in the
  callback between two of them overwrites what is still to be sent. The hypothesis `SizesFit`
  of section 6 is about this.
- Cache: an all-zero brush or glyph is found in an entry that was never sent. A bitmap
  that is too big is answered with entry 0 of class 0. With a cache of no entries the list is
  cut at -1. `xrdp_cache_reset` forgets the off-screen surfaces.
- DynChannels: an application that leaves while no xrdp is attached keeps its id for ever, as
  do the survivors of a reconnection; a client without `drdynvc` leaves the application
  waiting for an answer; after a refused open the audio input never starts again
  (`audin.c`), and the handle's socket is not closed (`xrdpapi.c`).

## 8 What is not modelled

- In the modelled parts: the listener branch of `trans_check_wait_objs`,
  `trans_connect`, `trans_force_read_s` and the forwarding of client data to a slave
  session in `common/trans.c`; failing `malloc` in the encoder; in sesman the SIGHUP
  reload, the bytes of the dialogues, pid reuse, and a failing fork of the window
  manager, after which the session child goes on as a second daemon; the audio input of
  chansrv as a user of dynamic channels inside the process; the palette cache and the
  off-screen surfaces.
- The master and slave sessions, the account pool and the queries to the redis
  bridge start in login mode 2. `process_wminit` shows that the session process ends
  before it gets there at this commit, so a model of them would have no behaviour of the
  program to be faithful to.
- Compression, painting, font and bitmap code, the byte formats of the RDP layers and of
  SCP, PAM and Kerberos calls, the configuration parser and the command-line
  tools: pure data transformation or library calls, with an input space that says nothing
  at the sizes TLC can reach.
- Third-party code: cJSON, redis, jsoncpp, scons, librfxcodec, libpainter. The vendored
  redis alone is most of the C code of the repository, and no part of the system calls it
  but through its protocol; the share of the repository's lines that the modules stand for
  is therefore small, and cannot become large.
- The components marked *not_modelled* in `PROJECT.json` that the plan names.

## 9 Plan

Done: Trans with ByteChannel, Encoder, Sesman, Orders, Cache with LruCache, DynChannels,
SessionProcess, and the proofs of all their safety properties and refinements.

1. Abstract specifications of what Sesman and Encoder promise (a session per key, frames shown
   and acknowledged in order), with the refinements proved from `SInv` and `EncInv`, which
   already hold what those proofs need; action properties of Sesman's chain.
2. `DevRedir`: the IRP table of chansrv, clipboard ownership and sound acks; a
   chansrv that writes before it reads, composed with Trans to show or exclude the
   mutual wait of `trans_force_write`.
3. The connection sequence of `xrdp_mm` (sesman login, module, chansrv) and the order of
   the teardown, for a main loop that gets that far.

---------------------------- MODULE DynChannels ----------------------------
(***************************************************************************)
(* Dynamic virtual channels.  An application opens a channel by name with  *)
(* xrdpapi; chansrv gives it an id of its own table (g_drdynvcs) and asks  *)
(* xrdp; xrdp takes an id of its table (drdynvcs), notes which id is which *)
(* (xr2cr_cid_map, cs2xr_cid_map) and asks the client.  Answers and data   *)
(* come back the same way.  Each of the three keeps the state of a channel *)
(* for itself, and messages are on their way between them meanwhile.       *)
(*                                                                         *)
(* One message is one step of its receiver: chansrv and the session        *)
(* process are single threads, and what xrdp sends here goes out on the    *)
(* static channel drdynvc: only a send on the global channel polls         *)
(* chan_trans (xrdp_mcs_send, callback 0x5556).                            *)
(***************************************************************************)
EXTENDS Integers, Sequences, FiniteSets, SequencesExt, FiniteSetsExt

CONSTANTS Apps,          \* connections of applications to chansrv, each opening one channel
          MaxId,         \* 255: the highest id of both tables
          MaxWrites,     \* bound: fragments the applications write
          MaxReplies,    \* bound: fragments the client sends
          MayDetach,     \* whether the RDP connection is lost (once) and made again
          None

ASSUME DynAssumption ==
    /\ MaxId \in Nat \ {0} /\ {MaxWrites, MaxReplies} \subseteq Nat
    /\ MayDetach \in BOOLEAN /\ None \notin Apps

Ids    == 0 .. MaxId
Status == {"CLOSED", "OPEN_SENT", "OPEN", "CLOSE_SENT"}

VARIABLES
    app,                 \* idle, asking, open, leaked (OpenEx gave NULL), gone
    chan_id,             \* chansrv's xrdp_api_data of it
    status, api_trans,   \* chansrv: g_drdynvcs
    xr_status, procs,    \* xrdp: drdynvcs, and whether its callbacks are set
    xr2cr, cs2xr,        \* xrdp: the id maps of xrdp_mm
    cl,                  \* client: the application whose channel an id is
    to_xr, to_cs,        \* chansrv <-> xrdp
    to_cl, from_cl,      \* xrdp <-> client
    con,                 \* chansrv's connection to xrdp: up, closing, down
    dvc,                 \* whether the client has the drdynvc static channel
    detached,            \* whether the RDP connection was lost
    sent, got, replied,  \* fragments: written, at the client, from the client
    landed               \* <<whose message, whose channel it took effect on>>

appVars  == <<app, chan_id>>
csVars   == <<status, api_trans>>
xrVars   == <<xr_status, procs, xr2cr, cs2xr>>
linkVars == <<con, dvc, detached>>
talliedVars == <<sent, got, replied, landed>>
vars == <<appVars, csVars, xrVars, cl, to_xr, to_cs, to_cl, from_cl, linkVars, talliedVars>>

Msg(t, i, a) == [type |-> t, id |-> i, app |-> a]

\* A new session process: nothing is open, every map entry is zero.
NewProcess ==
    [status |-> [j \in Ids |-> "CLOSED"], procs |-> [j \in Ids |-> FALSE],
     map |-> [j \in Ids |-> 0], cl |-> [j \in Ids |-> None]]

Init ==
    /\ app = [a \in Apps |-> "idle"] /\ chan_id = [a \in Apps |-> 0]
    /\ status = [i \in Ids |-> "CLOSED"] /\ api_trans = [i \in Ids |-> None]
    /\ xr_status = NewProcess.status /\ procs = NewProcess.procs
    /\ xr2cr = NewProcess.map /\ cs2xr = NewProcess.map /\ cl = NewProcess.cl
    /\ to_xr = <<>> /\ to_cs = <<>> /\ to_cl = <<>> /\ from_cl = <<>>
    /\ con = "up" /\ dvc \in BOOLEAN /\ detached = FALSE
    /\ sent = [a \in Apps |-> 0] /\ got = [a \in Apps |-> 0]
    /\ replied = 0 /\ landed = {}

\* A write of chansrv goes out while xrdp is there, and nowhere once it has left.
Write(ms) == to_xr' = IF con = "up" THEN to_xr \o ms ELSE to_xr

\* The message took effect on b's channel, if it is anyone's.
Lands(a, b) == landed' = IF b = None THEN landed ELSE landed \cup {<<a, b>>}

-----------------------------------------------------------------------------
(* Applications (xrdpapi.c) and chansrv.  The socket between the two keeps   *)
(* the order, so what an application does counts from when chansrv reads it. *)

\* Mutant of Free: the search starts at 0.
FreeFromZero(table) == {i \in Ids : table[i] = "CLOSED"}

\* Mutant of Free: an id whose close is on its way is taken too.
FreeWhileClosing(table) == {i \in Ids \ {0} : table[i] \in {"CLOSED", "CLOSE_SENT"}}

\* The ids an open may take: they are searched from 1.
Free(table) == {i \in Ids \ {0} : table[i] = "CLOSED"}

\* api_con_trans_list_check_wait_objs: the connection is over.  The channel is
\* closed whatever its status, unless there is no xrdp to tell.
Disconnect(a) ==
    /\ app' = [app EXCEPT ![a] = "gone"]
    /\ Write(<<Msg("close", chan_id[a], a)>>)
    /\ status' = IF con = "down" THEN status ELSE [status EXCEPT ![chan_id[a]] = "CLOSE_SENT"]
    /\ api_trans' = [i \in Ids |-> IF api_trans[i] = a THEN None ELSE api_trans[i]]

\* WTSVirtualChannelOpenEx connects, sends its request and waits;
\* my_api_trans_data_in and chansrv_drdynvc_open take the lowest closed id.
ApiOpen(a) ==
    /\ app[a] = "idle"
    /\ con # "down" /\ Free(status) # {}
    /\ LET i == Min(Free(status))
       IN  /\ chan_id' = [chan_id EXCEPT ![a] = i]
           /\ status' = [status EXCEPT ![i] = "OPEN_SENT"]
           /\ api_trans' = [api_trans EXCEPT ![i] = a]
           /\ Write(<<Msg("open", i, a)>>)
    /\ app' = [app EXCEPT ![a] = "asking"]
    /\ UNCHANGED <<xrVars, cl, to_cs, to_cl, from_cl, linkVars, talliedVars>>

\* No id is free or xrdp is away: the handler fails with chan_id still 0, and the
\* connection is ended.
ApiOpenFails(a) ==
    /\ app[a] = "idle"
    /\ con # "up" \/ Free(status) = {}
    /\ Disconnect(a)
    /\ UNCHANGED <<chan_id, xrVars, cl, to_cs, to_cl, from_cl, linkVars, talliedVars>>

\* WTSVirtualChannelClose, or the process ends.
ApiDisconnect(a) ==
    /\ app[a] \in {"asking", "open", "leaked"}
    /\ Disconnect(a)
    /\ UNCHANGED <<chan_id, xrVars, cl, to_cs, to_cl, from_cl, linkVars, talliedVars>>

\* Mutant of Fragments: the loop after the first fragment is left out.
FragmentsFirstOnly(a, n) == <<Msg(IF n > 1 THEN "first" ELSE "data", chan_id[a], a)>>

\* chansrv_drdynvc_send_data: n fragments, the first one with the total if n > 1.
Fragments(a, n) ==
    [k \in 1 .. n |-> Msg(IF k = 1 /\ n > 1 THEN "first" ELSE "data", chan_id[a], a)]

\* WTSVirtualChannelWrite and my_api_trans_data_in.
ApiWrite(a, n) ==
    /\ app[a] = "open" /\ con # "down"
    /\ SumFunction(sent) + n <= MaxWrites
    /\ Write(Fragments(a, n))
    /\ sent' = [sent EXCEPT ![a] = @ + n]
    /\ UNCHANGED <<appVars, csVars, xrVars, cl, to_cs, to_cl, from_cl, linkVars, got, replied, landed>>

\* The same with xrdp away: the handler fails and the connection is ended.
ApiWriteFails(a) ==
    /\ app[a] = "open" /\ con # "up"
    /\ Disconnect(a)
    /\ UNCHANGED <<chan_id, xrVars, cl, to_cs, to_cl, from_cl, linkVars, talliedVars>>

-----------------------------------------------------------------------------
(* chansrv: messages from xrdp *)

\* What WTSVirtualChannelOpenEx makes of an answer: a handle, or NULL when it is
\* a refusal or comes after the 500 ms; its socket then stays open.
Answered(t) == IF t = "opened" THEN {"open", "leaked"} ELSE {"leaked"}

\* process_message_drdynvc_open_response: believed while the open is on its way,
\* and passed on by my_api_open_response.
CsOpenResponse ==
    /\ to_cs # <<>> /\ Head(to_cs).type \in {"opened", "refused"}
    /\ LET m == Head(to_cs)
           a == api_trans[m.id]
       IN  IF status[m.id] # "OPEN_SENT"
           THEN UNCHANGED <<status, app, landed>>
           ELSE /\ status' = [status EXCEPT ![m.id] = IF m.type = "opened" THEN "OPEN" ELSE "CLOSED"]
                /\ IF a = None THEN UNCHANGED app
                   ELSE \E r \in Answered(m.type) : app' = [app EXCEPT ![a] = r]
                /\ Lands(m.app, a)
    /\ to_cs' = Tail(to_cs)
    /\ UNCHANGED <<chan_id, api_trans, xrVars, cl, to_xr, to_cl, from_cl, linkVars, sent, got, replied>>

\* process_message_drdynvc_close_response: "status not right" unless asked for.
CsCloseResponse ==
    /\ to_cs # <<>> /\ Head(to_cs).type = "closed"
    /\ LET i == Head(to_cs).id
       IN  status' = IF status[i] = "CLOSE_SENT" THEN [status EXCEPT ![i] = "CLOSED"] ELSE status
    /\ to_cs' = Tail(to_cs)
    /\ UNCHANGED <<appVars, api_trans, xrVars, cl, to_xr, to_cl, from_cl, linkVars, talliedVars>>

\* process_message_drdynvc_data_first and _data, my_api_data_first and my_api_data:
\* to the application of that id, if there is one, whatever the status.
CsData ==
    /\ to_cs # <<>> /\ Head(to_cs).type = "data"
    /\ Lands(Head(to_cs).app, api_trans[Head(to_cs).id])
    /\ to_cs' = Tail(to_cs)
    /\ UNCHANGED <<appVars, csVars, xrVars, cl, to_xr, to_cl, from_cl, linkVars, sent, got, replied>>

-----------------------------------------------------------------------------
(* xrdp: messages from chansrv *)

\* Mutant of XrOpen: the map from chansrv's ids is set the first time only.
XrOpenOneMap ==
    /\ to_xr # <<>> /\ Head(to_xr).type = "open"
    /\ LET m == Head(to_xr)
           j == Min(Free(xr_status))
       IN  IF ~dvc \/ Free(xr_status) = {}
           THEN UNCHANGED <<xrVars, to_cl>>
           ELSE /\ xr_status' = [xr_status EXCEPT ![j] = "OPEN_SENT"]
                /\ procs' = [procs EXCEPT ![j] = TRUE]
                /\ xr2cr' = [xr2cr EXCEPT ![j] = m.id]
                /\ cs2xr' = IF cs2xr[m.id] = 0 THEN [cs2xr EXCEPT ![m.id] = j] ELSE cs2xr
                /\ to_cl' = Append(to_cl, Msg("open", j, m.app))
    /\ to_xr' = Tail(to_xr)
    /\ UNCHANGED <<appVars, csVars, cl, to_cs, from_cl, linkVars, talliedVars>>

\* xrdp_mm_trans_process_drdynvc_channel_open: the lowest closed id.  Without the
\* drdynvc channel, or with no id free, it fails and chansrv is not told.
XrOpen ==
    /\ to_xr # <<>> /\ Head(to_xr).type = "open"
    /\ LET m == Head(to_xr)
           j == Min(Free(xr_status))
       IN  IF ~dvc \/ Free(xr_status) = {}
           THEN UNCHANGED <<xrVars, to_cl>>
           ELSE /\ xr_status' = [xr_status EXCEPT ![j] = "OPEN_SENT"]
                /\ procs' = [procs EXCEPT ![j] = TRUE]
                /\ xr2cr' = [xr2cr EXCEPT ![j] = m.id]
                /\ cs2xr' = [cs2xr EXCEPT ![m.id] = j]
                /\ to_cl' = Append(to_cl, Msg("open", j, m.app))
    /\ to_xr' = Tail(to_xr)
    /\ UNCHANGED <<appVars, csVars, cl, to_cs, from_cl, linkVars, talliedVars>>

\* Mutant of XrClose: a channel the client has not confirmed is not closed.
XrCloseOpenOnly ==
    /\ to_xr # <<>> /\ Head(to_xr).type = "close"
    /\ LET j == cs2xr[Head(to_xr).id]
       IN  IF xr_status[j] # "OPEN"
           THEN UNCHANGED <<xr_status, to_cl>>
           ELSE /\ xr_status' = [xr_status EXCEPT ![j] = "CLOSE_SENT"]
                /\ to_cl' = Append(to_cl, Msg("close", j, Head(to_xr).app))
    /\ to_xr' = Tail(to_xr)
    /\ UNCHANGED <<appVars, csVars, procs, xr2cr, cs2xr, cl, to_cs, from_cl, linkVars, talliedVars>>

\* xrdp_channel_drdynvc_close: "not open" is an error nobody hears of.
XrClose ==
    /\ to_xr # <<>> /\ Head(to_xr).type = "close"
    /\ LET j == cs2xr[Head(to_xr).id]
       IN  IF xr_status[j] \notin {"OPEN", "OPEN_SENT"}
           THEN UNCHANGED <<xr_status, to_cl>>
           ELSE /\ xr_status' = [xr_status EXCEPT ![j] = "CLOSE_SENT"]
                /\ to_cl' = Append(to_cl, Msg("close", j, Head(to_xr).app))
    /\ to_xr' = Tail(to_xr)
    /\ UNCHANGED <<appVars, csVars, procs, xr2cr, cs2xr, cl, to_cs, from_cl, linkVars, talliedVars>>

\* xrdp_channel_drdynvc_data_first and _data: dropped unless the channel is open.
XrData ==
    /\ to_xr # <<>> /\ Head(to_xr).type \in {"first", "data"}
    /\ LET m == Head(to_xr)
           j == cs2xr[m.id]
       IN  to_cl' = IF xr_status[j] = "OPEN" THEN Append(to_cl, Msg(m.type, j, m.app)) ELSE to_cl
    /\ to_xr' = Tail(to_xr)
    /\ UNCHANGED <<appVars, csVars, xrVars, cl, to_cs, from_cl, linkVars, talliedVars>>

-----------------------------------------------------------------------------
(* xrdp: messages from the client *)

\* What a callback of xrdp_mm writes to chansrv, under chansrv's id.
Forward(t, m) == to_cs' = IF procs[m.id] THEN Append(to_cs, Msg(t, xr2cr[m.id], m.app)) ELSE to_cs

\* drdynvc_process_open_channel_response: sets the status whatever it was.
XrOpenResponse ==
    /\ from_cl # <<>> /\ Head(from_cl).type \in {"opened", "refused"}
    /\ LET m == Head(from_cl)
       IN  /\ xr_status' = [xr_status EXCEPT ![m.id] = IF m.type = "opened" THEN "OPEN" ELSE "CLOSED"]
           /\ Forward(m.type, m)
           /\ Lands(m.app, cl[m.id])
    /\ from_cl' = Tail(from_cl)
    /\ UNCHANGED <<appVars, csVars, procs, xr2cr, cs2xr, cl, to_xr, to_cl, linkVars, sent, got, replied>>

\* drdynvc_process_close_channel_response: asked for or not.
XrCloseResponse ==
    /\ from_cl # <<>> /\ Head(from_cl).type = "closed"
    /\ LET m == Head(from_cl)
       IN  /\ xr_status' = [xr_status EXCEPT ![m.id] = "CLOSED"]
           /\ Forward("closed", m)
           /\ Lands(m.app, cl[m.id])
    /\ from_cl' = Tail(from_cl)
    /\ UNCHANGED <<appVars, csVars, procs, xr2cr, cs2xr, cl, to_xr, to_cl, linkVars, sent, got, replied>>

\* drdynvc_process_data_first and _data: passed on whatever the status.
XrClientData ==
    /\ from_cl # <<>> /\ Head(from_cl).type = "data"
    /\ Forward("data", Head(from_cl))
    /\ from_cl' = Tail(from_cl)
    /\ UNCHANGED <<appVars, csVars, xrVars, cl, to_xr, to_cl, linkVars, talliedVars>>

-----------------------------------------------------------------------------
(* The client.  It takes channels by name, answers every close, and sends    *)
(* data on the channels it has.                                              *)

ClientTakes(types) == to_cl # <<>> /\ Head(to_cl).type \in types /\ to_cl' = Tail(to_cl)

ClientAccepts ==
    /\ ClientTakes({"open"})
    /\ cl' = [cl EXCEPT ![Head(to_cl).id] = Head(to_cl).app]
    /\ from_cl' = Append(from_cl, Msg("opened", Head(to_cl).id, Head(to_cl).app))
    /\ UNCHANGED <<appVars, csVars, xrVars, to_xr, to_cs, linkVars, talliedVars>>

ClientCloses ==
    /\ ClientTakes({"close"})
    /\ LET j == Head(to_cl).id
       IN  /\ cl' = [cl EXCEPT ![j] = None]
           /\ Lands(Head(to_cl).app, cl[j])
           /\ from_cl' = Append(from_cl, Msg("closed", j, cl[j]))
    /\ UNCHANGED <<appVars, csVars, xrVars, to_xr, to_cs, linkVars, sent, got, replied>>

ClientGetsData ==
    /\ ClientTakes({"first", "data"})
    /\ LET m == Head(to_cl)
       IN  /\ Lands(m.app, cl[m.id])
           /\ got' = IF cl[m.id] = m.app THEN [got EXCEPT ![m.app] = @ + 1] ELSE got
    /\ UNCHANGED <<appVars, csVars, xrVars, cl, to_xr, to_cs, from_cl, linkVars, sent, replied>>

ClientSends(j) ==
    /\ cl[j] # None /\ replied < MaxReplies
    /\ from_cl' = Append(from_cl, Msg("data", j, cl[j]))
    /\ replied' = replied + 1
    /\ UNCHANGED <<appVars, csVars, xrVars, cl, to_xr, to_cs, to_cl, linkVars, sent, got, landed>>

-----------------------------------------------------------------------------
(* The RDP connection *)

\* The client is gone and the session process ends; chansrv reads what is left.
Detach ==
    /\ MayDetach /\ ~detached
    /\ con = "up" /\ con' = "closing" /\ detached' = TRUE
    /\ to_xr' = <<>> /\ to_cl' = <<>> /\ from_cl' = <<>>
    /\ xr_status' = NewProcess.status /\ procs' = NewProcess.procs
    /\ xr2cr' = NewProcess.map /\ cs2xr' = NewProcess.map /\ cl' = NewProcess.cl
    /\ UNCHANGED <<appVars, csVars, to_cs, dvc, talliedVars>>

\* channel_thread_loop: g_con_trans is deleted, g_drdynvcs stays as it is.
ChansrvResets ==
    /\ con = "closing" /\ to_cs = <<>>
    /\ con' = "down"
    /\ UNCHANGED <<appVars, csVars, xrVars, cl, to_xr, to_cs, to_cl, from_cl, dvc, detached, talliedVars>>

\* my_trans_conn_in: a new session process has connected.
Attach ==
    /\ con = "down" /\ con' = "up"
    /\ dvc' \in BOOLEAN
    /\ UNCHANGED <<appVars, csVars, xrVars, cl, to_xr, to_cs, to_cl, from_cl, detached, talliedVars>>

-----------------------------------------------------------------------------

Next ==
    \/ \E a \in Apps : \/ ApiOpen(a) \/ ApiOpenFails(a) \/ ApiDisconnect(a)
                       \/ ApiWriteFails(a) \/ \E n \in 1 .. 2 : ApiWrite(a, n)
    \/ CsOpenResponse \/ CsCloseResponse \/ CsData
    \/ XrOpen \/ XrClose \/ XrData \/ XrOpenResponse \/ XrCloseResponse \/ XrClientData
    \/ ClientAccepts \/ ClientCloses \/ ClientGetsData \/ \E j \in Ids : ClientSends(j)
    \/ Detach \/ ChansrvResets \/ Attach

Spec == Init /\ [][Next]_vars

-----------------------------------------------------------------------------
(* A client that also refuses channels, and closes them unasked, as the      *)
(* protocol allows.                                                          *)

ClientRefuses ==
    /\ ClientTakes({"open"})
    /\ from_cl' = Append(from_cl, Msg("refused", Head(to_cl).id, Head(to_cl).app))
    /\ UNCHANGED <<appVars, csVars, xrVars, cl, to_xr, to_cs, linkVars, talliedVars>>

ClientClosesItself(j) ==
    /\ cl[j] # None
    /\ cl' = [cl EXCEPT ![j] = None]
    /\ from_cl' = Append(from_cl, Msg("closed", j, cl[j]))
    /\ UNCHANGED <<appVars, csVars, xrVars, to_xr, to_cs, to_cl, linkVars, talliedVars>>

StrayNext == Next \/ ClientRefuses \/ \E j \in Ids : ClientClosesItself(j)

StraySpec == Init /\ [][StrayNext]_vars

-----------------------------------------------------------------------------
(* Properties *)

\* Types: the structures of chansrv.c, xrdp_channel.c and xrdp_mm.c.  An id on
\* the wire is one of the table's; id 0 is never opened, only closed.
TypeOK ==
    /\ app \in [Apps -> {"idle", "asking", "open", "leaked", "gone"}]
    /\ chan_id \in [Apps -> Ids]
    /\ status \in [Ids -> Status] /\ status[0] \in {"CLOSED", "CLOSE_SENT"}
    /\ api_trans \in [Ids -> Apps \cup {None}]
    /\ xr_status \in [Ids -> Status] /\ xr_status[0] = "CLOSED" /\ procs \in [Ids -> BOOLEAN]
    /\ xr2cr \in [Ids -> Ids] /\ cs2xr \in [Ids -> Ids] /\ cl \in [Ids -> Apps \cup {None}]
    /\ con \in {"up", "closing", "down"} /\ {dvc, detached} \subseteq BOOLEAN
    /\ {sent, got} \subseteq [Apps -> Nat] /\ replied \in 0 .. MaxReplies
    /\ landed \subseteq Apps \X Apps

\* What an application writes or closes, and what the client sends or answers,
\* takes effect on that application's own channel and on no other, though ids are
\* used again by three tables that learn of a close at different times.
OwnChannelOnly == \A p \in landed : p[1] = p[2]

\* An id chansrv has open is open in xrdp under the id the maps give, and is that
\* application's channel at the client (until the RDP connection is lost).
TablesAgree ==
    ~detached => \A i \in Ids : status[i] = "OPEN" =>
        LET j == cs2xr[i] IN xr_status[j] = "OPEN" /\ xr2cr[j] = i /\ cl[j] = api_trans[i]

InFlight(a, q) == Cardinality({k \in 1 .. Len(q) : q[k].app = a /\ q[k].type \in {"first", "data"}})

\* Every fragment an application wrote is at the client or on its way: xrdp drops
\* none for its status, though the application may leave right after writing.
NothingLost ==
    ~detached => \A a \in Apps : sent[a] = got[a] + InFlight(a, to_xr) + InFlight(a, to_cl)

Carries(q, t, i) == \E k \in 1 .. Len(q) : q[k].type = t /\ q[k].id = i

\* An id chansrv is closing is not lost: the request or its answer is on its way,
\* wherever the opening had got to when the application left.  So the id is free
\* again once everyone has read what is there.
CloseIsUnderWay ==
    dvc /\ ~detached => \A i \in Ids \ {0} : status[i] = "CLOSE_SENT" =>
        LET j == cs2xr[i]
        IN  \/ Carries(to_xr, "close", i) \/ Carries(to_cs, "closed", i)
            \/ xr2cr[j] = i /\ (Carries(to_cl, "close", j) \/ Carries(from_cl, "closed", j))
=============================================================================

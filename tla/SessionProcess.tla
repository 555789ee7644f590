--------------------------- MODULE SessionProcess ---------------------------
(***************************************************************************)
(* The main loop of a session process (xrdp_process_main_loop) up to the   *)
(* first login mode: the connection sequence with the client, the making   *)
(* of the window manager and xrdp_wm_init, with the checks of one turn of  *)
(* the loop in their order.  What comes after, the direct menu and the     *)
(* master and slave sessions, begins with login mode 2.                    *)
(***************************************************************************)
EXTENDS Naturals

CONSTANT MaxPdus          \* bound: messages the client sends

VARIABLES
    pc,                   \* where the turn is: wait, wm, client, fifo, ended
    pdus, sent, closed,   \* the client: unread messages, messages sent, gone
    term,                 \* the term event of xrdp
    up_and_running,       \* the connection sequence is through
    wm,                   \* whether the window manager exists
    my_trans_info,        \* NULL until myxrdp_conn_manager makes one
    login_mode, login_mode_event

vars == <<pc, pdus, sent, closed, term, up_and_running, wm, my_trans_info, login_mode, login_mode_event>>
client == <<pdus, sent, closed>>
window == <<wm, my_trans_info, login_mode, login_mode_event>>

Init ==
    /\ pc = "wait" /\ pdus = 0 /\ sent = 0 /\ closed = FALSE /\ term = FALSE
    /\ up_and_running = FALSE
    /\ wm = FALSE /\ my_trans_info = "NULL" /\ login_mode = 0 /\ login_mode_event = FALSE

ClientSends ==
    /\ ~closed /\ sent < MaxPdus
    /\ pdus' = pdus + 1 /\ sent' = sent + 1
    /\ UNCHANGED <<pc, closed, term, up_and_running, window>>

\* The client leaves, or sends what libxrdp_process_data refuses.
ClientLeaves ==
    /\ closed' = TRUE
    /\ UNCHANGED <<pc, pdus, sent, term, up_and_running, window>>

Terminate ==
    /\ term' = TRUE
    /\ UNCHANGED <<pc, client, up_and_running, window>>

\* g_obj_wait and the term event.
Wait ==
    /\ pc = "wait"
    /\ term \/ closed \/ pdus > 0 \/ login_mode_event
    /\ pc' = IF term THEN "ended" ELSE "wm"
    /\ UNCHANGED <<client, term, up_and_running, window>>

\* xrdp_wm_check_wait_objs: the first login mode is xrdp_wm_init, which sets mode 2.
CheckWm ==
    /\ pc = "wm" /\ pc' = "client"
    /\ IF wm /\ login_mode_event /\ login_mode = 0
       THEN login_mode' = 2
       ELSE UNCHANGED login_mode
    /\ UNCHANGED <<client, term, up_and_running, wm, my_trans_info, login_mode_event>>

\* trans_check_wait_objs of the client: one message, the last of the connection
\* sequence perhaps, after which xrdp_process_loop makes the window manager.
CheckClient ==
    /\ pc = "client"
    /\ IF pdus = 0
       THEN /\ pc' = IF closed THEN "ended" ELSE "fifo"
            /\ UNCHANGED <<client, up_and_running, window>>
       ELSE /\ pc' = "fifo" /\ pdus' = pdus - 1
            /\ up_and_running' \in {up_and_running, TRUE}
            /\ wm' = (wm \/ up_and_running')
            /\ login_mode_event' = (login_mode_event \/ (~wm /\ up_and_running'))
            /\ UNCHANGED <<sent, closed, my_trans_info, login_mode>>
    /\ UNCHANGED term

\* myxrdp_read_fifo_data: 0 without a window manager, 1 without my_trans_info.
ReadFifo ==
    /\ pc = "fifo"
    /\ pc' = IF wm /\ my_trans_info = "NULL" THEN "ended" ELSE "wait"
    /\ UNCHANGED <<client, term, up_and_running, window>>

Next == ClientSends \/ ClientLeaves \/ Terminate \/ Wait \/ CheckWm \/ CheckClient \/ ReadFifo

\* The loop runs; the client and the administrator do as they please.
Spec == Init /\ [][Next]_vars /\ WF_vars(Wait \/ CheckWm \/ CheckClient \/ ReadFifo)

\* Once xrdp_process_loop has made the window manager, xrdp_wm_init is called by
\* xrdp_wm_check_wait_objs, unless the client leaves or xrdp is told to end.
WmInitIsCalled == wm ~> (login_mode # 0 \/ closed \/ term)
=============================================================================

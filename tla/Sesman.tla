------------------------------- MODULE Sesman -------------------------------
(***************************************************************************)
(* xrdp-sesman, the session manager: one thread that serves one SCP        *)
(* connection after the other (sesman.c, scp.c, scp_v0.c, scp_v1.c,        *)
(* scp_v1_mng.c), the chain of session records it keeps (session.c) and    *)
(* the signal handlers that edit the same chain (sig.c).  The handlers are *)
(* installed with signal(), so they interrupt the thread between any two   *)
(* of its instructions and run to their end.                               *)
(*                                                                         *)
(* A login forks at most once; its authentication handle, the process, the *)
(* chain element and the record it leaves carry the number of the login.   *)
(* A freed element keeps its number, so that a pointer to it can be told   *)
(* from a good one; free() overwrites both words of a session_chain, so    *)
(* following such a pointer ends sesman.                                   *)
(***************************************************************************)
EXTENDS Integers, FiniteSets

CONSTANTS
    Users,        \* names that log in
    Kinds,        \* requests served: "v0" and "v1" logins, "gw" checks, "mng"
    MaxSessions,  \* MaxSessions of sesman.ini
    Foreign,      \* displays of X servers sesman did not start
    MaxLogins,    \* bound: connections accepted
    MayFail,      \* whether fork() and malloc() may fail
    MayTerm       \* whether SIGTERM may arrive

ASSUME SesmanAssumption ==
    /\ Kinds \subseteq {"v0", "v1", "gw", "mng"}
    /\ MaxSessions \in Nat /\ MaxLogins \in Nat
    /\ Foreign \subseteq Nat
    /\ MayFail \in BOOLEAN /\ MayTerm \in BOOLEAN

Proc    == 1 .. MaxLogins
Nil     == 0
Offset  == 1                                    \* X11DisplayOffset
Display == Offset .. (Offset + MaxSessions)
NoUser  == "nobody"

VARIABLES
    head,      \* g_sessions
    next,      \* session_chain.next of every element
    item,      \* session_item of every element
    freed,     \* elements given back to malloc
    count,     \* g_session_count
    proc,      \* state of every process sesman forked
    xsrv,      \* the X server of every session
    sigchld,   \* a SIGCHLD is pending: one bit, however many children died
    open,      \* authentication handles not yet passed to auth_end
    logins,    \* connections accepted so far
    pc, loc,   \* the main thread and its local variables
    told,      \* the display of the last reply, 0 for a refusal
    term       \* g_term_event

chainVars == <<head, next, item, freed, count>>
procVars  == <<proc, xsrv>>
vars      == <<head, next, item, freed, count, proc, xsrv, sigchld, open,
               logins, pc, loc, told, term>>

Ended == {"crashed", "exited"}
PCs   == {"wait", "auth", "bydata", "found", "reconnect", "access", "byuser",
          "mng", "spin", "limit", "avail", "fork", "link", "head", "count"}
         \cup Ended

Live     == {n \in Proc : proc[n] \in {"start", "up"}}
Occupied(d) == \/ d \in Foreign
               \/ \E n \in Proc : item[n].display = d /\ xsrv[n] # "no"

Init ==
    /\ head = Nil /\ freed = {} /\ count = 0
    /\ next = [n \in Proc |-> Nil]
    /\ item = [n \in Proc |-> [user |-> NoUser, display |-> 0]]
    /\ proc = [n \in Proc |-> "none"]
    /\ xsrv = [n \in Proc |-> "no"]
    /\ sigchld = FALSE /\ open = {} /\ logins = 0 /\ told = 0 /\ term = FALSE
    /\ pc = "wait"
    /\ loc = [kind |-> "none", user |-> NoUser, data |-> 0,
              tmp |-> Nil, display |-> 0]

-----------------------------------------------------------------------------
(* Processes outside the daemon: sessions, their X servers, the script.    *)

\* The session child forks the window manager, which waits for X, and X.
XStarts(n) ==
    /\ proc[n] = "start" /\ ~Occupied(item[n].display)
    /\ proc' = [proc EXCEPT ![n] = "up"]
    /\ xsrv' = [xsrv EXCEPT ![n] = "run"]
    /\ UNCHANGED <<head, next, item, freed, count, sigchld, open, logins,
                   pc, loc, told, term>>

\* The window manager is gone: the session child closes its own PAM session,
\* asks X and chansrv to end, deletes the sockets and exits.
SessionEnds(n) ==
    /\ proc[n] \in {"start", "up"}
    /\ proc' = [proc EXCEPT ![n] = "zombie"]
    /\ xsrv' = [xsrv EXCEPT ![n] = IF @ = "run" THEN "stopping" ELSE @]
    /\ sigchld' = TRUE
    /\ UNCHANGED <<head, next, item, freed, count, open, logins, pc, loc,
                   told, term>>

XExits(n) ==
    /\ xsrv[n] \in {"run", "stopping"}
    /\ xsrv' = [xsrv EXCEPT ![n] = "no"]
    /\ UNCHANGED <<head, next, item, freed, count, proc, sigchld, open,
                   logins, pc, loc, told, term>>

ScriptEnds(n) ==
    /\ proc[n] = "script"
    /\ proc' = [proc EXCEPT ![n] = "zombie"]
    /\ sigchld' = TRUE
    /\ UNCHANGED <<head, next, item, freed, count, xsrv, open, logins, pc,
                   loc, told, term>>

-----------------------------------------------------------------------------
(* Signal handlers.                                                        *)

\* The elements a walk from n meets; elements are linked newest first.
Chain(n) ==
    LET f[k \in 0 .. MaxLogins] == IF k = Nil THEN {} ELSE {k} \cup f[next[k]]
    IN  f[n]

\* A walk of the chain that stops at element n meets no freed element.
SafeUpTo(n) == \A m \in Chain(head) : m >= n => m \notin freed

\* Mutant of Unlink: g_session_count is not decremented.
UnlinkUncounted(n) ==
    /\ IF head = n THEN head' = next[n] /\ next' = next
       ELSE /\ head' = head
            /\ next' = [m \in Proc |->
                 IF m \in Chain(head) /\ next[m] = n THEN next[n] ELSE next[m]]
    /\ freed' = freed \cup {n}
    /\ count' = count

\* session_kill(n) for an element on the chain.
Unlink(n) ==
    /\ IF head = n THEN head' = next[n] /\ next' = next
       ELSE /\ head' = head
            /\ next' = [m \in Proc |->
                 IF m \in Chain(head) /\ next[m] = n THEN next[n] ELSE next[m]]
    /\ freed' = freed \cup {n}
    /\ count' = count - 1

\* Mutant of session_kill: the walk does not go on.
session_kill_newest(n) ==
    /\ pc' = pc
    /\ IF n = head THEN Unlink(n) ELSE UNCHANGED <<head, next, freed, count>>

\* session_kill(): the walk ends at n, or at the end of a chain without n.
session_kill(n) ==
    IF ~SafeUpTo(IF n \in Chain(head) THEN n ELSE Nil)
    THEN pc' = "crashed" /\ UNCHANGED <<head, next, freed, count>>
    ELSE /\ pc' = pc
         /\ IF n \in Chain(head) THEN Unlink(n)
            ELSE UNCHANGED <<head, next, freed, count>>

\* SIGCHLD: one g_waitchild(), whatever the number of children that died.
sig_sesman_session_end ==
    /\ sigchld /\ pc \notin Ended
    /\ sigchld' = FALSE
    /\ \/ /\ \A n \in Proc : proc[n] # "zombie"
          /\ UNCHANGED <<head, next, freed, count, proc, pc>>
       \/ \E n \in Proc :
            /\ proc[n] = "zombie"
            /\ proc' = [proc EXCEPT ![n] = "reaped"]
            /\ session_kill(n)
    /\ UNCHANGED <<item, xsrv, open, logins, loc, told, term>>

\* SIGTERM, SIGINT: g_term_event is set and every process on the chain is
\* sent SIGTERM.  A session child inherited this very handler, which returns
\* at once because g_getpid() # g_pid, and its waitpid() is restarted.
sig_sesman_shutdown ==
    /\ MayTerm /\ ~term /\ pc \notin Ended
    /\ term' = TRUE
    /\ pc' = IF SafeUpTo(0) THEN pc ELSE "crashed"
    /\ UNCHANGED <<head, next, item, freed, count, proc, xsrv, sigchld, open,
                   logins, loc, told>>

-----------------------------------------------------------------------------
(* The main thread.                                                        *)

idleVars == <<head, next, item, freed, count, proc, xsrv, sigchld, term>>

\* auth_end(data) and the reply, back to the accept loop.
Reply(d) ==
    /\ pc' = "wait" /\ told' = d
    /\ open' = open \ {loc.data}

\* The reply of a session that was started: the handle is kept.
ReplyKeeping(d) == pc' = "wait" /\ told' = d /\ UNCHANGED open

Goto(p, l) == pc' = p /\ loc' = l /\ UNCHANGED <<told, open, logins>>

\* The request that scp_vXs_accept() read says which dialogue follows; its
\* variables are locals of that dialogue.
scp_process_start(k, u) ==
    /\ loc' = [kind |-> k, user |-> u, data |-> logins + 1,
               tmp |-> Nil, display |-> 0]
    /\ logins' = logins + 1
    /\ pc' = "auth"

sesman_main_loop ==
    /\ pc = "wait"
    /\ \/ term /\ pc' = "exited" /\ UNCHANGED <<loc, logins>>
       \/ /\ ~term /\ logins < MaxLogins
          /\ \E k \in Kinds, u \in Users : scp_process_start(k, u)
    /\ UNCHANGED <<idleVars, open, told>>

\* auth_userpass() says no, to a v1 login after some prompts for another
\* password, or the client goes away instead of answering one.
LoginFails == pc' = "wait" /\ told' = 0 /\ UNCHANGED <<open, loc>>

\* It says yes, and returns a handle.
LoginOK ==
    /\ open' = open \cup {loc.data}
    /\ pc' = IF loc.kind = "v0" THEN "bydata" ELSE "access"
    /\ loc' = [loc EXCEPT !.tmp = head]
    /\ UNCHANGED told

\* PAM decides.  A gateway check is answered and its handle released here.
Authenticate ==
    /\ pc = "auth"
    /\ LoginFails \/ (loc.kind # "gw" /\ LoginOK)
    /\ UNCHANGED <<idleVars, logins>>

\* Any read through a freed element of the chain.
FollowFreed ==
    /\ pc \in {"bydata", "byuser", "avail"} /\ loc.tmp \in freed
    /\ pc' = "crashed"
    /\ UNCHANGED <<idleVars, open, logins, loc, told>>

\* Mutant of Matches: only the newest session is found.
MatchesNewest(n) == n = head /\ item[n].user = loc.user

\* Mutant of Matches: the user name is not compared.
MatchesAny(n) == TRUE

\* What session_get_bydata() compares under the configured policy: user, bpp,
\* type and, by policy, size and address; a user stands for all of them.
Matches(n) == item[n].user = loc.user

\* session_get_bydata(): one element per step.
session_get_bydata ==
    /\ pc = "bydata" /\ loc.tmp \notin freed
    /\ IF loc.tmp = Nil THEN Goto("access", loc)
       ELSE IF Matches(loc.tmp) THEN Goto("found", loc)
       ELSE Goto("bydata", [loc EXCEPT !.tmp = next[loc.tmp]])
    /\ UNCHANGED idleVars

\* scp_v0_process() reads the record it was handed.  If the handler has freed that
\* since, its display is still there: it lies beyond the words free() overwrites.
UseFoundItem ==
    /\ pc = "found"
    /\ Goto("reconnect", [loc EXCEPT !.display = item[loc.tmp].display])
    /\ UNCHANGED idleVars

\* session_reconnect_fork(): the reconnect script, then the reply.
session_reconnect_fork ==
    /\ pc = "reconnect"
    /\ \/ proc' = [proc EXCEPT ![loc.data] = "script"]
       \/ MayFail /\ UNCHANGED proc
    /\ Reply(loc.display)
    /\ UNCHANGED <<chainVars, xsrv, sigchld, logins, loc, term>>

\* A refused v1 login returns without auth_end().
AccessDenied ==
    /\ IF loc.kind = "v1" THEN ReplyKeeping(0) ELSE Reply(0)
    /\ UNCHANGED <<loc, logins>>

\* A v1 login first asks for the disconnected sessions of its user.
AccessGranted ==
    Goto(CASE loc.kind = "v0"  -> "limit"
           [] loc.kind = "v1"  -> "byuser"
           [] loc.kind = "mng" -> "mng", [loc EXCEPT !.tmp = head])

\* access_login_allowed(): is the user in the groups of the configuration?
access_login_allowed ==
    /\ pc = "access"
    /\ AccessDenied \/ AccessGranted
    /\ UNCHANGED idleVars

\* session_get_byuser(): no record ever is SESMAN_SESSION_STATUS_DISCONNECTED,
\* so a v1 login finds none and starts a session.  A listing for "mng" counts,
\* then fills: its second walk is that of one more turn of scp_v1_mng_process.
session_get_byuser ==
    /\ pc = "byuser" /\ loc.tmp \notin freed
    /\ IF loc.tmp # Nil THEN Goto("byuser", [loc EXCEPT !.tmp = next[loc.tmp]])
       ELSE Goto(IF loc.kind = "v1" THEN "limit" ELSE "mng", loc)
    /\ UNCHANGED idleVars

\* scp_v1_mng_process(): on MNG_ACTION the loop neither ends nor reads again.
scp_v1_mng_process ==
    /\ pc = "mng"
    /\ \/ Goto("byuser", [loc EXCEPT !.tmp = head])
       \/ Goto("spin", loc)
       \/ Reply(0) /\ UNCHANGED <<loc, logins>>
    /\ UNCHANGED idleVars

\* session_start_fork(): the limit on concurrent sessions, the two malloc().
LimitPassed == count > MaxSessions          \* mutant of LimitReached: off by one
LimitReached == count >= MaxSessions

CheckLimit ==
    /\ pc = "limit"
    /\ \/ (LimitReached \/ MayFail) /\ Reply(0) /\ UNCHANGED <<loc, logins>>
       \/ ~LimitReached
          /\ Goto("avail", [loc EXCEPT !.display = Offset, !.tmp = head])
    /\ UNCHANGED idleVars

\* Mutant of TryNext: the search has no end.
TryNextUnbounded == Goto("avail", [loc EXCEPT !.display = @ + 1, !.tmp = head])

\* Mutant of TryNext: display is not incremented.
TrySameAgain == Goto("avail", [loc EXCEPT !.tmp = head])

\* session_get_avail_display_from_chain(): the display after this one.
TryNext ==
    IF loc.display + 1 - Offset <= MaxSessions
    THEN Goto("avail", [loc EXCEPT !.display = @ + 1, !.tmp = head])
    ELSE Reply(0) /\ UNCHANGED <<loc, logins>>

\* Mutant of session_get_avail_display_from_chain: the chain is not looked at.
AvailBySockets ==
    /\ pc = "avail"
    /\ IF Occupied(loc.display) THEN TryNext ELSE Goto("fork", loc)
    /\ UNCHANGED idleVars

session_get_avail_display_from_chain ==
    /\ pc = "avail" /\ loc.tmp \notin freed
    /\ IF loc.tmp = Nil
       THEN IF Occupied(loc.display) THEN TryNext ELSE Goto("fork", loc)
       ELSE IF item[loc.tmp].display = loc.display THEN TryNext
       ELSE Goto("avail", [loc EXCEPT !.tmp = next[loc.tmp]])
    /\ UNCHANGED idleVars

\* A failed fork() frees the element and still returns the display.
session_start_fork ==
    /\ pc = "fork"
    /\ \/ /\ proc' = [proc EXCEPT ![loc.data] = "start"]
          /\ item' = [item EXCEPT ![loc.data] =
                         [user |-> loc.user, display |-> loc.display]]
          /\ Goto("link", loc)
       \/ /\ MayFail /\ UNCHANGED <<proc, item, loc, logins>>
          /\ ReplyKeeping(loc.display)
    /\ UNCHANGED <<head, next, freed, count, xsrv, sigchld, term>>

\* temp->next = g_sessions;
LinkNext ==
    /\ pc = "link"
    /\ next' = [next EXCEPT ![loc.data] = head]
    /\ Goto("head", loc)
    /\ UNCHANGED <<head, item, freed, count, procVars, sigchld, term>>

\* g_sessions = temp;
LinkHead ==
    /\ pc = "head"
    /\ head' = loc.data
    /\ Goto("count", loc)
    /\ UNCHANGED <<next, item, freed, count, procVars, sigchld, term>>

\* g_session_count++; and the reply.
CountSession ==
    /\ pc = "count"
    /\ count' = count + 1
    /\ ReplyKeeping(loc.display)
    /\ UNCHANGED <<head, next, item, freed, procVars, sigchld, logins, loc, term>>

Main ==
    \/ sesman_main_loop \/ Authenticate \/ FollowFreed \/ session_get_bydata
    \/ UseFoundItem \/ session_reconnect_fork \/ access_login_allowed
    \/ session_get_byuser \/ scp_v1_mng_process \/ CheckLimit
    \/ session_get_avail_display_from_chain \/ session_start_fork
    \/ LinkNext \/ LinkHead \/ CountSession

Children ==
    \E n \in Proc : XStarts(n) \/ SessionEnds(n) \/ XExits(n) \/ ScriptEnds(n)

Next == Main \/ Children \/ sig_sesman_session_end \/ sig_sesman_shutdown

Spec == Init /\ [][Next]_vars

\* The kernel runs the thread and delivers signals; a script and a stopping
\* X server end.  Nothing makes a session end.
FairSpec ==
    /\ Spec
    /\ WF_vars(Main) /\ WF_vars(sig_sesman_session_end)
    /\ WF_vars(\E n \in Proc : ScriptEnds(n))
    /\ WF_vars(\E n \in Proc : xsrv[n] = "stopping" /\ XExits(n))

-----------------------------------------------------------------------------

TypeOK ==
    /\ head \in Proc \cup {Nil} /\ next \in [Proc -> Proc \cup {Nil}]
    /\ item \in [Proc -> [user : Users \cup {NoUser}, display : Display \cup {0}]]
    /\ freed \subseteq Proc /\ count \in Int
    /\ proc \in [Proc -> {"none", "start", "up", "script", "zombie", "reaped"}]
    /\ xsrv \in [Proc -> {"no", "run", "stopping"}]
    /\ sigchld \in BOOLEAN /\ term \in BOOLEAN
    /\ open \subseteq Proc /\ logins \in 0 .. MaxLogins
    /\ pc \in PCs /\ told \in Display \cup {0}
    /\ loc \in [kind : Kinds \cup {"none"}, user : Users \cup {NoUser},
                data : Proc \cup {0}, tmp : Proc \cup {Nil},
                display : Display \cup {0}]

\* The element session_start_fork() is putting on the chain.
Linking == IF pc \in {"link", "head", "count"} THEN {loc.data} ELSE {}

\* g_session_count is the number of records not given back, however the
\* SIGCHLD handler falls between fork(), the linking and the increment.
CountIsExact ==
    pc \notin Ended =>
      LET kept == {n \in Proc : item[n].display # 0} \ (freed \cup Linking)
      IN  count = Cardinality(kept) - Cardinality(Linking \cap freed)

\* Never more sessions run at once than MaxSessions allows.
LiveSessionsBounded == Cardinality(Live) <= MaxSessions

\* No two running sessions have the same display: session_start_fork() looks
\* at the chain and at the sockets at another time than it forks.
LiveDisplaysDistinct ==
    \A m, n \in Live : item[m].display = item[n].display => m = n

\* Policy (sesman.ini): a user has one session for what session_get_bydata()
\* compares; a login meets that session instead of starting a second one.
OneSessionPerUser ==
    \A m, n \in Live : item[m].user = item[n].user => m = n

\* Every connection is answered and the daemon accepts again.
EveryLoginAnswered == (pc = "auth") ~> (pc = "wait" \/ pc \in Ended)

\* scp_v0.c, scp_v1.c: "if the session started up ok, auth_end will be called
\* on sig child": an open handle is in use or its session is on the chain.
AuthEndedOnSigChild ==
    \A h \in open : \/ pc # "wait" /\ loc.data = h
                    \/ item[h].display # 0 /\ h \notin freed

\* Whoever is sent to a display is sent to one where a session of its own user
\* was started, found on the chain or new, however the handler edits the chain
\* between the search, the fork and the reply.
SentToOwnSession ==
    (pc = "wait" /\ told # 0) =>
        \E n \in Proc : item[n].display = told /\ item[n].user = loc.user

Zombies == {n \in Proc : proc[n] = "zombie"}

\* The SIGCHLD handler removes the record of a session that has ended, wherever it is
\* on the chain and whatever the main thread does with the chain meanwhile.  Only
\* another child that ends before the handler has run can keep it from that: their
\* signals coalesce, and the handler reaps one child (sig.c:138).
LoneEndIsNoticed ==
    \A n \in Proc :
        (sigchld /\ Zombies = {n} /\ n \in Chain(head))
            ~> (n \in freed \/ Zombies \ {n} # {} \/ pc \in Ended)

\* session.h on session_item.pid: "pid of sesman waiting for wm to end": a record on
\* the chain is that of a process that waits, so once that process has ended the
\* SIGCHLD handler removes it, however many ended with it.
RecordsFollowSessions ==
    \A n \in Proc : (proc[n] = "zombie" /\ n \in Chain(head))
                      ~> (n \in freed \/ pc \in Ended)

\* session.h on session_get_bydata(): "session data or 0": what a walk of the chain
\* reads, and what it returns, is not an element the handler has freed.
NoFreedElementRead ==
    ~(pc \in {"bydata", "byuser", "avail", "found"} /\ loc.tmp \in freed)
=============================================================================

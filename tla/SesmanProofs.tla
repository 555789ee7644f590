---------------------------- MODULE SesmanProofs ----------------------------
(***************************************************************************)
(* Proofs about the session manager, for any users, any limit on sessions  *)
(* and any number of logins, with SIGCHLD and SIGTERM between any two      *)
(* steps of the thread.                                                    *)
(***************************************************************************)
EXTENDS Sesman, TLAPS, FiniteSetTheorems, WellFoundedInduction

-----------------------------------------------------------------------------
(* The inductive invariant. *)

\* The elements a walk from k meets, if nx are the links: Chain(k) is
\* ChainOf(next, k).  Links lead to older elements.
ChainOf(nx, k) ==
    LET f[i \in 0 .. MaxLogins] == IF i = Nil THEN {} ELSE {i} \cup f[nx[i]]
    IN  f[k]

Links(nx) == \A n \in Proc : nx[n] \in Proc \cup {Nil} /\ nx[n] < n

\* Sessions that were started and whose record was not given back.
Kept == {n \in Proc : item[n].display # 0} \ freed

BeforeFork == pc \in {"auth", "bydata", "found", "reconnect", "access", "byuser", "mng",
                      "spin", "limit", "avail", "fork"}

AfterFork == pc \in {"link", "head", "count"}

\* The locals of a dialogue are those of the last login, and its stages are
\* reached by the kinds of request that have them.
DialogueOK ==
    /\ BeforeFork \/ AfterFork =>
          loc.data = logins /\ logins \in Proc /\ loc.kind \in Kinds
    /\ (BeforeFork /\ pc # "auth") \/ AfterFork => loc.kind # "gw"
    /\ pc = "found" => loc.tmp \in Proc
    /\ pc \in {"avail", "fork"} \/ AfterFork => loc.display \in Display

\* A login has neither process nor record before it forks.
FreshOK ==
    \A n \in Proc : n > logins \/ (BeforeFork /\ n = loc.data) =>
        proc[n] = "none" /\ item[n].display = 0

\* A session runs with a record, and only the record of a session that was
\* reaped is given back, so no record is given back twice.
RecordsOK ==
    /\ \A n \in Live : item[n].display # 0
    /\ \A n \in freed : proc[n] = "reaped"
    /\ AfterFork => item[loc.data] = [user |-> loc.user, display |-> loc.display]

\* The links are good.
LinksDown == Links(next)

\* The element being linked is not on the chain before g_sessions is set, when
\* its link may lead to an element that was freed since, but from there to all
\* the others.
ChainOK ==
    pc \notin Ended =>
    /\ \A n \in ChainOf(next, head) : item[n].display # 0
    /\ pc \in {"link", "head"} => loc.data \notin ChainOf(next, head)
    /\ pc = "head" =>
          /\ ChainOf(next, head) \subseteq ChainOf(next, next[loc.data])
          /\ \A n \in ChainOf(next, next[loc.data]) : item[n].display # 0

\* Nothing kept falls off the chain.
KeptOnChain ==
    pc \notin Ended =>
    \A n \in Kept : \/ n \in ChainOf(next, head)
                    \/ pc \in {"link", "head"} /\ n = loc.data

\* The count: an element being linked is not yet counted, and was counted down if
\* the handler has already freed it.  The limit that still holds when session_start_fork gets to fork().
CountOK ==
    /\ pc \notin Ended /\ ~AfterFork => count = Cardinality(Kept)
    /\ pc \notin Ended /\ AfterFork => count = Cardinality(Kept) - 1
    /\ Cardinality(Kept) <= MaxSessions
    /\ pc \in {"avail", "fork"} => Cardinality(Kept) < MaxSessions

\* A walk is on the chain, at its end, or on an element freed under it.
Walking == pc \in {"bydata", "avail", "found"}
TmpOK == Walking => loc.tmp \in ChainOf(next, head) \cup freed \cup {Nil}

\* What the walk has passed does not have the display; so nothing has when it
\* gets to fork().
DisplaysOK ==
    /\ \A m, n \in Kept : item[m].display = item[n].display => m = n
    /\ pc = "avail" =>
          \/ loc.tmp \in freed
          \/ \A n \in Kept : item[n].display = loc.display => n \in ChainOf(next, loc.tmp)
    /\ pc = "fork" => \A n \in Kept : item[n].display # loc.display

\* The same for the user, as long as only version 0 logins start sessions.
UsersOK ==
    "v1" \notin Kinds =>
    /\ \A m, n \in Kept : item[m].user = item[n].user => m = n
    /\ pc = "bydata" =>
          \/ loc.tmp \in freed
          \/ \A n \in Kept : item[n].user = loc.user => n \in ChainOf(next, loc.tmp)
    /\ pc \in {"limit", "avail", "fork"} \/ (pc = "access" /\ loc.kind = "v0") =>
          \A n \in Kept : item[n].user # loc.user

\* Where the login is sent, as long as every fork() succeeds.
SentOK ==
    ~MayFail =>
    /\ pc = "found" => item[loc.tmp].display # 0 /\ item[loc.tmp].user = loc.user
    /\ pc = "reconnect" =>
          \E n \in Proc : item[n].display = loc.display /\ item[n].user = loc.user
    /\ SentToOwnSession

\* Who has a record; the chain; the walks.
RecInv   == TypeOK /\ DialogueOK /\ FreshOK /\ RecordsOK
ChainInv == LinksDown /\ ChainOK /\ KeptOnChain
WalkInv  == TmpOK /\ DisplaysOK /\ UsersOK /\ SentOK
SInv     == RecInv /\ ChainInv /\ CountOK /\ WalkInv

-----------------------------------------------------------------------------
(* The chain.  Its definition recurs over the links, which lead to older   *)
(* elements; facts about it are shown for a least element that would       *)
(* violate them.                                                           *)

LEMMA LeastElement ==
    ASSUME NEW S \in SUBSET Nat, S # {}
    PROVE  \E x \in S : \A y \in S : x <= y
<1> DEFINE R == {ss \in Nat \X Nat : ss[1] < ss[2]}
<1>1. IsWellFoundedOn(R, Nat)
    BY NatLessThanWellFounded DEF OpToRel
<1>2. PICK x \in S : \A y \in S : <<y, x>> \notin R
    <2> HIDE DEF R
    <2> QED BY <1>1, WFMin
<1>3. ASSUME NEW y \in S PROVE x <= y
    <2>1. <<y, x>> \in Nat \X Nat /\ <<y, x>>[1] = y /\ <<y, x>>[2] = x
        OBVIOUS
    <2>2. ~(y < x)
        BY <1>2, <2>1
    <2> QED BY <2>2
<1> QED BY <1>3

LEMMA Chains ==
    ASSUME NEW nx, Links(nx)
    PROVE  /\ ChainOf(nx, Nil) = {}
           /\ \A k \in Proc : ChainOf(nx, k) = {k} \cup ChainOf(nx, nx[k])
<1> DEFINE Def(k, g) == g = [i \in 0 .. k |-> IF i = Nil THEN {} ELSE {i} \cup g[nx[i]]]
           Bad == {k \in 0 .. MaxLogins : \A g : ~Def(k, g)}
<1>0. MaxLogins \in Nat
    BY SesmanAssumption
<1>1. Bad = {}
    <2>1. SUFFICES ASSUME Bad # {} PROVE FALSE
        OBVIOUS
    <2>2. PICK x \in Bad : \A y \in Bad : x <= y
        <3>1. Bad \in SUBSET Nat
            BY <1>0
        <3> HIDE DEF Bad
        <3> QED BY <2>1, <3>1, LeastElement
    <2>3. CASE x = 0
        <3> DEFINE g == [i \in 0 .. 0 |-> {}]
        <3>1. Def(0, g)
            BY DEF Nil
        <3> QED BY <2>2, <2>3, <3>1
    <2>4. CASE x # 0
        <3>1. x - 1 \in 0 .. MaxLogins /\ x \in Proc /\ x \in Nat
            BY <2>2, <2>4, <1>0 DEF Proc
        <3>2. x - 1 \notin Bad
            <4> HIDE DEF Bad
            <4>1. ~(x <= x - 1)
                BY <3>1
            <4> QED BY <2>2, <4>1
        <3>3. PICK g : Def(x - 1, g)
            BY <3>1, <3>2
        <3> DEFINE h == [i \in 0 .. x |-> IF i = x THEN {x} \cup g[nx[x]] ELSE g[i]]
        <3>4. ASSUME NEW i \in 0 .. x
              PROVE  h[i] = IF i = Nil THEN {} ELSE {i} \cup h[nx[i]]
            <4>1. CASE i = Nil
                BY <4>1, <3>1, <3>3, <2>4 DEF Nil
            <4>2. CASE i # Nil
                <5>1. i \in Proc /\ nx[i] \in 0 .. x - 1 /\ nx[i] < i
                    BY <4>2, <3>1, <1>0 DEF Links, Proc, Nil
                <5>2. h[nx[i]] = g[nx[i]]
                    BY <5>1, <3>1
                <5>3. h[i] = {i} \cup g[nx[i]]
                    BY <5>1, <3>1, <3>3, <4>2
                <5> QED BY <5>2, <5>3, <4>2
            <4> QED BY <4>1, <4>2
        <3>5. Def(x, h)
            BY <3>4
        <3> QED BY <2>2, <3>5
    <2> QED BY <2>3, <2>4
<1>2. \E g : Def(MaxLogins, g)
    <2>1. MaxLogins \in 0 .. MaxLogins
        BY <1>0
    <2>2. MaxLogins \notin Bad
        BY <1>1
    <2> HIDE DEF Def
    <2> QED BY <2>1, <2>2, Zenon
<1> DEFINE f == CHOOSE g : Def(MaxLogins, g)
<1>3. Def(MaxLogins, f)
    BY <1>2
<1>4. \A k : ChainOf(nx, k) = f[k]
    BY DEF ChainOf
<1>5. f[Nil] = {} /\ \A k \in Proc : f[k] = {k} \cup f[nx[k]]
    <2> HIDE DEF f
    <2>1. f = [i \in 0 .. MaxLogins |-> IF i = Nil THEN {} ELSE {i} \cup f[nx[i]]]
        BY <1>3
    <2>2. \A i \in 0 .. MaxLogins : f[i] = IF i = Nil THEN {} ELSE {i} \cup f[nx[i]]
        BY <2>1, Zenon
    <2>3. Nil \in 0 .. MaxLogins /\ \A k \in Proc : k \in 0 .. MaxLogins /\ k # Nil
        BY <1>0 DEF Proc, Nil
    <2> QED BY <2>2, <2>3
<1> QED BY <1>4, <1>5

\* A walk from k meets k and then older elements, ...
LEMMA ChainBelow ==
    ASSUME NEW nx, Links(nx)
    PROVE  \A k \in Proc \cup {Nil} : \A m \in ChainOf(nx, k) : m \in Proc /\ m <= k
<1> DEFINE P(k) == \A m \in ChainOf(nx, k) : m \in Proc /\ m <= k
           Bad == {k \in Proc \cup {Nil} : ~P(k)}
<1>1. SUFFICES ASSUME Bad # {} PROVE FALSE
    OBVIOUS
<1>2. PICK x \in Bad : \A y \in Bad : x <= y
    <2>1. Bad \in SUBSET Nat
        BY SesmanAssumption DEF Proc, Nil
    <2> HIDE DEF Bad
    <2> QED BY <1>1, <2>1, LeastElement
<1>3. x \in Proc
    BY <1>2, Chains
<1>4. x \in Nat /\ nx[x] \in Proc \cup {Nil} /\ nx[x] < x /\ nx[x] \in Nat
    BY <1>3, SesmanAssumption DEF Links, Proc, Nil
<1>5. P(nx[x])
    <2>1. nx[x] \notin Bad
        BY <1>2, <1>4
    <2> QED BY <2>1, <1>4
<1>6. P(x)
    <2> SUFFICES ASSUME NEW m \in ChainOf(nx, x) PROVE m \in Proc /\ m <= x
        OBVIOUS
    <2>1. m = x \/ m \in ChainOf(nx, nx[x])
        BY <1>3, Chains
    <2>2. m \in Proc => m \in Nat
        BY SesmanAssumption DEF Proc
    <2> QED BY <2>1, <2>2, <1>3, <1>4, <1>5
<1> QED BY <1>2, <1>6

\* ... and what a walk from one of its elements meets.
LEMMA ChainClosed ==
    ASSUME NEW nx, Links(nx)
    PROVE  \A k \in Proc \cup {Nil} : \A m \in ChainOf(nx, k) :
               ChainOf(nx, m) \subseteq ChainOf(nx, k)
<1> DEFINE P(k) == \A m \in ChainOf(nx, k) : ChainOf(nx, m) \subseteq ChainOf(nx, k)
           Bad == {k \in Proc \cup {Nil} : ~P(k)}
<1>1. SUFFICES ASSUME Bad # {} PROVE FALSE
    OBVIOUS
<1>2. PICK x \in Bad : \A y \in Bad : x <= y
    <2>1. Bad \in SUBSET Nat
        BY SesmanAssumption DEF Proc, Nil
    <2> HIDE DEF Bad
    <2> QED BY <1>1, <2>1, LeastElement
<1>3. x \in Proc
    BY <1>2, Chains
<1>4. x \in Nat /\ nx[x] \in Proc \cup {Nil} /\ nx[x] < x /\ nx[x] \in Nat
    BY <1>3, SesmanAssumption DEF Links, Proc, Nil
<1>5. P(nx[x])
    <2>1. nx[x] \notin Bad
        BY <1>2, <1>4
    <2> QED BY <2>1, <1>4
<1>6. ChainOf(nx, x) = {x} \cup ChainOf(nx, nx[x])
    BY <1>3, Chains
<1> QED BY <1>2, <1>5, <1>6

LEMMA ChainStep ==
    ASSUME NEW nx, Links(nx), NEW k \in Proc \cup {Nil}, NEW m \in ChainOf(nx, k)
    PROVE  /\ m \in Proc /\ m <= k /\ k \in Proc /\ m \in ChainOf(nx, m)
           /\ nx[m] \in ChainOf(nx, k) \cup {Nil}
           /\ ChainOf(nx, nx[m]) \subseteq ChainOf(nx, k)
           /\ m \notin ChainOf(nx, nx[m])
<1>1. m \in Proc /\ m <= k
    BY ChainBelow
<1>2. k # Nil
    BY Chains
<1>3. ChainOf(nx, m) = {m} \cup ChainOf(nx, nx[m]) /\ ChainOf(nx, m) \subseteq ChainOf(nx, k)
    BY <1>1, Chains, ChainClosed
<1>4. nx[m] \in Proc \cup {Nil} /\ nx[m] < m
    BY <1>1 DEF Links
<1>5. nx[m] # Nil => nx[m] \in ChainOf(nx, nx[m])
    BY <1>4, Chains
<1>6. m \notin ChainOf(nx, nx[m])
    <2>1. \A i \in Proc \cup {Nil} : i \in Int
        BY SesmanAssumption DEF Proc, Nil
    <2>2. ~(m <= nx[m])
        BY <1>1, <1>4, <2>1
    <2> QED BY <1>4, <2>2, ChainBelow
<1> QED BY <1>1, <1>2, <1>3, <1>4, <1>5, <1>6

\* Links of newer elements do not matter.
LEMMA ChainSame ==
    ASSUME NEW nx, Links(nx), NEW mx, Links(mx), NEW d \in Proc,
           \A i \in Proc : i # d => mx[i] = nx[i]
    PROVE  \A k \in Proc \cup {Nil} : k < d => ChainOf(mx, k) = ChainOf(nx, k)
<1> DEFINE Bad == {k \in Proc \cup {Nil} : k < d /\ ChainOf(mx, k) # ChainOf(nx, k)}
<1>1. SUFFICES ASSUME Bad # {} PROVE FALSE
    OBVIOUS
<1>2. PICK x \in Bad : \A y \in Bad : x <= y
    <2>1. Bad \in SUBSET Nat
        BY SesmanAssumption DEF Proc, Nil
    <2> HIDE DEF Bad
    <2> QED BY <1>1, <2>1, LeastElement
<1>3. x \in Proc
    BY <1>2, Chains
<1>4. x \in Nat /\ nx[x] \in Proc \cup {Nil} /\ nx[x] < x /\ nx[x] \in Nat /\ x < d /\ d \in Nat
    BY <1>2, <1>3, SesmanAssumption DEF Links, Proc, Nil
<1>5. mx[x] = nx[x]
    BY <1>3, <1>4
<1>6. ChainOf(mx, nx[x]) = ChainOf(nx, nx[x])
    <2>1. nx[x] \notin Bad /\ nx[x] < d
        BY <1>2, <1>4
    <2> QED BY <2>1, <1>4
<1>7. ChainOf(mx, x) = {x} \cup ChainOf(mx, mx[x]) /\ ChainOf(nx, x) = {x} \cup ChainOf(nx, nx[x])
    BY <1>3, Chains
<1> QED BY <1>2, <1>5, <1>6, <1>7

\* Taking n out: C are elements whose links to n are redirected.
Without(nx, C, n) == [m \in Proc |-> IF m \in C /\ nx[m] = n THEN nx[n] ELSE nx[m]]

LEMMA LinksWithout ==
    ASSUME NEW nx, Links(nx), NEW C, NEW n \in Proc
    PROVE  Links(Without(nx, C, n))
<1> SUFFICES ASSUME NEW m \in Proc
             PROVE  Without(nx, C, n)[m] \in Proc \cup {Nil} /\ Without(nx, C, n)[m] < m
    BY DEF Links
<1>1. \A i \in Proc \cup {Nil} : i \in Int
    BY SesmanAssumption DEF Proc, Nil
<1>2. /\ nx[m] \in Proc \cup {Nil} /\ nx[m] < m
      /\ nx[n] \in Proc \cup {Nil} /\ nx[n] < n
    BY DEF Links
<1> QED BY <1>1, <1>2 DEF Without

\* A walk from elsewhere then meets what it met before, except perhaps n.
LEMMA ChainWithout ==
    ASSUME NEW nx, Links(nx), NEW C, NEW n \in Proc
    PROVE  \A k \in Proc \cup {Nil} :
             /\ ChainOf(Without(nx, C, n), k) \subseteq ChainOf(nx, k)
             /\ ChainOf(nx, k) \ {n} \subseteq ChainOf(Without(nx, C, n), k)
<1> DEFINE mx == Without(nx, C, n)
           P(k) == /\ ChainOf(mx, k) \subseteq ChainOf(nx, k)
                   /\ ChainOf(nx, k) \ {n} \subseteq ChainOf(mx, k)
           Bad == {k \in Proc \cup {Nil} : ~P(k)}
<1>0. Links(mx)
    BY LinksWithout
<1>a. \A i \in Proc \cup {Nil} : i \in Nat
    BY SesmanAssumption DEF Proc, Nil
<1>1. SUFFICES ASSUME Bad # {} PROVE FALSE
    OBVIOUS
<1>2. PICK x \in Bad : \A y \in Bad : x <= y
    <2>1. Bad \in SUBSET Nat
        BY <1>a
    <2> HIDE DEF Bad
    <2> QED BY <1>1, <2>1, LeastElement
<1>3. x \in Proc
    BY <1>0, <1>2, Chains
<1>4. \A i \in Proc \cup {Nil} : i < x => P(i)
    <2> SUFFICES ASSUME NEW i \in Proc \cup {Nil}, i < x PROVE i \notin Bad
        OBVIOUS
    <2>1. ~(x <= i)
        BY <1>3, <1>a
    <2> HIDE DEF Bad
    <2> QED BY <1>2, <2>1
<1>5. nx[x] \in Proc \cup {Nil} /\ nx[x] < x /\ nx[n] \in Proc \cup {Nil} /\ nx[n] < n
    BY <1>3 DEF Links
<1>6. /\ ChainOf(mx, x) = {x} \cup ChainOf(mx, mx[x]) /\ ChainOf(nx, x) = {x} \cup ChainOf(nx, nx[x])
      /\ ChainOf(nx, n) = {n} \cup ChainOf(nx, nx[n])
    BY <1>0, <1>3, Chains
<1>7. mx[x] = nx[x] \/ (nx[x] = n /\ mx[x] = nx[n])
    BY <1>3 DEF Without
<1>8. P(mx[x])
    <2>1. nx[n] < x \/ nx[x] # n
        BY <1>3, <1>5, <1>a
    <2> QED BY <2>1, <1>4, <1>5, <1>7
<1>9. P(x)
    <2> HIDE DEF mx
    <2> QED BY <1>6, <1>7, <1>8
<1> QED BY <1>2, <1>9

-----------------------------------------------------------------------------
(* Types and the stages of a dialogue. *)

LEMMA Constants ==
    /\ MaxLogins \in Nat /\ MaxSessions \in Nat /\ Nil = 0
    /\ Proc \subseteq Nat /\ 0 \notin Proc /\ Offset \in Display /\ 0 \notin Display
    /\ Display \subseteq Nat
    BY SesmanAssumption DEF Proc, Nil, Offset, Display

LEMMA InitShape ==
    Init => TypeOK /\ DialogueOK
<1> SUFFICES ASSUME Init PROVE TypeOK /\ DialogueOK
    OBVIOUS
<1>1. pc \in PCs
    BY DEF Init, PCs
<1>2. logins \in 0 .. MaxLogins
    BY Constants DEF Init
<1>3. /\ proc \in [Proc -> {"none", "start", "up", "script", "zombie", "reaped"}]
      /\ xsrv \in [Proc -> {"no", "run", "stopping"}]
      /\ next \in [Proc -> Proc \cup {Nil}] /\ head \in Proc \cup {Nil}
    BY DEF Init
<1>4. item \in [Proc -> [user : Users \cup {NoUser}, display : Display \cup {0}]]
    BY DEF Init
<1>5. loc \in [kind : Kinds \cup {"none"}, user : Users \cup {NoUser},
                data : Proc \cup {0}, tmp : Proc \cup {Nil}, display : Display \cup {0}]
    BY Constants DEF Init
<1>6. freed \subseteq Proc /\ open \subseteq Proc /\ count \in Int /\ told \in Display \cup {0}
    BY DEF Init
<1>6a. sigchld \in BOOLEAN /\ term \in BOOLEAN
    <2>1. sigchld = FALSE /\ term = FALSE
        BY Zenon DEF Init
    <2> QED BY <2>1
<1>7. DialogueOK
    BY DEF Init, DialogueOK, BeforeFork, AfterFork
<1> QED BY <1>1, <1>2, <1>3, <1>4, <1>5, <1>6, <1>6a, <1>7 DEF TypeOK

LEMMA ShapeStart ==
    ASSUME TypeOK, DialogueOK, sesman_main_loop \/ Authenticate
    PROVE  TypeOK' /\ DialogueOK'
<1> USE Constants, SesmanAssumption DEF Ended, PCs
<1>1. CASE pc' = "exited" /\ UNCHANGED <<loc, logins>> /\ sesman_main_loop
    BY <1>1 DEF sesman_main_loop, TypeOK, DialogueOK, BeforeFork, AfterFork, idleVars
<1>2. ASSUME NEW k \in Kinds, NEW u \in Users, scp_process_start(k, u), sesman_main_loop,
             logins < MaxLogins
      PROVE  TypeOK' /\ DialogueOK'
    <2>1. logins' \in Proc /\ loc'.data = logins' /\ loc'.kind \in Kinds /\ pc' = "auth"
        BY <1>2 DEF scp_process_start, Proc, TypeOK
    <2>2. logins' \in 0 .. MaxLogins
        BY <2>1 DEF Proc
    <2>3. loc' \in [kind : Kinds \cup {"none"}, user : Users \cup {NoUser},
                data : Proc \cup {0}, tmp : Proc \cup {Nil}, display : Display \cup {0}]
        BY <1>2, <2>1 DEF scp_process_start
    <2> QED BY <1>2, <2>1, <2>2, <2>3
            DEF sesman_main_loop, TypeOK, DialogueOK, BeforeFork, AfterFork, idleVars
<1>3. CASE Authenticate
    BY <1>3 DEF Authenticate, LoginFails, LoginOK, TypeOK, DialogueOK, BeforeFork, AfterFork,
                idleVars
<1> QED BY <1>1, <1>2, <1>3 DEF sesman_main_loop

LEMMA ShapeDialogue ==
    ASSUME TypeOK, DialogueOK,
           \/ FollowFreed \/ session_get_bydata \/ UseFoundItem \/ session_reconnect_fork
           \/ access_login_allowed \/ session_get_byuser \/ scp_v1_mng_process
    PROVE  TypeOK' /\ DialogueOK'
<1> USE Constants, SesmanAssumption DEF Ended, PCs, TypeOK, DialogueOK, BeforeFork, AfterFork,
                                        idleVars, chainVars, Goto, Reply, ReplyKeeping
<1>1. CASE FollowFreed
    BY <1>1 DEF FollowFreed
<1>2. CASE session_get_bydata
    BY <1>2 DEF session_get_bydata
<1>3. CASE UseFoundItem
    BY <1>3 DEF UseFoundItem
<1>4. CASE session_reconnect_fork
    BY <1>4, ZenonT(40) DEF session_reconnect_fork
<1>5. CASE access_login_allowed
    BY <1>5 DEF access_login_allowed, AccessDenied, AccessGranted
<1>6. CASE session_get_byuser
    BY <1>6 DEF session_get_byuser
<1>7. CASE scp_v1_mng_process
    BY <1>7 DEF scp_v1_mng_process
<1> QED BY <1>1, <1>2, <1>3, <1>4, <1>5, <1>6, <1>7

LEMMA ShapeSession ==
    ASSUME TypeOK, DialogueOK,
           \/ CheckLimit \/ session_get_avail_display_from_chain \/ session_start_fork
           \/ LinkNext \/ LinkHead \/ CountSession
    PROVE  TypeOK' /\ DialogueOK'
<1> USE Constants, SesmanAssumption DEF Ended, PCs, TypeOK, DialogueOK, BeforeFork, AfterFork,
                                        idleVars, procVars, Goto, Reply, ReplyKeeping
<1>1. CASE CheckLimit
    BY <1>1, ZenonT(40) DEF CheckLimit
<1>2. CASE session_get_avail_display_from_chain
    <2>1. loc.display + 1 - Offset <= MaxSessions => loc.display + 1 \in Display \/ pc # "avail"
        BY Constants DEF Display, Offset
    <2>2. CASE TryNext /\ pc = "avail" /\ UNCHANGED idleVars
        <3>1. CASE Reply(0) /\ UNCHANGED <<loc, logins>>
            BY <2>2, <3>1
        <3>2. CASE /\ loc.display + 1 - Offset <= MaxSessions
                   /\ Goto("avail", [loc EXCEPT !.display = @ + 1, !.tmp = head])
            <4>1. loc.display + 1 \in Display
                BY <2>1, <2>2, <3>2
            <4>2. loc' = [loc EXCEPT !.display = loc.display + 1, !.tmp = head]
                BY <3>2
            <4>3. loc' \in [kind : Kinds \cup {"none"}, user : Users \cup {NoUser},
                     data : Proc \cup {0}, tmp : Proc \cup {Nil}, display : Display \cup {0}]
                BY <4>1, <4>2
            <4>4. loc'.data = loc.data /\ loc'.kind = loc.kind /\ loc'.display \in Display
                BY <4>1, <4>2
            <4>5. pc' = "avail" /\ UNCHANGED <<told, open, logins>>
                BY <3>2
            <4> QED BY <2>2, <4>3, <4>4, <4>5
        <3> QED BY <2>2, <3>1, <3>2 DEF TryNext
    <2>3. CASE pc = "avail" /\ UNCHANGED idleVars /\ Goto("fork", loc)
        BY <2>3
    <2>4. CASE pc = "avail" /\ UNCHANGED idleVars /\ loc.tmp # Nil
               /\ Goto("avail", [loc EXCEPT !.tmp = next[loc.tmp]])
        BY <2>4
    <2> QED BY <1>2, <2>2, <2>3, <2>4 DEF session_get_avail_display_from_chain
<1>3. CASE session_start_fork
    <2>1. CASE UNCHANGED <<proc, item>>
        BY <1>3, <2>1, ZenonT(40) DEF session_start_fork
    <2>2. CASE item' = [item EXCEPT ![loc.data] = [user |-> loc.user, display |-> loc.display]]
               /\ proc' = [proc EXCEPT ![loc.data] = "start"] /\ Goto("link", loc)
        <3>1. [user |-> loc.user, display |-> loc.display]
                 \in [user : Users \cup {NoUser}, display : Display \cup {0}]
            OBVIOUS
        <3>2. item' \in [Proc -> [user : Users \cup {NoUser}, display : Display \cup {0}]]
            BY <2>2, <3>1
        <3>3. proc' \in [Proc -> {"none", "start", "up", "script", "zombie", "reaped"}]
            BY <2>2
        <3> QED BY <1>3, <2>2, <3>2, <3>3 DEF session_start_fork
    <2> QED BY <1>3, <2>1, <2>2 DEF session_start_fork
<1>4. CASE LinkNext
    BY <1>4 DEF LinkNext
<1>5. CASE LinkHead
    BY <1>5 DEF LinkHead
<1>6. CASE CountSession
    BY <1>6 DEF CountSession
<1> QED BY <1>1, <1>2, <1>3, <1>4, <1>5, <1>6

LEMMA ShapeOutside ==
    ASSUME TypeOK, DialogueOK, Children \/ sig_sesman_session_end \/ sig_sesman_shutdown
    PROVE  TypeOK' /\ DialogueOK'
<1> USE Constants, SesmanAssumption DEF Ended, PCs, TypeOK, DialogueOK, BeforeFork, AfterFork
<1>1. CASE Children
    <2> SUFFICES ASSUME NEW n \in Proc, XStarts(n) \/ SessionEnds(n) \/ XExits(n) \/ ScriptEnds(n)
                 PROVE  TypeOK' /\ DialogueOK'
        BY <1>1 DEF Children
    <2>1. proc' \in [Proc -> {"none", "start", "up", "script", "zombie", "reaped"}]
        BY DEF XStarts, SessionEnds, XExits, ScriptEnds
    <2>2. xsrv' \in [Proc -> {"no", "run", "stopping"}]
        BY DEF XStarts, SessionEnds, XExits, ScriptEnds
    <2>3. sigchld' \in BOOLEAN
        BY DEF XStarts, SessionEnds, XExits, ScriptEnds
    <2>4. UNCHANGED <<head, next, item, freed, count, open, logins, pc, loc, told, term>>
        BY DEF XStarts, SessionEnds, XExits, ScriptEnds
    <2> QED BY <2>1, <2>2, <2>3, <2>4
<1>2. CASE sig_sesman_shutdown
    BY <1>2 DEF sig_sesman_shutdown
<1>3. CASE sig_sesman_session_end
    <2>1. proc' \in [Proc -> {"none", "start", "up", "script", "zombie", "reaped"}]
        BY <1>3 DEF sig_sesman_session_end
    <2>2. pc' = pc \/ pc' = "crashed"
        BY <1>3 DEF sig_sesman_session_end, session_kill
    <2>3. /\ head' \in Proc \cup {Nil} /\ next' \in [Proc -> Proc \cup {Nil}]
          /\ freed' \subseteq Proc /\ count' \in Int
        <3>1. CASE UNCHANGED <<head, next, freed, count>>
            BY <3>1
        <3>2. ASSUME NEW n \in Proc, Unlink(n)
              PROVE  <2>3!:
            BY <3>2 DEF Unlink
        <3> QED BY <1>3, <3>1, <3>2 DEF sig_sesman_session_end, session_kill
    <2> QED BY <1>3, <2>1, <2>2, <2>3, ZenonT(40), SMTT(40) DEF sig_sesman_session_end
<1> QED BY <1>1, <1>2, <1>3

LEMMA ShapeKept ==
    ASSUME TypeOK, DialogueOK, [Next]_vars
    PROVE  TypeOK' /\ DialogueOK'
<1>1. CASE UNCHANGED vars
    BY <1>1 DEF vars, TypeOK, DialogueOK, BeforeFork, AfterFork
<1> QED BY <1>1, ShapeStart, ShapeDialogue, ShapeSession, ShapeOutside DEF Next, Main

-----------------------------------------------------------------------------
(* Steps that leave the records and the chain as they are. *)

\* Steps of the thread outside session_start_fork's last four.
QuietStep ==
    /\ UNCHANGED <<chainVars, proc>>
    /\ ~AfterFork /\ ~AfterFork' /\ pc \notin Ended
    /\ logins' = logins \/ logins' = logins + 1
    /\ BeforeFork' => \/ BeforeFork /\ loc'.data = loc.data /\ logins' = logins
                      \/ loc'.data = logins' /\ logins' = logins + 1
    /\ pc' \in {"avail", "fork"} => pc \in {"avail", "fork"} \/ (pc = "limit" /\ ~LimitReached)

LEMMA MainIsQuiet ==
    ASSUME TypeOK, DialogueOK,
           \/ sesman_main_loop \/ Authenticate \/ FollowFreed \/ session_get_bydata
           \/ UseFoundItem \/ access_login_allowed \/ session_get_byuser
           \/ scp_v1_mng_process \/ CheckLimit \/ session_get_avail_display_from_chain
           \/ session_start_fork /\ ReplyKeeping(loc.display) /\ UNCHANGED <<proc, item, loc, logins>>
    PROVE  QuietStep
<1> USE DEF QuietStep, BeforeFork, AfterFork, chainVars, idleVars, TypeOK, Ended
<1>1. CASE sesman_main_loop
    BY <1>1 DEF sesman_main_loop, scp_process_start
<1>2. CASE Authenticate
    BY <1>2 DEF Authenticate, LoginFails, LoginOK
<1>3. CASE FollowFreed
    BY <1>3 DEF FollowFreed
<1>4. CASE session_get_bydata
    BY <1>4 DEF session_get_bydata, Goto
<1>5. CASE UseFoundItem
    BY <1>5 DEF UseFoundItem, Goto
<1>6. CASE access_login_allowed
    <2>1. CASE pc = "access" /\ AccessDenied /\ UNCHANGED idleVars
        BY <2>1 DEF AccessDenied, Reply, ReplyKeeping
    <2>2. CASE pc = "access" /\ AccessGranted /\ UNCHANGED idleVars
        <3>1. loc.kind \in {"v0", "v1", "mng"}
            BY <2>2, SesmanAssumption DEF DialogueOK
        <3> QED BY <2>2, <3>1 DEF AccessGranted, Goto
    <2> QED BY <1>6, <2>1, <2>2 DEF access_login_allowed
<1>7. CASE session_get_byuser
    BY <1>7 DEF session_get_byuser, Goto
<1>8. CASE scp_v1_mng_process
    BY <1>8 DEF scp_v1_mng_process, Goto, Reply
<1>9. CASE CheckLimit
    BY <1>9 DEF CheckLimit, Goto, Reply
<1>10. CASE session_get_avail_display_from_chain
    BY <1>10 DEF session_get_avail_display_from_chain, TryNext, Goto, Reply
<1>11. CASE session_start_fork /\ ReplyKeeping(loc.display) /\ UNCHANGED <<proc, item, loc, logins>>
    BY <1>11 DEF session_start_fork, ReplyKeeping
<1> QED BY <1>1, <1>2, <1>3, <1>4, <1>5, <1>6, <1>7, <1>8, <1>9, <1>10, <1>11

\* A process outside the daemon lives, dies or is waited for.
ProcessStep ==
    /\ UNCHANGED <<chainVars, logins, loc, told>>
    /\ pc' = pc \/ (pc' = "crashed" /\ pc \notin Ended)
    /\ \/ proc' = proc
       \/ \E n \in Proc : /\ proc[n] \notin {"none", "reaped"}
                          /\ \/ proc' = [proc EXCEPT ![n] = "zombie"]
                             \/ proc' = [proc EXCEPT ![n] = "reaped"]
                             \/ proc' = [proc EXCEPT ![n] = "up"] /\ proc[n] = "start"

Unlinks(n) ==
    /\ pc \notin Ended /\ proc[n] = "zombie" /\ n \in Chain(head)
    /\ proc' = [proc EXCEPT ![n] = "reaped"]
    /\ Unlink(n)
    /\ UNCHANGED <<pc, item, logins, loc, told>>

ForkDone ==
    /\ proc' = [proc EXCEPT ![loc.data] = "start"]
    /\ item' = [item EXCEPT ![loc.data] = [user |-> loc.user, display |-> loc.display]]
    /\ pc = "fork" /\ pc' = "link" /\ UNCHANGED <<head, next, freed, count, loc, logins>>

ScriptStarts ==
    /\ pc = "reconnect" /\ pc' = "wait" /\ told' = loc.display
    /\ UNCHANGED <<chainVars, loc, logins>>
    /\ proc' = [proc EXCEPT ![loc.data] = "script"] \/ proc' = proc

\* Every step of another process or a handler is one of these, ...
LEMMA OutsideKinds ==
    ASSUME TypeOK, Children \/ sig_sesman_session_end \/ sig_sesman_shutdown
    PROVE  ProcessStep \/ \E n \in Proc : Unlinks(n)
<1>1. CASE Children
    <2> SUFFICES ASSUME NEW n \in Proc, XStarts(n) \/ SessionEnds(n) \/ XExits(n) \/ ScriptEnds(n)
                 PROVE  ProcessStep
        BY <1>1 DEF Children
    <2> QED BY DEF ProcessStep, XStarts, SessionEnds, XExits, ScriptEnds, chainVars
<1>2. CASE sig_sesman_shutdown
    BY <1>2 DEF sig_sesman_shutdown, ProcessStep, chainVars
<1>3. CASE sig_sesman_session_end
    <2>1. CASE UNCHANGED <<head, next, freed, count, proc, pc>>
        BY <1>3, <2>1 DEF sig_sesman_session_end, ProcessStep, chainVars
    <2>2. ASSUME NEW n \in Proc, proc[n] = "zombie", proc' = [proc EXCEPT ![n] = "reaped"],
                 session_kill(n)
          PROVE  ProcessStep \/ Unlinks(n)
        <3>1. UNCHANGED <<item, logins, loc, told>> /\ pc \notin Ended
            BY <1>3 DEF sig_sesman_session_end
        <3>2. CASE UNCHANGED <<head, next, freed, count>>
            <4>1. pc' = pc \/ pc' = "crashed"
                BY <2>2 DEF session_kill
            <4> QED BY <2>2, <3>1, <3>2, <4>1 DEF ProcessStep, chainVars
        <3>3. CASE Unlink(n) /\ n \in Chain(head) /\ pc' = pc
            BY <2>2, <3>1, <3>3 DEF Unlinks
        <3> QED BY <2>2, <3>2, <3>3 DEF session_kill
    <2> QED BY <1>3, <2>1, <2>2 DEF sig_sesman_session_end
<1> QED BY <1>1, <1>2, <1>3

\* ... and so is every step.
LEMMA StepKinds ==
    ASSUME TypeOK, DialogueOK, [Next]_vars
    PROVE  \/ QuietStep \/ ProcessStep \/ ScriptStarts \/ ForkDone \/ LinkNext \/ LinkHead
           \/ CountSession \/ UNCHANGED vars
           \/ \E n \in Proc : Unlinks(n)
<1>1. CASE Main
    <2>1. CASE session_reconnect_fork
        BY <2>1 DEF session_reconnect_fork, ScriptStarts, Reply
    <2>2. CASE session_start_fork
        <3>1. \/ ForkDone
              \/ ReplyKeeping(loc.display) /\ UNCHANGED <<proc, item, loc, logins>>
            BY <2>2 DEF session_start_fork, ForkDone, Goto
        <3> QED BY <2>2, <3>1, MainIsQuiet
    <2> QED BY <1>1, <2>1, <2>2, MainIsQuiet DEF Main
<1> QED BY <1>1, OutsideKinds DEF Next

LEMMA RecordsKept ==
    ASSUME RecInv, TypeOK', DialogueOK', [Next]_vars
    PROVE  FreshOK' /\ RecordsOK'
<1> USE DEF RecInv, TypeOK, RecordsOK, FreshOK, Live
<1>a. (loc.data \in Proc /\ loc.data = logins) \/ ~(BeforeFork \/ AfterFork)
    BY DEF DialogueOK
<1>1. CASE QuietStep
    <2>1. \A n \in Proc : n \in Int
        BY Constants
    <2> QED BY <1>1, <2>1 DEF QuietStep, chainVars
<1>2. CASE ProcessStep
    <2>1. (BeforeFork' => BeforeFork) /\ (AfterFork' => AfterFork)
        BY <1>2 DEF ProcessStep, BeforeFork, AfterFork
    <2> QED BY <1>2, <2>1 DEF ProcessStep, chainVars
<1>3. CASE ScriptStarts
    <2>1. ~BeforeFork' /\ BeforeFork /\ ~AfterFork'
        BY <1>3 DEF ScriptStarts, BeforeFork, AfterFork
    <2>2. loc.data \in Proc /\ loc.data = logins /\ proc[loc.data] = "none"
        BY <1>a, <2>1
    <2>3. \A n \in Proc : n > logins => n # loc.data
        BY <2>2, Constants
    <2> QED BY <1>3, <2>1, <2>2, <2>3 DEF ScriptStarts, chainVars
<1>4. CASE ForkDone
    <2>1. ~BeforeFork' /\ BeforeFork
        BY <1>4 DEF ForkDone, BeforeFork
    <2>2. loc.data \in Proc /\ loc.data = logins /\ proc[loc.data] = "none"
        BY <1>a, <2>1
    <2>3. \A n \in Proc : n > logins => n # loc.data
        BY <2>2, Constants
    <2>4. loc.display # 0
        BY <1>4, Constants DEF ForkDone, DialogueOK
    <2>5. FreshOK'
        BY <1>4, <2>1, <2>2, <2>3 DEF ForkDone
    <2>6. RecordsOK'
        <3>1. item'[loc.data] = [user |-> loc.user, display |-> loc.display]
            BY <1>4, <2>2 DEF ForkDone
        <3> QED BY <1>4, <2>2, <2>4, <3>1 DEF ForkDone
    <2> QED BY <2>5, <2>6
<1>5. CASE LinkNext \/ LinkHead \/ CountSession
    <2>1. ~BeforeFork' /\ UNCHANGED <<proc, item, freed, logins, loc>> /\ (AfterFork' => AfterFork)
        BY <1>5 DEF LinkNext, LinkHead, CountSession, BeforeFork, AfterFork, procVars, Goto,
                    ReplyKeeping
    <2> QED BY <2>1
<1>6. ASSUME NEW n \in Proc, Unlinks(n)
      PROVE  FreshOK' /\ RecordsOK'
    <2>1. BeforeFork' = BeforeFork /\ AfterFork' = AfterFork
        BY <1>6 DEF Unlinks, BeforeFork, AfterFork
    <2>2. freed' = freed \cup {n}
        BY <1>6 DEF Unlinks, Unlink
    <2> QED BY <1>6, <2>1, <2>2 DEF Unlinks
<1>7. CASE UNCHANGED vars
    BY <1>7 DEF vars, BeforeFork, AfterFork
<1> QED BY <1>1, <1>2, <1>3, <1>4, <1>5, <1>6, <1>7, StepKinds

LEMMA HeadOnChain ==
    ASSUME TypeOK, LinksDown
    PROVE  /\ head = Nil => ChainOf(next, head) = {}
           /\ head # Nil => head \in ChainOf(next, head)
           /\ \A n \in ChainOf(next, head) : n \in Proc /\ n <= head
    BY Chains, ChainBelow DEF TypeOK, LinksDown

\* The newest element on the chain is older than the one being started.
LEMMA HeadIsOld ==
    ASSUME RecInv, ChainInv, pc \notin Ended
    PROVE  /\ head \in Nat /\ head <= logins
           /\ BeforeFork => loc.data \notin ChainOf(next, head)
           /\ pc = "link" => head < loc.data
<1> USE DEF RecInv, ChainInv
<1>1. CASE head = Nil
    <2>1. BeforeFork \/ AfterFork => loc.data \in Proc
        BY DEF DialogueOK
    <2>2. logins \in Nat
        BY Constants DEF TypeOK
    <2>3. pc = "link" => AfterFork
        BY DEF AfterFork
    <2>4. \A n \in Proc : 0 < n
        BY Constants
    <2>5. head = 0 /\ ChainOf(next, head) = {}
        BY <1>1, HeadOnChain, Constants
    <2> QED BY <2>1, <2>2, <2>3, <2>4, <2>5
<1>2. CASE head # Nil
    <2>1. head \in Proc /\ head \in ChainOf(next, head) /\ item[head].display # 0
        BY <1>2, HeadOnChain DEF TypeOK, ChainOK
    <2>2. head \in Nat /\ ~(head > logins) /\ logins \in Nat
        BY <2>1, Constants DEF FreshOK, TypeOK
    <2>3. BeforeFork => loc.data \notin ChainOf(next, head)
        BY DEF FreshOK, ChainOK, DialogueOK
    <2>4. pc = "link" => head # loc.data /\ loc.data = logins
        BY <2>1 DEF ChainOK, DialogueOK, AfterFork
    <2> QED BY <2>1, <2>2, <2>3, <2>4
<1> QED BY <1>1, <1>2

LEMMA ChainQuiet ==
    ASSUME RecInv, ChainInv, UNCHANGED chainVars, TypeOK', DialogueOK',
           \/ ~AfterFork /\ ~AfterFork'
           \/ pc' = pc /\ loc' = loc
           \/ pc' \in Ended,
           pc \in Ended => pc' \in Ended
    PROVE  ChainInv'
<1> USE DEF ChainInv, chainVars
<1>1. LinksDown'
    BY DEF LinksDown
<1>2. pc' \notin Ended /\ pc \notin Ended => ChainOK' /\ KeptOnChain'
    <2> SUFFICES ASSUME pc' \notin Ended, pc \notin Ended PROVE ChainOK' /\ KeptOnChain'
        OBVIOUS
    <2>1. pc' \in {"link", "head"} => pc' = pc /\ loc' = loc
        BY DEF AfterFork
    <2>2. pc \in {"link", "head"} => pc' = pc /\ loc' = loc
        BY DEF AfterFork
    <2>3. ChainOK'
        BY <2>1 DEF ChainOK
    <2>4. Kept' = Kept
        BY DEF Kept
    <2>5. ChainOf(next, head)' = ChainOf(next, head)
        OBVIOUS
    <2>6. KeptOnChain'
        <3> SUFFICES ASSUME NEW n \in Kept
                     PROVE  n \in ChainOf(next, head) \/ (pc' \in {"link", "head"} /\ n = loc'.data)
            BY <2>4, <2>5 DEF KeptOnChain
        <3> QED BY <2>2 DEF KeptOnChain
    <2> QED BY <2>3, <2>6
<1>3. CASE pc' \in Ended
    BY <1>1, <1>3 DEF ChainOK, KeptOnChain
<1> QED BY <1>1, <1>2, <1>3

LEMMA ChainFork ==
    ASSUME RecInv, ChainInv, ForkDone
    PROVE  ChainInv'
<1> USE DEF ChainInv, RecInv, ForkDone
<1>1. /\ pc \notin Ended /\ BeforeFork /\ loc.data \in Proc
      /\ loc.data \notin ChainOf(next, head)
    BY HeadIsOld DEF BeforeFork, Ended, DialogueOK
<1>2. \A n \in Proc : n # loc.data => item'[n] = item[n]
    BY DEF TypeOK
<1>3. \A n \in ChainOf(next, head) : n \in Proc
    BY HeadOnChain
<1>4. ChainOK'
    BY <1>1, <1>2, <1>3 DEF ChainOK, TypeOK
<1>5. \A n \in Kept' : n \in Kept \/ n = loc.data
    BY <1>2 DEF Kept
<1>6. KeptOnChain'
    BY <1>1, <1>5 DEF KeptOnChain
<1> QED BY <1>4, <1>6 DEF LinksDown

LEMMA ChainLinkNext ==
    ASSUME RecInv, ChainInv, LinkNext
    PROVE  ChainInv'
<1> USE DEF ChainInv, RecInv
<1>1. /\ pc = "link" /\ pc' = "head" /\ next' = [next EXCEPT ![loc.data] = head]
      /\ UNCHANGED <<head, item, freed, loc>> /\ pc \notin Ended
    BY DEF LinkNext, Goto, Ended
<1>2. loc.data \in Proc /\ head < loc.data /\ head \in Proc \cup {Nil}
    BY <1>1, HeadIsOld DEF DialogueOK, AfterFork, TypeOK
<1>3. /\ next'[loc.data] = head
      /\ \A i \in Proc : i # loc.data => next'[i] = next[i]
    BY <1>1, <1>2 DEF TypeOK
<1>4. LinksDown'
    BY <1>2, <1>3 DEF LinksDown, Links
<1>5. ChainOf(next', head) = ChainOf(next, head)
    BY <1>2, <1>3, <1>4, ChainSame DEF LinksDown
<1>6. ChainOK'
    BY <1>1, <1>3, <1>5 DEF ChainOK
<1>7. KeptOnChain'
    <2>1. Kept' = Kept
        BY <1>1 DEF Kept
    <2> QED BY <1>1, <1>5, <2>1 DEF KeptOnChain
<1> QED BY <1>4, <1>6, <1>7

LEMMA ChainLinkHead ==
    ASSUME RecInv, ChainInv, LinkHead
    PROVE  ChainInv'
<1> USE DEF ChainInv, RecInv
<1>1. /\ pc = "head" /\ pc' = "count" /\ head' = loc.data
      /\ UNCHANGED <<next, item, freed, loc>> /\ pc \notin Ended /\ AfterFork
    BY DEF LinkHead, Goto, Ended, AfterFork
<1>2. loc.data \in Proc /\ item[loc.data].display # 0
    BY <1>1, Constants DEF DialogueOK, RecordsOK
<1>3. ChainOf(next, loc.data) = {loc.data} \cup ChainOf(next, next[loc.data])
    BY <1>2, Chains DEF LinksDown
<1>4. ChainOK'
    BY <1>1, <1>2, <1>3 DEF ChainOK
<1>5. Kept' = Kept
    BY <1>1 DEF Kept
<1>6. KeptOnChain'
    BY <1>1, <1>3, <1>5 DEF KeptOnChain, ChainOK
<1> QED BY <1>1, <1>4, <1>6 DEF LinksDown

LEMMA ChainCount ==
    ASSUME RecInv, ChainInv, CountSession
    PROVE  ChainInv'
<1> USE DEF ChainInv, RecInv
<1>1. /\ pc = "count" /\ pc' = "wait" /\ UNCHANGED <<head, next, item, freed, loc>>
      /\ pc \notin Ended
    BY DEF CountSession, ReplyKeeping, Ended
<1>2. ChainOK' /\ LinksDown'
    BY <1>1 DEF ChainOK, LinksDown
<1>3. Kept' = Kept
    BY <1>1 DEF Kept
<1> QED BY <1>1, <1>2, <1>3 DEF KeptOnChain

\* Out of a chain C that holds n, n is gone for good.
LEMMA ChainDrops ==
    ASSUME NEW nx, Links(nx), NEW C, NEW n \in Proc,
           \A m \in C : m \in Proc /\ nx[m] \in C \cup {Nil}, n \in C
    PROVE  \A k \in C : k # n => n \notin ChainOf(Without(nx, C, n), k)
<1> DEFINE mx == Without(nx, C, n)
           Bad == {k \in C : k # n /\ n \in ChainOf(mx, k)}
<1>0. Links(mx)
    BY LinksWithout
<1>a. \A i \in Proc \cup {Nil} : i \in Nat
    BY SesmanAssumption DEF Proc, Nil
<1>1. SUFFICES ASSUME Bad # {} PROVE FALSE
    OBVIOUS
<1>2. PICK x \in Bad : \A y \in Bad : x <= y
    <2>1. Bad \in SUBSET Nat
        BY <1>a
    <2> HIDE DEF Bad
    <2> QED BY <1>1, <2>1, LeastElement
<1>3. x \in Proc /\ x \in C /\ x # n
    BY <1>2
<1>4. mx[x] < x /\ ChainOf(mx, x) = {x} \cup ChainOf(mx, mx[x])
    BY <1>0, <1>3, Chains DEF Links
<1>5. mx[x] \in C \cup {Nil} /\ mx[x] # n
    <2>1. nx[n] # n
        <3>1. nx[n] < n /\ n \in Nat
            BY <1>a DEF Links
        <3> QED BY <3>1
    <2>2. mx[x] = IF nx[x] = n THEN nx[n] ELSE nx[x]
        BY <1>3 DEF Without
    <2> QED BY <1>3, <2>1, <2>2
<1>6. n \in ChainOf(mx, mx[x])
    BY <1>2, <1>3, <1>4
<1>7. mx[x] # Nil
    BY <1>0, <1>6, Chains
<1>8. mx[x] \in Bad /\ ~(x <= mx[x])
    <2>1. x \in Nat /\ mx[x] \in Nat
        BY <1>3, <1>5, <1>7, <1>a
    <2> QED BY <2>1, <1>4, <1>5, <1>6, <1>7
<1> QED BY <1>2, <1>8

\* What the handler does to the chain, from the head and from anywhere else.
LEMMA Unlinked ==
    ASSUME TypeOK, LinksDown, NEW n \in Proc, Unlinks(n)
    PROVE  /\ LinksDown'
           /\ freed' = freed \cup {n} /\ count' = count - 1 /\ Kept' = Kept \ {n}
           /\ n \in ChainOf(next, head)
           /\ ChainOf(next', head') = ChainOf(next, head) \ {n}
           /\ \A k \in Proc \cup {Nil} : /\ ChainOf(next', k) \subseteq ChainOf(next, k)
                                         /\ ChainOf(next, k) \ {n} \subseteq ChainOf(next', k)
           /\ \A k \in Proc : k \notin ChainOf(next, head) => next'[k] = next[k]
<1> DEFINE C == ChainOf(next, head)
<1>1. Chain(head) = C
    BY DEF Chain, ChainOf
<1>2. /\ n \in C /\ freed' = freed \cup {n} /\ count' = count - 1 /\ item' = item
      /\ IF head = n THEN head' = next[n] /\ next' = next
         ELSE head' = head /\ next' = Without(next, C, n)
    BY <1>1 DEF Unlinks, Unlink, Without
<1>3. Kept' = Kept \ {n}
    BY <1>2 DEF Kept
<1>4. Links(next) /\ head \in Proc \cup {Nil} /\ \A m \in C : m \in Proc /\ next[m] \in C \cup {Nil}
    BY ChainStep DEF LinksDown, TypeOK
<1>5. CASE head = n
    <2>1. head' = next[n] /\ next' = next
        BY <1>2, <1>5
    <2>2. C = {n} \cup ChainOf(next, next[n])
        BY <1>4, <1>5, Chains
    <2>3. n \notin ChainOf(next, next[n])
        BY <1>2, <1>4, ChainStep
    <2> QED BY <1>2, <1>3, <1>4, <2>1, <2>2, <2>3 DEF LinksDown
<1>6. CASE head # n
    <2>1. head' = head /\ next' = Without(next, C, n)
        BY <1>2, <1>6
    <2>2. LinksDown'
        BY <1>4, <2>1, LinksWithout DEF LinksDown
    <2>3. \A k \in Proc \cup {Nil} : /\ ChainOf(next', k) \subseteq ChainOf(next, k)
                                     /\ ChainOf(next, k) \ {n} \subseteq ChainOf(next', k)
        BY <1>4, <2>1, ChainWithout
    <2>4. head \in C
        BY <1>2, <1>4, ChainStep, Chains
    <2>5. n \notin ChainOf(next', head)
        BY <1>2, <1>4, <1>6, <2>1, <2>4, ChainDrops
    <2>6. \A k \in Proc : k \notin C => next'[k] = next[k]
        BY <2>1 DEF Without
    <2>7. ChainOf(next', head') = C \ {n}
        BY <1>4, <2>1, <2>3, <2>5
    <2> HIDE DEF C
    <2>8. C = ChainOf(next, head)
        BY DEF C
    <2> QED BY <1>2, <1>3, <2>2, <2>3, <2>6, <2>7, <2>8
<1> QED BY <1>5, <1>6

LEMMA ChainUnlink ==
    ASSUME RecInv, ChainInv, NEW n \in Proc, Unlinks(n)
    PROVE  ChainInv'
<1> USE DEF ChainInv, RecInv
<1>1. pc \notin Ended /\ UNCHANGED <<pc, item, loc>>
    BY DEF Unlinks
<1>2. /\ LinksDown' /\ Kept' = Kept \ {n} /\ n \in ChainOf(next, head)
      /\ ChainOf(next', head') = ChainOf(next, head) \ {n}
      /\ \A k \in Proc \cup {Nil} : /\ ChainOf(next', k) \subseteq ChainOf(next, k)
                                    /\ ChainOf(next, k) \ {n} \subseteq ChainOf(next', k)
      /\ \A k \in Proc : k \notin ChainOf(next, head) => next'[k] = next[k]
    BY Unlinked
<1>3. ChainOK'
    <2>1. (\A m \in ChainOf(next', head') : item[m].display # 0)
          /\ (pc \in {"link", "head"} => loc.data \notin ChainOf(next', head'))
        BY <1>1, <1>2 DEF ChainOK
    <2>2. ASSUME pc = "head"
          PROVE  /\ ChainOf(next', head') \subseteq ChainOf(next', next'[loc.data])
                 /\ \A m \in ChainOf(next', next'[loc.data]) : item[m].display # 0
        <3>1. loc.data \in Proc /\ loc.data \notin ChainOf(next, head)
            BY <2>2, <1>1 DEF ChainOK, DialogueOK, AfterFork
        <3>2. next'[loc.data] = next[loc.data] /\ next[loc.data] \in Proc \cup {Nil}
            BY <1>2, <3>1 DEF TypeOK
        <3>3. ChainOf(next, head) \subseteq ChainOf(next, next[loc.data])
              /\ \A m \in ChainOf(next, next[loc.data]) : item[m].display # 0
            BY <2>2, <1>1 DEF ChainOK
        <3> QED BY <1>2, <3>2, <3>3
    <2> QED BY <1>1, <2>1, <2>2 DEF ChainOK
<1>4. KeptOnChain'
    BY <1>1, <1>2 DEF KeptOnChain
<1> QED BY <1>2, <1>3, <1>4

LEMMA ChainKept ==
    ASSUME RecInv, ChainInv, TypeOK', DialogueOK', [Next]_vars
    PROVE  ChainInv'
<1>1. CASE QuietStep
    <2>1. UNCHANGED chainVars /\ ~AfterFork /\ ~AfterFork' /\ pc \notin Ended
        BY <1>1 DEF QuietStep
    <2> QED BY <2>1, ChainQuiet
<1>2. CASE ProcessStep
    <2>1. UNCHANGED chainVars /\ UNCHANGED loc /\ (pc' = pc \/ pc' \in Ended)
          /\ (pc \in Ended => pc' \in Ended)
        BY <1>2 DEF ProcessStep, Ended
    <2> QED BY <2>1, ChainQuiet
<1>3. CASE ScriptStarts
    <2>1. UNCHANGED chainVars /\ ~AfterFork /\ ~AfterFork' /\ pc \notin Ended
        BY <1>3 DEF ScriptStarts, AfterFork, Ended
    <2> QED BY <2>1, ChainQuiet
<1>4. CASE UNCHANGED vars
    <2>1. UNCHANGED chainVars /\ pc' = pc /\ loc' = loc
        BY <1>4 DEF vars, chainVars
    <2>2. pc \in Ended => pc' \in Ended
        BY <2>1
    <2> QED BY <2>1, <2>2, ChainQuiet
<1>5. TypeOK /\ DialogueOK
    BY DEF RecInv
<1> QED BY <1>1, <1>2, <1>3, <1>4, <1>5, StepKinds, ChainFork, ChainLinkNext, ChainLinkHead,
           ChainCount, ChainUnlink

-----------------------------------------------------------------------------
(* The count *)

LEMMA KeptFinite ==
    IsFiniteSet(Proc) /\ IsFiniteSet(Kept) /\ Cardinality(Kept) \in Nat
<1>1. IsFiniteSet(Proc)
    BY Constants, FS_Interval DEF Proc
<1>2. IsFiniteSet(Kept)
    BY <1>1, FS_Subset DEF Kept
<1> QED BY <1>1, <1>2, FS_CardinalityType

\* That is what CountIsExact says.
LEMMA CountMeans ==
    ASSUME TypeOK, DialogueOK, RecordsOK, CountOK
    PROVE  CountIsExact
<1> DEFINE kept == {n \in Proc : item[n].display # 0} \ (freed \cup Linking)
<1>0. CountIsExact <=> (pc \notin Ended => count = Cardinality(kept) - Cardinality(Linking \cap freed))
    BY DEF CountIsExact
<1>1. kept = Kept \ Linking
    BY DEF Kept
<1>2. Cardinality({}) = 0 /\ \A x : Cardinality({x}) = 1
    BY FS_EmptySet, FS_Singleton
<1>3. CASE ~AfterFork
    <2>1. Linking = {}
        BY <1>3 DEF Linking, AfterFork
    <2>2. kept = Kept /\ Linking \cap freed = {}
        BY <1>1, <2>1
    <2> HIDE DEF kept
    <2>3. Cardinality(kept) - Cardinality(Linking \cap freed) = Cardinality(Kept)
        BY <1>2, <2>2, KeptFinite
    <2> QED BY <1>0, <1>3, <2>3 DEF CountOK
<1>4. CASE AfterFork
    <2>1. Linking = {loc.data} /\ loc.data \in Proc /\ item[loc.data].display # 0
        BY <1>4, Constants DEF Linking, AfterFork, DialogueOK, RecordsOK
    <2>2. CASE loc.data \in freed
        <3>1. kept = Kept /\ Linking \cap freed = {loc.data} /\ loc.data \notin Kept
            BY <1>1, <2>1, <2>2 DEF Kept
        <3> HIDE DEF kept
        <3>2. Cardinality(kept) - Cardinality(Linking \cap freed) = Cardinality(Kept) - 1
            BY <1>2, <3>1, KeptFinite
        <3> QED BY <1>0, <1>4, <3>2 DEF CountOK
    <2>3. CASE loc.data \notin freed
        <3>1. kept = Kept \ {loc.data} /\ Linking \cap freed = {} /\ loc.data \in Kept
            BY <1>1, <2>1, <2>3 DEF Kept
        <3> HIDE DEF kept
        <3>2. Cardinality(kept) = Cardinality(Kept) - 1
            BY <3>1, KeptFinite, FS_RemoveElement
        <3>2a. Cardinality(Linking \cap freed) = 0
            BY <1>2, <3>1
        <3>3. Cardinality(kept) - Cardinality(Linking \cap freed) = Cardinality(Kept) - 1
            BY <3>2, <3>2a, KeptFinite
        <3> QED BY <1>0, <1>4, <3>3 DEF CountOK
    <2> QED BY <2>2, <2>3
<1> QED BY <1>3, <1>4

LEMMA CountQuiet ==
    ASSUME RecInv, CountOK, RecInv', UNCHANGED chainVars,
           \/ ~AfterFork /\ ~AfterFork'
           \/ pc' = pc /\ loc' = loc
           \/ pc' \in Ended,
           pc \in Ended => pc' \in Ended,
           pc' \in {"avail", "fork"} => pc \in {"avail", "fork"} \/ (pc = "limit" /\ ~LimitReached)
    PROVE  CountOK'
<1> USE DEF RecInv
<1>1. Kept' = Kept /\ count' = count
    BY DEF Kept, chainVars
<1>2. AfterFork' = AfterFork \/ pc' \in Ended
    BY DEF AfterFork
<1>3. pc = "limit" /\ ~LimitReached => Cardinality(Kept) < MaxSessions
    <2> SUFFICES ASSUME pc = "limit", ~LimitReached PROVE Cardinality(Kept) < MaxSessions
        OBVIOUS
    <2>1. count = Cardinality(Kept)
        BY DEF CountOK, AfterFork, Ended
    <2> QED BY <2>1, KeptFinite, Constants DEF LimitReached
<1> QED BY <1>1, <1>2, <1>3 DEF CountOK

LEMMA CountFork ==
    ASSUME RecInv, CountOK, RecInv', ForkDone
    PROVE  CountOK'
<1> USE DEF RecInv
<1>1. /\ pc = "fork" /\ pc' = "link" /\ ~AfterFork /\ AfterFork' /\ pc \notin Ended
      /\ count' = count /\ freed' = freed
    BY DEF ForkDone, AfterFork, Ended
<1>2. loc.data \in Proc /\ proc[loc.data] = "none" /\ item[loc.data].display = 0
    BY <1>1 DEF DialogueOK, BeforeFork, FreshOK
<1>3. loc.data \notin freed /\ loc.data \notin Kept
    BY <1>2 DEF RecordsOK, Kept
<1>4. Kept' = Kept \cup {loc.data}
    <2>1. item'[loc.data].display = loc.display /\ loc.display # 0
        BY <1>1, <1>2, Constants DEF ForkDone, DialogueOK, TypeOK
    <2>2. \A n \in Proc : n # loc.data => item'[n] = item[n]
        BY DEF ForkDone, TypeOK
    <2> QED BY <1>1, <1>2, <1>3, <2>1, <2>2 DEF Kept
<1>5. Cardinality(Kept') = Cardinality(Kept) + 1
    BY <1>3, <1>4, KeptFinite, FS_AddElement
<1>6. count = Cardinality(Kept) /\ Cardinality(Kept) < MaxSessions
    BY <1>1 DEF CountOK
<1>7. count' = Cardinality(Kept') - 1 /\ Cardinality(Kept') <= MaxSessions
    BY <1>1, <1>5, <1>6, KeptFinite, Constants
<1> QED BY <1>1, <1>7 DEF CountOK

LEMMA CountLink ==
    ASSUME RecInv, CountOK, RecInv', LinkNext \/ LinkHead
    PROVE  CountOK'
<1> USE DEF RecInv
<1>1. /\ AfterFork /\ AfterFork' /\ pc \notin Ended /\ pc' \notin Ended /\ pc' \in {"head", "count"}
      /\ UNCHANGED <<item, freed, count>>
    BY DEF LinkNext, LinkHead, Goto, AfterFork, Ended
<1>2. Kept' = Kept
    BY <1>1 DEF Kept
<1> QED BY <1>1, <1>2 DEF CountOK

LEMMA CountCounted ==
    ASSUME RecInv, CountOK, RecInv', CountSession
    PROVE  CountOK'
<1> USE DEF RecInv
<1>1. /\ AfterFork /\ ~AfterFork' /\ pc \notin Ended /\ pc' = "wait"
      /\ UNCHANGED <<item, freed>> /\ count' = count + 1
    BY DEF CountSession, ReplyKeeping, AfterFork, Ended
<1>2. Kept' = Kept
    BY <1>1 DEF Kept
<1>3. count' = Cardinality(Kept)
    BY <1>1, KeptFinite DEF CountOK
<1> QED BY <1>1, <1>2, <1>3 DEF CountOK

LEMMA CountUnlink ==
    ASSUME RecInv, ChainInv, CountOK, RecInv', NEW n \in Proc, Unlinks(n)
    PROVE  CountOK'
<1> USE DEF RecInv
<1>1. pc \notin Ended /\ UNCHANGED <<pc, loc, item>> /\ AfterFork' = AfterFork
    BY DEF Unlinks, AfterFork
<1>2. count' = count - 1 /\ Kept' = Kept \ {n} /\ n \in ChainOf(next, head)
    BY Unlinked DEF ChainInv
<1>3. n \in Kept
    <2>1. item[n].display # 0
        BY <1>1, <1>2 DEF ChainInv, ChainOK
    <2>2. n \notin freed
        BY DEF Unlinks, RecordsOK
    <2> QED BY <2>1, <2>2 DEF Kept
<1>4. Cardinality(Kept') = Cardinality(Kept) - 1
    BY <1>2, <1>3, KeptFinite, FS_RemoveElement
<1>5. /\ ~AfterFork' => count' = Cardinality(Kept')
      /\ AfterFork' => count' = Cardinality(Kept') - 1
    <2>1. ~AfterFork => count = Cardinality(Kept)
        BY <1>1 DEF CountOK
    <2>2. AfterFork => count = Cardinality(Kept) - 1
        BY <1>1 DEF CountOK
    <2> QED BY <1>1, <1>2, <1>4, <2>1, <2>2, KeptFinite
<1>6. /\ Cardinality(Kept') <= MaxSessions
      /\ pc \in {"avail", "fork"} => Cardinality(Kept') < MaxSessions
    BY <1>4, KeptFinite, Constants DEF CountOK
<1> QED BY <1>1, <1>5, <1>6 DEF CountOK

LEMMA CountKept ==
    ASSUME RecInv, ChainInv, CountOK, RecInv', [Next]_vars
    PROVE  CountOK'
<1>1. CASE QuietStep
    <2>1. UNCHANGED chainVars /\ ~AfterFork /\ ~AfterFork' /\ pc \notin Ended
        BY <1>1 DEF QuietStep
    <2>2. pc' \in {"avail", "fork"} => pc \in {"avail", "fork"} \/ (pc = "limit" /\ ~LimitReached)
        BY <1>1 DEF QuietStep
    <2> QED BY <2>1, <2>2, CountQuiet
<1>2. CASE ProcessStep
    <2>1. UNCHANGED chainVars /\ UNCHANGED loc /\ (pc' = pc \/ pc' = "crashed")
        BY <1>2 DEF ProcessStep
    <2>2. "crashed" \in Ended
        BY DEF Ended
    <2> QED BY <2>1, <2>2, CountQuiet
<1>3. CASE ScriptStarts
    <2>1. UNCHANGED chainVars /\ ~AfterFork /\ ~AfterFork' /\ pc \notin Ended
          /\ pc' \notin {"avail", "fork"}
        BY <1>3 DEF ScriptStarts, AfterFork, Ended
    <2> QED BY <2>1, CountQuiet
<1>4. CASE UNCHANGED vars
    <2>1. UNCHANGED chainVars /\ pc' = pc /\ loc' = loc
        BY <1>4 DEF vars, chainVars
    <2> QED BY <2>1, CountQuiet
<1>5. TypeOK /\ DialogueOK
    BY DEF RecInv
<1> QED BY <1>1, <1>2, <1>3, <1>4, <1>5, StepKinds, CountFork, CountLink, CountCounted, CountUnlink

-----------------------------------------------------------------------------
(* The walks *)

\* A walk starts at the head, before everything that is kept, ...
LEMMA WalkStarts ==
    ASSUME RecInv, ChainInv, BeforeFork
    PROVE  head \in ChainOf(next, head) \cup {Nil} /\ Kept \subseteq ChainOf(next, head)
<1>1. pc \notin Ended /\ pc \notin {"link", "head"}
    BY DEF BeforeFork, Ended
<1> QED BY <1>1, HeadOnChain DEF RecInv, ChainInv, KeptOnChain

\* ... and goes on to what lies behind the element.
LEMMA WalkGoesOn ==
    ASSUME RecInv, ChainInv, TmpOK, Walking, loc.tmp \notin freed, loc.tmp # Nil
    PROVE  /\ loc.tmp \in Proc /\ next[loc.tmp] \in ChainOf(next, head) \cup {Nil}
           /\ item[loc.tmp].display # 0
           /\ ChainOf(next, loc.tmp) = {loc.tmp} \cup ChainOf(next, next[loc.tmp])
<1>1. loc.tmp \in ChainOf(next, head) /\ Links(next) /\ head \in Proc \cup {Nil}
    BY DEF TmpOK, ChainInv, LinksDown, RecInv, TypeOK
<1>2. loc.tmp \in Proc /\ next[loc.tmp] \in ChainOf(next, head) \cup {Nil}
    BY <1>1, ChainStep
<1>3. item[loc.tmp].display # 0
    BY <1>1 DEF ChainInv, ChainOK, Walking, Ended
<1> QED BY <1>1, <1>2, <1>3, Chains

\* At the end nothing lies behind.
LEMMA NothingBehind ==
    ASSUME RecInv, ChainInv
    PROVE  ChainOf(next, Nil) = {} /\ Nil \notin freed
    BY Chains, Constants DEF RecInv, TypeOK, ChainInv, LinksDown

\* Steps that only change where the thread is, to a place where no walk is.
LEMMA WalkElsewhere ==
    ASSUME WalkInv, UNCHANGED chainVars,
           ~MayFail => SentToOwnSession',
           pc' \notin {"bydata", "avail", "found", "limit", "fork", "access", "reconnect"}
    PROVE  WalkInv'
<1>1. Kept' = Kept /\ item' = item
    BY DEF Kept, chainVars
<1>2. TmpOK'
    BY DEF TmpOK, Walking
<1>3. DisplaysOK'
    BY <1>1 DEF DisplaysOK, WalkInv
<1>4. UsersOK'
    BY <1>1 DEF UsersOK, WalkInv
<1>5. SentOK'
    BY DEF SentOK
<1> QED BY <1>2, <1>3, <1>4, <1>5 DEF WalkInv

LEMMA WalkStays ==
    ASSUME WalkInv, UNCHANGED <<chainVars, loc, told>>, pc' = pc \/ pc' = "crashed"
    PROVE  WalkInv'
<1>1. CASE pc' = "crashed"
    BY <1>1, WalkElsewhere DEF SentToOwnSession
<1>2. CASE pc' = pc
    <2>1. Kept' = Kept
        BY DEF Kept, chainVars
    <2>2. UNCHANGED <<head, next, freed, item>>
        BY DEF chainVars
    <2>3. TmpOK' /\ DisplaysOK'
        BY <1>2, <2>1, <2>2 DEF WalkInv, TmpOK, Walking, DisplaysOK
    <2>4. UsersOK'
        BY <1>2, <2>1, <2>2 DEF WalkInv, UsersOK
    <2>5. SentOK'
        BY <1>2, <2>1, <2>2 DEF WalkInv, SentOK, SentToOwnSession
    <2> QED BY <2>3, <2>4, <2>5 DEF WalkInv
<1> QED BY <1>1, <1>2

LEMMA WalkAuth ==
    ASSUME RecInv, ChainInv, WalkInv, sesman_main_loop \/ Authenticate
    PROVE  WalkInv'
<1>1. CASE sesman_main_loop
    <2>1. UNCHANGED chainVars /\ pc' \in {"exited", "auth"}
        BY <1>1 DEF sesman_main_loop, idleVars, chainVars, scp_process_start
    <2> QED BY <2>1, WalkElsewhere DEF SentToOwnSession
<1>2. CASE pc = "auth" /\ LoginFails /\ UNCHANGED idleVars
    <2>1. UNCHANGED chainVars /\ pc' = "wait" /\ told' = 0
        BY <1>2 DEF LoginFails, idleVars, chainVars
    <2> QED BY <2>1, WalkElsewhere DEF SentToOwnSession
<1>3. CASE pc = "auth" /\ LoginOK /\ UNCHANGED idleVars /\ loc.kind # "gw"
    <2>1. /\ UNCHANGED chainVars /\ loc' = [loc EXCEPT !.tmp = head] /\ told' = told
          /\ pc' = IF loc.kind = "v0" THEN "bydata" ELSE "access"
        BY <1>3 DEF LoginOK, idleVars, chainVars
    <2>2. UNCHANGED <<head, next, item, freed>> /\ Kept' = Kept
        BY <2>1 DEF chainVars, Kept
    <2>3. /\ loc'.tmp = head /\ loc'.user = loc.user /\ loc'.kind = loc.kind
        BY <2>1 DEF RecInv, TypeOK
    <2>4. head \in ChainOf(next, head) \cup {Nil} /\ Kept \subseteq ChainOf(next, head)
        BY <1>3, WalkStarts DEF BeforeFork
    <2>5. TmpOK' /\ DisplaysOK'
        BY <2>1, <2>2, <2>3, <2>4 DEF TmpOK, Walking, DisplaysOK, WalkInv
    <2>6. UsersOK'
        BY <2>1, <2>2, <2>3, <2>4 DEF UsersOK, WalkInv
    <2>7. SentOK'
        BY <2>1 DEF SentOK, SentToOwnSession
    <2> QED BY <2>5, <2>6, <2>7 DEF WalkInv
<1> QED BY <1>1, <1>2, <1>3 DEF Authenticate

LEMMA WalkByData ==
    ASSUME RecInv, ChainInv, WalkInv, session_get_bydata \/ UseFoundItem
    PROVE  WalkInv'
<1>0. UNCHANGED <<head, next, item, freed>> /\ Kept' = Kept /\ UNCHANGED chainVars
    BY DEF session_get_bydata, UseFoundItem, idleVars, chainVars, Kept
<1>1. CASE session_get_bydata
    <2>1. pc = "bydata" /\ loc.tmp \notin freed /\ Walking /\ TmpOK
        BY <1>1 DEF session_get_bydata, Walking, WalkInv
    <2>2. CASE loc.tmp = Nil
        <3>1. pc' = "access" /\ loc' = loc
            BY <1>1, <2>2 DEF session_get_bydata, Goto
        <3>2. UsersOK'
            BY <1>0, <2>1, <2>2, <3>1, NothingBehind DEF UsersOK, WalkInv
        <3> QED BY <1>0, <3>1, <3>2 DEF WalkInv, TmpOK, Walking, DisplaysOK, SentOK,
                                        SentToOwnSession
    <2>3. CASE loc.tmp # Nil /\ Matches(loc.tmp)
        <3>1. pc' = "found" /\ loc' = loc
            BY <1>1, <2>3 DEF session_get_bydata, Goto
        <3>2. item[loc.tmp].display # 0 /\ item[loc.tmp].user = loc.user
            BY <2>1, <2>3, WalkGoesOn DEF Matches
        <3>3. TmpOK' /\ DisplaysOK'
            BY <1>0, <2>1, <3>1 DEF TmpOK, Walking, WalkInv, DisplaysOK
        <3>4. UsersOK'
            BY <1>0, <3>1 DEF UsersOK, WalkInv
        <3> QED BY <1>0, <3>1, <3>2, <3>3, <3>4 DEF WalkInv, SentOK, SentToOwnSession
    <2>4. CASE loc.tmp # Nil /\ ~Matches(loc.tmp)
        <3>1. pc' = "bydata" /\ loc' = [loc EXCEPT !.tmp = next[loc.tmp]]
            BY <1>1, <2>4 DEF session_get_bydata, Goto
        <3>2. loc'.tmp = next[loc.tmp] /\ loc'.user = loc.user
            BY <3>1 DEF RecInv, TypeOK
        <3>3. /\ next[loc.tmp] \in ChainOf(next, head) \cup {Nil}
              /\ ChainOf(next, loc.tmp) = {loc.tmp} \cup ChainOf(next, next[loc.tmp])
            BY <2>1, <2>4, WalkGoesOn
        <3>4. TmpOK' /\ DisplaysOK'
            BY <1>0, <3>1, <3>2, <3>3 DEF TmpOK, WalkInv, DisplaysOK
        <3>5. UsersOK'
            BY <1>0, <2>1, <2>4, <3>1, <3>2, <3>3 DEF UsersOK, WalkInv, Matches
        <3> QED BY <3>1, <3>4, <3>5 DEF WalkInv, SentOK, SentToOwnSession
    <2> QED BY <2>2, <2>3, <2>4
<1>2. CASE UseFoundItem
    <2>1. /\ pc = "found" /\ pc' = "reconnect"
          /\ loc' = [loc EXCEPT !.display = item[loc.tmp].display]
        BY <1>2 DEF UseFoundItem, Goto
    <2>2. loc'.display = item[loc.tmp].display /\ loc'.user = loc.user /\ loc.tmp \in Proc
        BY <2>1 DEF RecInv, TypeOK, DialogueOK
    <2>3. TmpOK' /\ DisplaysOK'
        BY <1>0, <2>1 DEF TmpOK, Walking, WalkInv, DisplaysOK
    <2>4. UsersOK'
        BY <1>0, <2>1 DEF UsersOK, WalkInv
    <2>5. SentOK'
        BY <1>0, <2>1, <2>2 DEF SentOK, WalkInv, SentToOwnSession
    <2> QED BY <2>3, <2>4, <2>5 DEF WalkInv
<1> QED BY <1>1, <1>2

LEMMA WalkReconnect ==
    ASSUME WalkInv, ScriptStarts
    PROVE  WalkInv'
<1>1. /\ pc = "reconnect" /\ pc' = "wait" /\ told' = loc.display /\ loc' = loc /\ item' = item
      /\ UNCHANGED chainVars
    BY DEF ScriptStarts, chainVars
<1>2. ~MayFail => SentToOwnSession'
    BY <1>1 DEF WalkInv, SentOK, SentToOwnSession
<1> QED BY <1>1, <1>2, WalkElsewhere

\* Steps that send the dialogue to its next stage.
LEMMA WalkAccess ==
    ASSUME RecInv, ChainInv, WalkInv,
           access_login_allowed \/ session_get_byuser \/ scp_v1_mng_process
    PROVE  WalkInv'
<1>0. UNCHANGED chainVars /\ UNCHANGED <<head, next, item, freed>> /\ Kept' = Kept
    BY DEF access_login_allowed, session_get_byuser, scp_v1_mng_process, idleVars, chainVars, Kept
<1>1. CASE pc' \in {"wait", "byuser", "mng", "spin"}
    <2>1. pc' = "wait" => told' = 0
        <3>1. CASE access_login_allowed
            <4>1. loc.kind \in {"v0", "v1", "mng"}
                BY <3>1, SesmanAssumption DEF access_login_allowed, RecInv, DialogueOK, BeforeFork
            <4> QED BY <3>1, <4>1 DEF access_login_allowed, AccessDenied, AccessGranted, Goto,
                                      Reply, ReplyKeeping
        <3>2. CASE session_get_byuser
            BY <3>2 DEF session_get_byuser, Goto
        <3>3. CASE scp_v1_mng_process
            BY <3>3 DEF scp_v1_mng_process, Goto, Reply
        <3> QED BY <3>1, <3>2, <3>3
    <2> QED BY <1>0, <1>1, <2>1, WalkElsewhere DEF SentToOwnSession
<1>2. CASE /\ pc' = "limit"
           /\ \/ pc = "access" /\ loc.kind = "v0" /\ loc'.user = loc.user
              \/ loc.kind = "v1" /\ loc.kind \in Kinds
    <2>1. TmpOK' /\ DisplaysOK' /\ SentOK'
        BY <1>0, <1>2 DEF TmpOK, Walking, DisplaysOK, SentOK, SentToOwnSession, WalkInv
    <2>2. UsersOK'
        BY <1>0, <1>2 DEF UsersOK, WalkInv
    <2> QED BY <2>1, <2>2 DEF WalkInv
<1>3. CASE access_login_allowed
    <2>1. pc = "access" /\ loc.kind \in {"v0", "v1", "mng"}
        BY <1>3, SesmanAssumption DEF access_login_allowed, RecInv, DialogueOK, BeforeFork
    <2>2. pc' \in {"wait", "byuser", "mng"}
          \/ (pc' = "limit" /\ loc.kind = "v0" /\ loc' = [loc EXCEPT !.tmp = head])
        BY <1>3, <2>1 DEF access_login_allowed, AccessDenied, AccessGranted, Goto, Reply,
                          ReplyKeeping
    <2>3. loc' = [loc EXCEPT !.tmp = head] => loc'.user = loc.user
        BY DEF RecInv, TypeOK
    <2> QED BY <1>1, <1>2, <2>1, <2>2, <2>3
<1>4. CASE session_get_byuser
    <2>1. pc = "byuser" /\ loc.kind \in Kinds
        BY <1>4 DEF session_get_byuser, RecInv, DialogueOK, BeforeFork
    <2>2. pc' \in {"byuser", "mng"} \/ (pc' = "limit" /\ loc.kind = "v1")
        BY <1>4 DEF session_get_byuser, Goto
    <2> QED BY <1>1, <1>2, <2>1, <2>2
<1>5. CASE scp_v1_mng_process
    <2>1. pc' \in {"byuser", "spin", "wait"}
        BY <1>5 DEF scp_v1_mng_process, Goto, Reply
    <2> QED BY <1>1, <2>1
<1> QED BY <1>3, <1>4, <1>5

\* A new round of the search for a display.
LEMMA WalkAgain ==
    ASSUME RecInv, ChainInv, WalkInv, UNCHANGED chainVars, pc \in {"limit", "avail"},
           pc' = "avail", loc'.tmp = head, loc'.user = loc.user
    PROVE  WalkInv'
<1>0. UNCHANGED <<head, next, item, freed>> /\ Kept' = Kept
    BY DEF chainVars, Kept
<1>1. head \in ChainOf(next, head) \cup {Nil} /\ Kept \subseteq ChainOf(next, head)
    BY WalkStarts DEF BeforeFork
<1>2. TmpOK' /\ DisplaysOK'
    BY <1>0, <1>1 DEF TmpOK, DisplaysOK, WalkInv
<1>3. UsersOK'
    BY <1>0 DEF UsersOK, WalkInv
<1>4. SentOK'
    BY DEF SentOK, SentToOwnSession
<1> QED BY <1>2, <1>3, <1>4 DEF WalkInv

LEMMA WalkLimit ==
    ASSUME RecInv, ChainInv, WalkInv, CheckLimit
    PROVE  WalkInv'
<1>1. UNCHANGED chainVars /\ pc = "limit"
    BY DEF CheckLimit, idleVars, chainVars
<1>2. CASE pc' = "wait" /\ told' = 0
    BY <1>1, <1>2, WalkElsewhere DEF SentToOwnSession
<1>3. CASE pc' = "avail" /\ loc' = [loc EXCEPT !.display = Offset, !.tmp = head]
    <2>1. loc'.tmp = head /\ loc'.user = loc.user
        BY <1>3 DEF RecInv, TypeOK
    <2> QED BY <1>1, <1>3, <2>1, WalkAgain
<1> QED BY <1>2, <1>3 DEF CheckLimit, Reply, Goto

LEMMA WalkAvail ==
    ASSUME RecInv, ChainInv, WalkInv, session_get_avail_display_from_chain
    PROVE  WalkInv'
<1>0. UNCHANGED chainVars /\ UNCHANGED <<head, next, item, freed>> /\ Kept' = Kept
    BY DEF session_get_avail_display_from_chain, idleVars, chainVars, Kept
<1>1. pc = "avail" /\ loc.tmp \notin freed /\ Walking /\ TmpOK
    BY DEF session_get_avail_display_from_chain, Walking, WalkInv
<1>2. CASE TryNext
    <2>1. CASE pc' = "wait" /\ told' = 0
        BY <1>0, <2>1, WalkElsewhere DEF SentToOwnSession
    <2>2. CASE pc' = "avail" /\ loc' = [loc EXCEPT !.display = @ + 1, !.tmp = head]
        <3>1. loc'.tmp = head /\ loc'.user = loc.user
            BY <2>2 DEF RecInv, TypeOK
        <3> QED BY <1>0, <1>1, <2>2, <3>1, WalkAgain
    <2> QED BY <1>2, <2>1, <2>2 DEF TryNext, Goto, Reply
<1>3. CASE loc.tmp = Nil /\ Goto("fork", loc)
    <2>1. pc' = "fork" /\ loc' = loc
        BY <1>3 DEF Goto
    <2>2. DisplaysOK'
        BY <1>0, <1>1, <1>3, <2>1, NothingBehind DEF DisplaysOK, WalkInv
    <2>3. UsersOK'
        BY <1>0, <1>1, <2>1 DEF UsersOK, WalkInv
    <2> QED BY <2>1, <2>2, <2>3 DEF WalkInv, TmpOK, Walking, SentOK, SentToOwnSession
<1>4. CASE /\ loc.tmp # Nil /\ item[loc.tmp].display # loc.display
           /\ Goto("avail", [loc EXCEPT !.tmp = next[loc.tmp]])
    <2>1. pc' = "avail" /\ loc' = [loc EXCEPT !.tmp = next[loc.tmp]]
        BY <1>4 DEF Goto
    <2>2. loc'.tmp = next[loc.tmp] /\ loc'.user = loc.user /\ loc'.display = loc.display
        BY <2>1 DEF RecInv, TypeOK
    <2>3. /\ next[loc.tmp] \in ChainOf(next, head) \cup {Nil}
          /\ ChainOf(next, loc.tmp) = {loc.tmp} \cup ChainOf(next, next[loc.tmp])
        BY <1>1, <1>4, WalkGoesOn
    <2>4. TmpOK'
        BY <1>0, <2>2, <2>3 DEF TmpOK
    <2>5. DisplaysOK'
        BY <1>0, <1>1, <1>4, <2>1, <2>2, <2>3 DEF DisplaysOK, WalkInv
    <2>6. UsersOK'
        BY <1>0, <1>1, <2>1, <2>2 DEF UsersOK, WalkInv
    <2> QED BY <2>1, <2>4, <2>5, <2>6 DEF WalkInv, SentOK, SentToOwnSession
<1> QED BY <1>2, <1>3, <1>4 DEF session_get_avail_display_from_chain

\* The record of the new session differs from all that are kept.
LEMMA WalkFork ==
    ASSUME RecInv, WalkInv, ForkDone
    PROVE  WalkInv'
<1>1. pc = "fork" /\ pc' = "link" /\ UNCHANGED <<freed, loc>> /\ loc.data \in Proc
    BY DEF ForkDone, RecInv, DialogueOK, BeforeFork
<1>2. /\ item'[loc.data] = [user |-> loc.user, display |-> loc.display]
      /\ \A n \in Proc : n # loc.data => item'[n] = item[n]
    BY <1>1 DEF ForkDone, RecInv, TypeOK
<1>3. item'[loc.data].user = loc.user /\ item'[loc.data].display = loc.display
    BY <1>2
<1>4. \A n \in Kept' : n = loc.data \/ (n \in Kept /\ item'[n] = item[n])
    BY <1>1, <1>2 DEF Kept
<1>5. DisplaysOK'
    BY <1>1, <1>3, <1>4 DEF DisplaysOK, WalkInv
<1>6. UsersOK'
    BY <1>1, <1>3, <1>4 DEF UsersOK, WalkInv
<1> QED BY <1>1, <1>5, <1>6 DEF WalkInv, TmpOK, Walking, SentOK, SentToOwnSession

LEMMA WalkLink ==
    ASSUME RecInv, WalkInv, LinkNext \/ LinkHead \/ CountSession
    PROVE  WalkInv'
<1>1. /\ pc' \in {"head", "count", "wait"} /\ UNCHANGED <<item, freed, loc>> /\ AfterFork
      /\ pc' = "wait" => told' = loc.display
    BY DEF LinkNext, LinkHead, CountSession, Goto, ReplyKeeping, AfterFork
<1>2. Kept' = Kept
    BY <1>1 DEF Kept
<1>3. TmpOK' /\ DisplaysOK'
    BY <1>1, <1>2 DEF TmpOK, Walking, DisplaysOK, WalkInv
<1>4. UsersOK'
    BY <1>1, <1>2 DEF UsersOK, WalkInv
<1>5. SentOK'
    <2>1. loc.data \in Proc /\ item[loc.data] = [user |-> loc.user, display |-> loc.display]
        BY <1>1 DEF RecInv, DialogueOK, RecordsOK
    <2>2. item[loc.data].user = loc.user /\ item[loc.data].display = loc.display
        BY <2>1
    <2> QED BY <1>1, <2>1, <2>2 DEF SentOK, SentToOwnSession
<1> QED BY <1>3, <1>4, <1>5 DEF WalkInv

\* The handler frees an element ahead of the walk, behind it, or under it.
LEMMA WalkUnlink ==
    ASSUME RecInv, ChainInv, WalkInv, NEW n \in Proc, Unlinks(n)
    PROVE  WalkInv'
<1>1. UNCHANGED <<pc, item, loc, told>>
    BY DEF Unlinks
<1>2. /\ freed' = freed \cup {n} /\ Kept' = Kept \ {n}
      /\ ChainOf(next', head') = ChainOf(next, head) \ {n}
      /\ \A k \in Proc \cup {Nil} : ChainOf(next, k) \ {n} \subseteq ChainOf(next', k)
    BY Unlinked DEF RecInv, ChainInv
<1>3. loc.tmp \in Proc \cup {Nil}
    BY DEF RecInv, TypeOK
<1>4. TmpOK'
    BY <1>1, <1>2 DEF TmpOK, Walking, WalkInv
<1>5. DisplaysOK'
    BY <1>1, <1>2, <1>3 DEF DisplaysOK, WalkInv
<1>6. UsersOK'
    BY <1>1, <1>2, <1>3 DEF UsersOK, WalkInv
<1>7. SentOK'
    BY <1>1 DEF SentOK, SentToOwnSession, WalkInv
<1> QED BY <1>4, <1>5, <1>6, <1>7 DEF WalkInv

LEMMA WalkForkFails ==
    ASSUME RecInv, ChainInv, WalkInv, session_start_fork
    PROVE  WalkInv'
<1>1. CASE MayFail /\ UNCHANGED <<proc, item, loc, logins>> /\ ReplyKeeping(loc.display)
    <2>1. UNCHANGED chainVars /\ pc' = "wait"
        BY <1>1 DEF session_start_fork, chainVars, ReplyKeeping
    <2> QED BY <1>1, <2>1, WalkElsewhere
<1> QED BY <1>1, WalkFork DEF session_start_fork, ForkDone, Goto

LEMMA WalkFreed ==
    ASSUME WalkInv, FollowFreed
    PROVE  WalkInv'
<1>1. UNCHANGED <<chainVars, loc, told>> /\ pc' = "crashed"
    BY DEF FollowFreed, idleVars, chainVars
<1> QED BY <1>1, WalkStays

LEMMA WalkKept ==
    ASSUME RecInv, ChainInv, WalkInv, [Next]_vars
    PROVE  WalkInv'
<1>1. CASE Main
    <2>1. CASE session_reconnect_fork
        <3>1. ScriptStarts
            BY <2>1 DEF session_reconnect_fork, ScriptStarts, Reply
        <3> QED BY <3>1, WalkReconnect
    <2> QED BY <1>1, <2>1, WalkAuth, WalkByData, WalkAccess, WalkLimit, WalkAvail, WalkForkFails,
               WalkLink, WalkFreed DEF Main
<1>2. CASE ProcessStep
    <2>1. UNCHANGED <<chainVars, loc, told>> /\ (pc' = pc \/ pc' = "crashed")
        BY <1>2 DEF ProcessStep
    <2> QED BY <2>1, WalkStays
<1>3. ASSUME NEW n \in Proc, Unlinks(n)
      PROVE  WalkInv'
    BY <1>3, WalkUnlink
<1>4. CASE UNCHANGED vars
    <2>1. UNCHANGED <<chainVars, loc, told>> /\ pc' = pc
        BY <1>4 DEF vars, chainVars
    <2> QED BY <2>1, WalkStays
<1> QED BY <1>1, <1>2, <1>3, <1>4, OutsideKinds DEF Next, RecInv

-----------------------------------------------------------------------------
(* The theorems *)

LEMMA InitHolds ==
    Init => SInv
<1> SUFFICES ASSUME Init PROVE SInv
    OBVIOUS
<1>1. TypeOK /\ DialogueOK
    BY InitShape
<1>2. /\ \A n \in Proc : item[n].display = 0 /\ proc[n] = "none" /\ next[n] = Nil
      /\ pc = "wait" /\ head = Nil /\ freed = {} /\ count = 0 /\ told = 0
    BY DEF Init
<1>3. Kept = {} /\ Cardinality(Kept) = 0
    BY <1>2, FS_EmptySet DEF Kept
<1>4. ~BeforeFork /\ ~AfterFork /\ pc \notin Ended /\ ~Walking
    BY <1>2 DEF BeforeFork, AfterFork, Ended, Walking
<1>5. FreshOK /\ RecordsOK
    BY <1>2, <1>4 DEF FreshOK, RecordsOK, Live
<1>6. LinksDown
    BY <1>2, Constants DEF LinksDown, Links
<1>7. ChainOf(next, head) = {}
    BY <1>2, <1>6, Chains DEF LinksDown
<1>8. ChainOK /\ KeptOnChain
    BY <1>2, <1>3, <1>7 DEF ChainOK, KeptOnChain
<1>9. CountOK
    BY <1>2, <1>3, <1>4, Constants DEF CountOK
<1>10. TmpOK /\ DisplaysOK /\ UsersOK /\ SentOK
    BY <1>2, <1>3, <1>4 DEF TmpOK, DisplaysOK, UsersOK, SentOK, SentToOwnSession
<1> QED BY <1>1, <1>5, <1>6, <1>8, <1>9, <1>10 DEF SInv, RecInv, ChainInv, WalkInv

LEMMA StepHolds ==
    SInv /\ [Next]_vars => SInv'
<1> SUFFICES ASSUME SInv, [Next]_vars PROVE SInv'
    OBVIOUS
<1>1. RecInv /\ ChainInv /\ CountOK /\ WalkInv
    BY DEF SInv
<1>2. RecInv'
    <2>1. TypeOK' /\ DialogueOK'
        BY <1>1, ShapeKept DEF RecInv
    <2>2. FreshOK' /\ RecordsOK'
        BY <1>1, <2>1, RecordsKept
    <2> QED BY <2>1, <2>2 DEF RecInv
<1>3. ChainInv'
    BY <1>1, <1>2, ChainKept DEF RecInv
<1>4. CountOK'
    BY <1>1, <1>2, CountKept
<1>5. WalkInv'
    BY <1>1, WalkKept
<1> QED BY <1>2, <1>3, <1>4, <1>5 DEF SInv

\* The records, the chain, the count and the walks stay consistent with each other,
\* whatever the SIGCHLD handler does between two steps of session.c.
THEOREM SInvHolds ==
    Spec => []SInv
<1> QED BY InitHolds, StepHolds, PTL DEF Spec

\* Every variable of the daemon keeps its type: a walk of session.c, an element of
\* the chain and a reply are always of a login that was accepted.
THEOREM SesmanTypeOK ==
    Spec => []TypeOK
<1>1. SInv => TypeOK
    BY DEF SInv, RecInv
<1> QED BY <1>1, SInvHolds, PTL

\* g_session_count is exact, for any number of sessions that end while others are
\* being linked (session_start_fork against session_kill in the SIGCHLD handler).
THEOREM CountIsExactHolds ==
    Spec => []CountIsExact
<1>1. SInv => CountIsExact
    BY CountMeans DEF SInv, RecInv
<1> QED BY <1>1, SInvHolds, PTL

LEMMA LiveAreKept ==
    ASSUME SInv
    PROVE  Live \subseteq Kept
<1>1. \A n \in Live : n \in Proc /\ item[n].display # 0 /\ n \notin freed
    BY DEF SInv, RecInv, RecordsOK, Live
<1> QED BY <1>1 DEF Kept

\* The limit that session_start_fork checks before it looks for a display still
\* holds when it forks.
THEOREM LiveSessionsBoundedHolds ==
    Spec => []LiveSessionsBounded
<1>1. SInv => LiveSessionsBounded
    <2> SUFFICES ASSUME SInv PROVE Cardinality(Live) <= MaxSessions
        BY DEF LiveSessionsBounded
    <2>1. Cardinality(Live) <= Cardinality(Kept) /\ Cardinality(Live) \in Nat
        BY LiveAreKept, KeptFinite, FS_Subset, FS_CardinalityType
    <2>2. Cardinality(Kept) <= MaxSessions
        BY DEF SInv, CountOK
    <2> QED BY <2>1, <2>2, KeptFinite, Constants
<1> QED BY <1>1, SInvHolds, PTL

\* The display found by session_get_avail_display_from_chain is still free when
\* session_start_fork forks, although the chain changed under the search.
THEOREM LiveDisplaysDistinctHolds ==
    Spec => []LiveDisplaysDistinct
<1>1. SInv => LiveDisplaysDistinct
    BY LiveAreKept DEF SInv, WalkInv, DisplaysOK, LiveDisplaysDistinct
<1> QED BY <1>1, SInvHolds, PTL

\* session_get_bydata meets the session of the user if there is one, so a version 0
\* login never starts a second one.  Version 1 logins do (session_get_byuser).
THEOREM OneSessionPerUserHolds ==
    "v1" \notin Kinds => (Spec => []OneSessionPerUser)
<1> SUFFICES ASSUME "v1" \notin Kinds PROVE Spec => []OneSessionPerUser
    OBVIOUS
<1>1. SInv => OneSessionPerUser
    BY LiveAreKept DEF SInv, WalkInv, UsersOK, OneSessionPerUser
<1> QED BY <1>1, SInvHolds, PTL

\* The display in the reply is one of the user's own, as long as fork() succeeds:
\* scp_v0_process answers with a display also when session_start_fork could not fork.
THEOREM SentToOwnSessionHolds ==
    ~MayFail => (Spec => []SentToOwnSession)
<1> SUFFICES ASSUME ~MayFail PROVE Spec => []SentToOwnSession
    OBVIOUS
<1>1. SInv => SentToOwnSession
    BY DEF SInv, WalkInv, SentOK
<1> QED BY <1>1, SInvHolds, PTL
=============================================================================

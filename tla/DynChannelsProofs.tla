------------------------- MODULE DynChannelsProofs -------------------------
(***************************************************************************)
(* Proofs about dynamic virtual channels, for every set of applications    *)
(* and every size of the tables, with a client that neither refuses a      *)
(* channel nor closes one unasked, and whether or not the RDP connection   *)
(* is lost and made again.                                                 *)
(***************************************************************************)
EXTENDS DynChannels, TLAPS, FiniteSetTheorems, SequenceTheorems, WellFoundedInduction

-----------------------------------------------------------------------------
(* The inductive invariant.  It is about the application cur[i] that was the  *)
(* last to open an id i of chansrv: neither chansrv nor xrdp remembers it     *)
(* once the application has left, but all that is still on its way is its.    *)

MsgTypes == {"open", "opened", "refused", "close", "closed", "first", "data"}
Message == [type : MsgTypes, id : Ids, app : Apps]

\* The messages of a queue; whether one of them is about id i.
Msgs(q) == {q[k] : k \in 1 .. Len(q)}
Has(q, i) == \E m \in Msgs(q) : m.id = i

\* What a queue says of an id starts with its message of type fst and ends with
\* the one of type lst, and of one that is not open yet nothing but a close comes.
InOrder(q, fst, lst) ==
    \A k, l \in 1 .. Len(q) :
        k < l /\ q[k].id = q[l].id /\ q[k].id # 0 =>
            /\ q[k].type # lst /\ q[l].type # fst
            /\ q[k].type = "open" => q[l].type = "close"

\* xrdp has the id j in use; no id of xrdp stands for chansrv's i.
Busy(j) == xr_status[j] # "CLOSED"
Unlinked(i) == \A j \in Ids : Busy(j) => xr2cr[j] # i

\* The close of xrdp's id j is at the client or on its way back.
Closing(j) == Carries(to_cl, "close", j) \/ Carries(from_cl, "closed", j)

\* Where the conversation about an id i of chansrv has got to: the open is on its
\* way to xrdp, ...
Opening(i) ==
    /\ Carries(to_xr, "open", i) /\ Unlinked(i) /\ ~Has(to_cs, i)
    /\ status[i] \in {"OPEN_SENT", "CLOSE_SENT"}
    /\ status[i] = "CLOSE_SENT" => Carries(to_xr, "close", i)

\* ... xrdp has it under an id of its own, ...
Linked(i) ==
    /\ Busy(cs2xr[i]) /\ xr2cr[cs2xr[i]] = i
    /\ ~Carries(to_xr, "open", i) /\ ~Carries(to_cs, "closed", i)
    /\ status[i] = "CLOSE_SENT" => Carries(to_xr, "close", i) \/ Closing(cs2xr[i])

\* ... xrdp has closed it and the answer is on its way, ...
Done(i) ==
    /\ Carries(to_cs, "closed", i) /\ Unlinked(i) /\ ~Has(to_xr, i)
    /\ status[i] = "CLOSE_SENT"

\* ... or xrdp knows nothing of it: it has no drdynvc channel, or the session
\* process that knew is gone.
Stale(i) ==
    /\ cs2xr[i] = 0 /\ Unlinked(i) /\ (detached \/ ~dvc)
    /\ ~Carries(to_xr, "open", i) /\ ~Carries(to_cs, "closed", i)

\* An id that is closed is mentioned nowhere, so that it may be taken again.
StageOK ==
    \A i \in Ids : /\ status[i] = "CLOSED" => ~Has(to_xr, i) /\ ~Has(to_cs, i) /\ Unlinked(i)
                   /\ status[i] # "CLOSED" /\ i # 0 =>
                         Opening(i) \/ Linked(i) \/ Done(i) \/ Stale(i)

\* Types, with the queues.
DynTypeOK ==
    /\ TypeOK
    /\ to_xr \in Seq(Message) /\ to_cs \in Seq(Message)
    /\ to_cl \in Seq(Message) /\ from_cl \in Seq(Message)

\* Applications and chansrv's table.
AppsOK(cur) ==
    /\ cur \in [Ids -> Apps \cup {None}]
    /\ \A a \in Apps : /\ app[a] = "idle" => chan_id[a] = 0
                       /\ app[a] \in {"asking", "open", "leaked"} => api_trans[chan_id[a]] = a
    /\ \A i \in Ids : api_trans[i] # None =>
          /\ i # 0 /\ cur[i] = api_trans[i] /\ chan_id[cur[i]] = i
          /\ \/ app[cur[i]] = "asking" /\ status[i] = "OPEN_SENT"
             \/ app[cur[i]] \in {"open", "leaked"} /\ status[i] = "OPEN"
    /\ ~detached => \A i \in Ids : status[i] \in {"OPEN_SENT", "OPEN"} => api_trans[i] # None

\* Each queue speaks of an id in order and in the name of its last application;
\* id 0 is only ever closed.
ToXrOK(cur) ==
    /\ InOrder(to_xr, "open", "close")
    /\ \A m \in Msgs(to_xr) :
          /\ m.type \in {"open", "first", "data", "close"}
          /\ IF m.id = 0 THEN m.type = "close" ELSE m.app = cur[m.id]
          /\ m.type = "close" => status[m.id] = "CLOSE_SENT"

ToCsOK(cur) ==
    /\ InOrder(to_cs, "opened", "closed")
    /\ \A m \in Msgs(to_cs) : /\ m.type \in {"opened", "data", "closed"}
                              /\ m.id # 0 /\ m.app = cur[m.id]

ToClOK(cur) ==
    /\ InOrder(to_cl, "open", "close")
    /\ \A m \in Msgs(to_cl) : /\ m.type \in {"open", "first", "data", "close"}
                              /\ m.app = cur[xr2cr[m.id]]

FromClOK(cur) ==
    /\ InOrder(from_cl, "opened", "closed")
    /\ \A m \in Msgs(from_cl) : /\ m.type \in {"opened", "data", "closed"}
                                /\ m.app = cur[xr2cr[m.id]]

\* The ids of xrdp: the maps are each other's inverse on those in use, ...
MapsOK ==
    /\ cs2xr[0] = 0
    /\ \A j \in Ids : Busy(j) => procs[j] /\ xr2cr[j] # 0 /\ cs2xr[xr2cr[j]] = j

\* ... the client has what xrdp has in use, ...
ClientOK(cur) ==
    \A j \in Ids :
        /\ ~Busy(j) => cl[j] = None /\ ~Has(to_cl, j) /\ ~Has(from_cl, j)
        /\ Busy(j) => \/ Carries(to_cl, "open", j) \/ cl[j] # None
                      \/ Carries(from_cl, "closed", j)
        /\ cl[j] # None => cl[j] = cur[xr2cr[j]]
        /\ Carries(to_cl, "open", j) =>
              /\ cl[j] = None /\ ~Has(from_cl, j) /\ ~Has(to_cs, xr2cr[j])
              /\ xr_status[j] # "OPEN"
        /\ Carries(from_cl, "opened", j) => ~Has(to_cs, xr2cr[j])
        /\ Carries(from_cl, "closed", j) => cl[j] = None /\ ~Has(to_cl, j)

\* ... and the close of an id is the last thing chansrv sends about it.
ClosingOK ==
    \A j \in Ids :
        /\ xr_status[j] = "CLOSE_SENT" => Closing(j)
        /\ Closing(j) => status[xr2cr[j]] = "CLOSE_SENT" /\ ~Has(to_xr, xr2cr[j])

\* What chansrv or its application may take for an open channel is one.
Established(i) ==
    \/ status[i] = "OPEN"
    \/ status[i] = "OPEN_SENT" /\ Carries(to_cs, "opened", i)
    \/ Carries(to_xr, "first", i) \/ Carries(to_xr, "data", i)

OpenOK(cur) ==
    ~detached => \A i \in Ids : Established(i) =>
        xr_status[cs2xr[i]] = "OPEN" /\ xr2cr[cs2xr[i]] = i /\ cl[cs2xr[i]] = cur[i]

\* Without a session process, or without its drdynvc channel, xrdp has no ids.
ConOK ==
    /\ con # "up" => detached /\ to_xr = <<>> /\ to_cl = <<>> /\ from_cl = <<>>
    /\ con = "down" => to_cs = <<>>
    /\ con # "up" \/ ~dvc => \A i \in Ids : ~Busy(i) /\ cs2xr[i] = 0

Inv(cur) == /\ DynTypeOK /\ AppsOK(cur) /\ ToXrOK(cur) /\ ToCsOK(cur) /\ ToClOK(cur)
            /\ FromClOK(cur) /\ StageOK /\ MapsOK /\ ClientOK(cur) /\ ClosingOK
            /\ OpenOK(cur) /\ ConOK /\ OwnChannelOnly

DynInv == \E cur \in [Ids -> Apps \cup {None}] : Inv(cur)

-----------------------------------------------------------------------------
(* The operators the actions are built from. *)

\* The least of a set of numbers, as Min takes it.
LEMMA MinIsLeast ==
    ASSUME NEW S \in SUBSET Nat, S # {}
    PROVE  Min(S) \in S
<1> DEFINE R == {ss \in Nat \X Nat : ss[1] < ss[2]}
<1>1. IsWellFoundedOn(R, Nat)
    BY NatLessThanWellFounded DEF OpToRel
<1>2. PICK x \in S : \A y \in S : <<y, x>> \notin R
    <2> HIDE DEF R
    <2> QED BY <1>1, WFMin
<1>3. ASSUME NEW y \in S PROVE x <= y
    <2>1. <<y, x>> \in Nat \X Nat /\ <<y, x>>[1] = y /\ <<y, x>>[2] = x
        OBVIOUS
    <2>2. ~(y < x)
        BY <1>2, <2>1
    <2> QED BY <2>2
<1> QED BY <1>3 DEF Min

LEMMA ZeroIsAnId == 0 \in Ids
    BY DynAssumption DEF Ids

LEMMA FreeId ==
    ASSUME NEW table, Free(table) # {}
    PROVE  Min(Free(table)) \in Ids \ {0} /\ table[Min(Free(table))] = "CLOSED"
<1>1. Free(table) \in SUBSET Nat
    BY DynAssumption DEF Free, Ids
<1>2. Min(Free(table)) \in Free(table)
    BY <1>1, MinIsLeast
<1> QED BY <1>2 DEF Free

\* The queue r says what q says and what m says.
Adds(q, r, m) ==
    /\ Msgs(r) = Msgs(q) \cup {m}
    /\ \A i : Has(r, i) <=> Has(q, i) \/ m.id = i
    /\ \A t, i : Carries(r, t, i) <=> Carries(q, t, i) \/ (m.type = t /\ m.id = i)

LEMMA CarriesHas ==
    /\ \A q, t, i : Carries(q, t, i) <=> \E m \in Msgs(q) : m.type = t /\ m.id = i
    /\ \A q, t, i : Carries(q, t, i) => Has(q, i)
    BY DEF Carries, Msgs, Has

LEMMA AddsFromMsgs ==
    ASSUME NEW q, NEW r, NEW m, Msgs(r) = Msgs(q) \cup {m}
    PROVE  Adds(q, r, m)
<1>1. \A i : Has(r, i) <=> Has(q, i) \/ m.id = i
    BY DEF Has
<1>2. \A t, i : Carries(r, t, i) <=> Carries(q, t, i) \/ (m.type = t /\ m.id = i)
    BY CarriesHas
<1> QED BY <1>1, <1>2 DEF Adds

LEMMA AppendAdds ==
    ASSUME NEW q \in Seq(Message), NEW m \in Message
    PROVE  Append(q, m) \in Seq(Message) /\ Adds(q, Append(q, m), m)
<1> DEFINE n == Len(q)
           r == Append(q, m)
<1>1. /\ r \in Seq(Message) /\ Len(r) = n + 1 /\ n \in Nat
      /\ \A k \in 1 .. n : r[k] = q[k]
      /\ r[n + 1] = m
    BY AppendProperties
<1> HIDE DEF r, n
<1>2. Msgs(r) = Msgs(q) \cup {m}
    <2>1. 1 .. (n + 1) = (1 .. n) \cup {n + 1}
        BY <1>1
    <2> QED BY <1>1, <2>1 DEF Msgs, n
<1> QED BY <1>1, <1>2, AddsFromMsgs DEF r

LEMMA TailAdds ==
    ASSUME NEW q \in Seq(Message), q # <<>>
    PROVE  /\ Tail(q) \in Seq(Message) /\ Head(q) \in Message
           /\ Adds(Tail(q), q, Head(q)) /\ Head(q) \in Msgs(q)
<1> DEFINE n == Len(q)
           r == Tail(q)
<1>1. /\ r \in Seq(Message) /\ Len(r) = n - 1 /\ n \in Nat \ {0}
      /\ \A k \in 1 .. n - 1 : r[k] = q[k + 1]
      /\ Head(q) = q[1] /\ Head(q) \in Message
    BY HeadTailProperties
<1> HIDE DEF r, n
<1>2. Msgs(q) = Msgs(r) \cup {Head(q)}
    <2>1. ASSUME NEW k \in 1 .. n PROVE q[k] \in Msgs(r) \cup {Head(q)}
        <3>1. CASE k = 1
            BY <1>1, <3>1
        <3>2. CASE k # 1
            <4>1. k - 1 \in 1 .. n - 1 /\ (k - 1) + 1 = k
                BY <1>1, <3>2
            <4>2. r[k - 1] = q[k]
                BY <1>1, <4>1
            <4> QED BY <1>1, <4>1, <4>2 DEF Msgs
        <3> QED BY <3>1, <3>2
    <2>2. ASSUME NEW k \in 1 .. n - 1 PROVE r[k] \in Msgs(q)
        <3>1. k + 1 \in 1 .. n
            BY <1>1
        <3> QED BY <1>1, <3>1 DEF Msgs, n
    <2>3. 1 \in 1 .. n
        BY <1>1
    <2> QED BY <1>1, <2>1, <2>2, <2>3 DEF Msgs, n
<1> QED BY <1>1, <1>2, AddsFromMsgs DEF r

LEMMA MsgIsMessage ==
    ASSUME NEW t \in MsgTypes, NEW i \in Ids, NEW a \in Apps
    PROVE  /\ Msg(t, i, a) \in Message
           /\ Msg(t, i, a).type = t /\ Msg(t, i, a).id = i /\ Msg(t, i, a).app = a
    BY DEF Msg, Message

LEMMA InQueue ==
    ASSUME NEW q \in Seq(Message), NEW m \in Msgs(q)
    PROVE  m \in Message /\ m.id \in Ids /\ m.app \in Apps /\ Has(q, m.id)
<1>1. PICK k \in 1 .. Len(q) : m = q[k]
    BY DEF Msgs
<1>2. m \in Message
    BY <1>1
<1>3. m.id \in Ids /\ m.app \in Apps
    BY <1>2 DEF Message
<1> QED BY <1>2, <1>3 DEF Has

\* A message may follow if its id is not closed yet, if it does not start an id that
\* was mentioned, and if it is a close where the open is still in the queue.
LEMMA AppendInOrder ==
    ASSUME NEW q \in Seq(Message), NEW m \in Message, NEW fst, NEW lst,
           InOrder(q, fst, lst),
           m.id = 0 \/ /\ ~Carries(q, lst, m.id)
                       /\ m.type = fst => ~Has(q, m.id)
                       /\ Carries(q, "open", m.id) => m.type = "close"
    PROVE  InOrder(Append(q, m), fst, lst)
<1> DEFINE n == Len(q)
           r == Append(q, m)
<1>1. /\ r \in Seq(Message) /\ Len(r) = n + 1 /\ n \in Nat
      /\ \A k \in 1 .. n : r[k] = q[k]
      /\ r[n + 1] = m
    BY AppendProperties
<1> HIDE DEF r, n
<1> SUFFICES ASSUME NEW k \in 1 .. n + 1, NEW l \in 1 .. n + 1,
                    k < l, r[k].id = r[l].id, r[k].id # 0
             PROVE  /\ r[k].type # lst /\ r[l].type # fst
                    /\ r[k].type = "open" => r[l].type = "close"
    BY <1>1 DEF InOrder, r
<1>2. k \in 1 .. n /\ r[k] = q[k]
    BY <1>1
<1>3. CASE l \in 1 .. n
    BY <1>1, <1>2, <1>3 DEF InOrder, n
<1>4. CASE l = n + 1
    <2>1. r[l] = m /\ m.id # 0 /\ q[k].id = m.id
        BY <1>1, <1>2, <1>4
    <2>2. q[k] \in Msgs(q)
        BY <1>2 DEF Msgs, n
    <2>3. Has(q, m.id) /\ (\A t : q[k].type = t => Carries(q, t, m.id))
        BY <2>1, <2>2, CarriesHas DEF Has
    <2> QED BY <1>2, <2>1, <2>3
<1> QED BY <1>1, <1>3, <1>4

LEMMA TailInOrder ==
    ASSUME NEW q \in Seq(Message), q # <<>>, NEW fst, NEW lst, InOrder(q, fst, lst)
    PROVE  /\ InOrder(Tail(q), fst, lst)
           /\ Head(q).id # 0 =>
                 /\ Head(q).type = lst => ~Has(Tail(q), Head(q).id)
                 /\ ~Carries(Tail(q), fst, Head(q).id)
                 /\ Head(q).type = "open" =>
                       \A t : t # "close" => ~Carries(Tail(q), t, Head(q).id)
<1> DEFINE n == Len(q)
           r == Tail(q)
<1>1. /\ r \in Seq(Message) /\ Len(r) = n - 1 /\ n \in Nat \ {0}
      /\ \A k \in 1 .. n - 1 : r[k] = q[k + 1]
      /\ Head(q) = q[1] /\ 1 \in 1 .. n
    BY HeadTailProperties
<1> HIDE DEF r, n
<1>2. /\ \A k \in 1 .. n - 1 : k + 1 \in 1 .. n /\ 1 < k + 1
      /\ \A k, l \in 1 .. n - 1 : k < l => k + 1 < l + 1
    BY <1>1
<1>3. InOrder(r, fst, lst)
    BY <1>1, <1>2, SMTT(40) DEF InOrder, n
<1>4. ASSUME Head(q).id # 0, NEW k \in 1 .. n - 1, r[k].id = Head(q).id
      PROVE  /\ Head(q).type # lst /\ r[k].type # fst
             /\ Head(q).type = "open" => r[k].type = "close"
    BY <1>1, <1>2, <1>4 DEF InOrder, n
<1>5. ASSUME Head(q).id # 0
      PROVE  /\ Head(q).type = lst => ~Has(r, Head(q).id)
             /\ ~Carries(r, fst, Head(q).id)
             /\ Head(q).type = "open" => \A t : t # "close" => ~Carries(r, t, Head(q).id)
    BY <1>1, <1>4, <1>5 DEF Has, Msgs, Carries
<1> QED BY <1>3, <1>5 DEF r

-----------------------------------------------------------------------------
(* What a step knows of the message it takes, and of the queue it leaves. *)

LEMMA TakeXr ==
    ASSUME NEW cur, Inv(cur), to_xr # <<>>, to_xr' = Tail(to_xr)
    PROVE  LET m == Head(to_xr) IN
           /\ m \in Message /\ m \in Msgs(to_xr)
           /\ to_xr' \in Seq(Message) /\ Adds(to_xr', to_xr, m)
           /\ InOrder(to_xr', "open", "close")
           /\ m.id # 0 => /\ m.type = "close" => ~Has(to_xr', m.id)
                          /\ ~Carries(to_xr', "open", m.id)
                          /\ m.type = "open" =>
                                \A t : t # "close" => ~Carries(to_xr', t, m.id)
    BY TailAdds, TailInOrder DEF Inv, DynTypeOK, ToXrOK

LEMMA TakeCs ==
    ASSUME NEW cur, Inv(cur), to_cs # <<>>, to_cs' = Tail(to_cs)
    PROVE  LET m == Head(to_cs) IN
           /\ m \in Message /\ m \in Msgs(to_cs) /\ m.id # 0 /\ m.app = cur[m.id]
           /\ to_cs' \in Seq(Message) /\ Adds(to_cs', to_cs, m)
           /\ InOrder(to_cs', "opened", "closed")
           /\ m.type = "closed" => ~Has(to_cs', m.id)
           /\ ~Carries(to_cs', "opened", m.id)
<1>1. Head(to_cs) \in Msgs(to_cs) /\ Head(to_cs).id # 0
    BY TailAdds DEF Inv, DynTypeOK, ToCsOK
<1> QED BY <1>1, TailAdds, TailInOrder DEF Inv, DynTypeOK, ToCsOK

\* An id of xrdp that is mentioned is in use, so it is not 0.
LEMMA Mentioned ==
    ASSUME NEW cur, Inv(cur), NEW j \in Ids, Has(to_cl, j) \/ Has(from_cl, j)
    PROVE  Busy(j) /\ j # 0
    BY DEF Inv, ClientOK, DynTypeOK, TypeOK, Busy

LEMMA TakeCl ==
    ASSUME NEW cur, Inv(cur), to_cl # <<>>, to_cl' = Tail(to_cl)
    PROVE  LET m == Head(to_cl) IN
           /\ m \in Message /\ m \in Msgs(to_cl) /\ m.id # 0 /\ m.app = cur[xr2cr[m.id]]
           /\ Busy(m.id)
           /\ to_cl' \in Seq(Message) /\ Adds(to_cl', to_cl, m)
           /\ InOrder(to_cl', "open", "close")
           /\ m.type = "close" => ~Has(to_cl', m.id)
           /\ ~Carries(to_cl', "open", m.id)
<1> DEFINE m == Head(to_cl)
<1>1. m \in Msgs(to_cl) /\ m \in Message
    BY TailAdds DEF Inv, DynTypeOK
<1>2. Has(to_cl, m.id) /\ m.id \in Ids
    BY <1>1 DEF Has, Message
<1>3. Busy(m.id) /\ m.id # 0
    BY <1>2, Mentioned
<1> QED BY <1>1, <1>3, TailAdds, TailInOrder DEF Inv, DynTypeOK, ToClOK

LEMMA TakeFrom ==
    ASSUME NEW cur, Inv(cur), from_cl # <<>>, from_cl' = Tail(from_cl)
    PROVE  LET m == Head(from_cl) IN
           /\ m \in Message /\ m \in Msgs(from_cl) /\ m.id # 0 /\ m.app = cur[xr2cr[m.id]]
           /\ Busy(m.id)
           /\ from_cl' \in Seq(Message) /\ Adds(from_cl', from_cl, m)
           /\ InOrder(from_cl', "opened", "closed")
           /\ m.type = "closed" => ~Has(from_cl', m.id)
           /\ ~Carries(from_cl', "opened", m.id)
<1> DEFINE m == Head(from_cl)
<1>1. m \in Msgs(from_cl) /\ m \in Message
    BY TailAdds DEF Inv, DynTypeOK
<1>2. Has(from_cl, m.id) /\ m.id \in Ids
    BY <1>1 DEF Has, Message
<1>3. Busy(m.id) /\ m.id # 0
    BY <1>2, Mentioned
<1> QED BY <1>1, <1>3, TailAdds, TailInOrder DEF Inv, DynTypeOK, FromClOK

\* An id of xrdp in use stands for one id of chansrv, and for no other.
LEMMA BusyLinked ==
    ASSUME NEW cur, Inv(cur), NEW j \in Ids, Busy(j)
    PROVE  /\ xr2cr[j] \in Ids \ {0} /\ cs2xr[xr2cr[j]] = j /\ j # 0 /\ procs[j]
           /\ Linked(xr2cr[j]) /\ status[xr2cr[j]] # "CLOSED"
           /\ \A k \in Ids : Busy(k) /\ xr2cr[k] = xr2cr[j] => k = j
<1>1. /\ xr2cr[j] \in Ids \ {0} /\ cs2xr[xr2cr[j]] = j /\ j # 0 /\ procs[j]
      /\ \A k \in Ids : Busy(k) => cs2xr[xr2cr[k]] = k
    BY DEF Inv, MapsOK, DynTypeOK, TypeOK, Busy
<1>2. ~Unlinked(xr2cr[j])
    BY DEF Unlinked
<1>3. Linked(xr2cr[j]) /\ status[xr2cr[j]] # "CLOSED"
    BY <1>1, <1>2 DEF Inv, StageOK, Opening, Done, Stale
<1> QED BY <1>1, <1>3

\* What takes effect on an application's channel is its own.
LEMMA LandsOwn ==
    ASSUME OwnChannelOnly, landed \subseteq Apps \X Apps,
           NEW a \in Apps, NEW b \in Apps \cup {None}, b = None \/ b = a,
           Lands(a, b)
    PROVE  OwnChannelOnly' /\ landed' \subseteq Apps \X Apps
    BY DEF OwnChannelOnly, Lands

-----------------------------------------------------------------------------
(* chansrv reads what xrdp sent. *)

LEMMA CsDataStep ==
    ASSUME NEW cur, Inv(cur), CsData
    PROVE  Inv(cur)'
<1> DEFINE m == Head(to_cs)
<1> USE DEF Inv
<1>1. /\ to_cs # <<>> /\ m.type = "data" /\ to_cs' = Tail(to_cs)
      /\ Lands(m.app, api_trans[m.id])
      /\ UNCHANGED <<appVars, csVars, xrVars, cl, to_xr, to_cl, from_cl, linkVars,
                     sent, got, replied>>
    BY DEF CsData
<1>2. /\ m \in Message /\ m \in Msgs(to_cs) /\ m.id # 0 /\ m.app = cur[m.id]
      /\ to_cs' \in Seq(Message) /\ Adds(to_cs', to_cs, m)
      /\ InOrder(to_cs', "opened", "closed")
    BY <1>1, TakeCs
<1> HIDE DEF m
<1> USE DEF appVars, csVars, xrVars, linkVars
<1>3. m.id \in Ids /\ m.app \in Apps
    BY <1>2 DEF Message
<1>4. OwnChannelOnly' /\ landed' \subseteq Apps \X Apps
    <2>1. api_trans[m.id] \in Apps \cup {None}
        BY <1>3 DEF DynTypeOK, TypeOK
    <2>2. api_trans[m.id] = None \/ api_trans[m.id] = m.app
        BY <1>2, <1>3 DEF AppsOK
    <2> QED BY <1>1, <1>3, <2>1, <2>2, LandsOwn DEF DynTypeOK, TypeOK
<1>5. DynTypeOK'
    BY <1>1, <1>2, <1>4 DEF DynTypeOK, TypeOK
<1>6. AppsOK(cur)' /\ ToXrOK(cur)' /\ ToClOK(cur)' /\ FromClOK(cur)' /\ MapsOK'
    BY <1>1 DEF AppsOK, ToXrOK, ToClOK, FromClOK, MapsOK, Busy
<1>7. ToCsOK(cur)'
    BY <1>2 DEF ToCsOK, Adds
<1>8. /\ \A i : Has(to_cs', i) => Has(to_cs, i)
      /\ \A t, i : Carries(to_cs', t, i) => Carries(to_cs, t, i)
      /\ \A i : Carries(to_cs, "closed", i) => Carries(to_cs', "closed", i)
    BY <1>1, <1>2 DEF Adds
<1>9. StageOK'
    BY <1>1, <1>8 DEF StageOK, Opening, Linked, Done, Stale, Unlinked, Busy, Closing
<1>10. ClientOK(cur)' /\ ClosingOK'
    BY <1>1, <1>8 DEF ClientOK, ClosingOK, Closing, Busy
<1>11. OpenOK(cur)'
    BY <1>1, <1>8 DEF OpenOK, Established
<1>12. ConOK'
    BY <1>1, <1>2 DEF ConOK, Busy
<1> QED BY <1>4, <1>5, <1>6, <1>7, <1>9, <1>10, <1>11, <1>12

LEMMA CsCloseResponseStep ==
    ASSUME NEW cur, Inv(cur), CsCloseResponse
    PROVE  Inv(cur)'
<1> DEFINE m == Head(to_cs)
           i == m.id
<1> USE DEF Inv
<1>1. /\ to_cs # <<>> /\ m.type = "closed" /\ to_cs' = Tail(to_cs)
      /\ status' = IF status[i] = "CLOSE_SENT" THEN [status EXCEPT ![i] = "CLOSED"] ELSE status
      /\ UNCHANGED <<appVars, api_trans, xrVars, cl, to_xr, to_cl, from_cl, linkVars,
                     talliedVars>>
    BY DEF CsCloseResponse
<1>2. /\ m \in Message /\ m \in Msgs(to_cs) /\ m.id # 0 /\ m.app = cur[m.id]
      /\ to_cs' \in Seq(Message) /\ Adds(to_cs', to_cs, m)
      /\ InOrder(to_cs', "opened", "closed") /\ ~Has(to_cs', m.id)
    BY <1>1, TakeCs
<1>3. i \in Ids /\ i # 0 /\ Carries(to_cs, "closed", i)
    BY <1>1, <1>2, CarriesHas DEF Message
<1> HIDE DEF m, i
<1> USE DEF appVars, xrVars, linkVars, talliedVars
<1>4. Done(i)
    BY <1>3, CarriesHas DEF StageOK, Opening, Linked, Stale
<1>5. /\ status' = [status EXCEPT ![i] = "CLOSED"] /\ status[i] = "CLOSE_SENT"
      /\ Unlinked(i) /\ ~Has(to_xr, i) /\ ~Has(to_cs', i)
    BY <1>1, <1>2, <1>4 DEF Done, i
<1>6. /\ status \in [Ids -> Status] /\ status'[i] = "CLOSED"
      /\ \A k \in Ids : k # i => status'[k] = status[k]
    BY <1>3, <1>5 DEF DynTypeOK, TypeOK
<1>7. /\ \A k : Has(to_cs', k) => Has(to_cs, k)
      /\ \A t, k : Carries(to_cs', t, k) => Carries(to_cs, t, k)
      /\ \A t, k : k # i /\ Carries(to_cs, t, k) => Carries(to_cs', t, k)
    BY <1>2 DEF Adds, i
<1>8. DynTypeOK'
    BY <1>1, <1>2, <1>3, <1>5, SMTT(40) DEF DynTypeOK, TypeOK, Status
<1>9. AppsOK(cur)'
    BY <1>1, <1>5, <1>6 DEF AppsOK
<1>10. ToXrOK(cur)'
    BY <1>1, <1>5, <1>6 DEF ToXrOK, Has, DynTypeOK, TypeOK
<1>11. ToCsOK(cur)'
    BY <1>2 DEF ToCsOK, Adds
<1>12. ToClOK(cur)' /\ FromClOK(cur)' /\ MapsOK' /\ OwnChannelOnly'
    BY <1>1 DEF ToClOK, FromClOK, MapsOK, Busy, OwnChannelOnly
<1>13. StageOK'
    <2> SUFFICES ASSUME NEW k \in Ids
                 PROVE  /\ status'[k] = "CLOSED" =>
                              ~Has(to_xr', k) /\ ~Has(to_cs', k) /\ Unlinked(k)'
                        /\ status'[k] # "CLOSED" /\ k # 0 =>
                              Opening(k)' \/ Linked(k)' \/ Done(k)' \/ Stale(k)'
        BY DEF StageOK
    <2>1. Unlinked(k)' <=> Unlinked(k)
        BY <1>1 DEF Unlinked, Busy
    <2>2. CASE k = i
        BY <1>1, <1>5, <1>6, <2>1, <2>2
    <2>3. CASE k # i
        BY <1>1, <1>6, <1>7, <2>1, <2>3
           DEF StageOK, Opening, Linked, Done, Stale, Busy, Closing
    <2> QED BY <2>2, <2>3
<1>14. ClientOK(cur)'
    BY <1>1, <1>7 DEF ClientOK, Busy
<1>15. ClosingOK'
    <2> SUFFICES ASSUME NEW j \in Ids
                 PROVE  /\ xr_status[j] = "CLOSE_SENT" => Closing(j)
                        /\ Closing(j) => /\ status'[xr2cr[j]] = "CLOSE_SENT"
                                         /\ ~Has(to_xr, xr2cr[j])
        BY <1>1 DEF ClosingOK, Closing
    <2>1. ASSUME Closing(j) PROVE xr2cr[j] # i /\ xr2cr[j] \in Ids
        <3>1. Busy(j)
            BY <2>1, CarriesHas, Mentioned DEF Closing
        <3> QED BY <1>5, <3>1 DEF Unlinked, DynTypeOK, TypeOK
    <2> QED BY <1>6, <2>1 DEF ClosingOK
<1>16. OpenOK(cur)'
    <2> SUFFICES ASSUME ~detached, NEW k \in Ids, Established(k)'
                 PROVE  Established(k)
        BY <1>1 DEF OpenOK
    <2> QED BY <1>1, <1>6, <1>7 DEF Established
<1>17. ConOK'
    BY <1>1, <1>2 DEF ConOK, Busy
<1> QED BY <1>8, <1>9, <1>10, <1>11, <1>12, <1>13, <1>14, <1>15, <1>16, <1>17

LEMMA CsOpenResponseStep ==
    ASSUME NEW cur, Inv(cur), CsOpenResponse
    PROVE  Inv(cur)'
<1> DEFINE m == Head(to_cs)
           i == m.id
           a == api_trans[i]
<1> USE DEF Inv
<1>1. /\ to_cs # <<>> /\ m.type \in {"opened", "refused"} /\ to_cs' = Tail(to_cs)
      /\ IF status[i] # "OPEN_SENT"
         THEN UNCHANGED <<status, app, landed>>
         ELSE /\ status' = [status EXCEPT ![i] = IF m.type = "opened" THEN "OPEN" ELSE "CLOSED"]
              /\ IF a = None THEN UNCHANGED app
                 ELSE \E r \in Answered(m.type) : app' = [app EXCEPT ![a] = r]
              /\ Lands(m.app, a)
      /\ UNCHANGED <<chan_id, api_trans, xrVars, cl, to_xr, to_cl, from_cl, linkVars,
                     sent, got, replied>>
    BY DEF CsOpenResponse
<1>2. /\ m \in Message /\ m \in Msgs(to_cs) /\ m.id # 0 /\ m.app = cur[m.id]
      /\ to_cs' \in Seq(Message) /\ Adds(to_cs', to_cs, m)
      /\ InOrder(to_cs', "opened", "closed")
    BY <1>1, TakeCs
<1>3. m.type = "opened" /\ i \in Ids /\ i # 0 /\ m.app \in Apps /\ Carries(to_cs, "opened", i)
    BY <1>1, <1>2, CarriesHas DEF Message, ToCsOK
<1>4. a \in Apps \cup {None} /\ (a = None \/ (a = cur[i] /\ chan_id[a] = i))
    BY <1>3 DEF AppsOK, DynTypeOK, TypeOK
<1>5. m.app = cur[i]
    BY <1>2
<1> HIDE DEF m, i, a
<1> USE DEF xrVars, linkVars
<1>6. /\ \A k : Has(to_cs', k) => Has(to_cs, k)
      /\ \A t, k : Carries(to_cs', t, k) => Carries(to_cs, t, k)
      /\ \A k : Carries(to_cs, "closed", k) => Carries(to_cs', "closed", k)
    BY <1>2, <1>3 DEF Adds
<1>7. /\ ToCsOK(cur)' /\ ToClOK(cur)' /\ FromClOK(cur)' /\ MapsOK'
    BY <1>1, <1>2 DEF ToCsOK, Adds, ToClOK, FromClOK, MapsOK, Busy
<1>8. ClientOK(cur)' /\ ConOK'
    BY <1>1, <1>2, <1>6 DEF ClientOK, ConOK, Busy
<1>9. CASE status[i] # "OPEN_SENT"
    <2>1. UNCHANGED <<status, app, landed>>
        BY <1>1, <1>9
    <2>2. DynTypeOK' /\ AppsOK(cur)' /\ ToXrOK(cur)' /\ OwnChannelOnly'
        BY <1>1, <1>2, <2>1, SMTT(40) DEF DynTypeOK, TypeOK, AppsOK, ToXrOK, OwnChannelOnly
    <2>3. StageOK'
        BY <1>1, <1>6, <2>1
           DEF StageOK, Opening, Linked, Done, Stale, Unlinked, Busy, Closing
    <2>4. ClosingOK' /\ OpenOK(cur)'
        BY <1>1, <1>6, <2>1 DEF ClosingOK, Closing, OpenOK, Established
    <2> QED BY <1>7, <1>8, <2>2, <2>3, <2>4
<1>10. CASE status[i] = "OPEN_SENT"
    <2>1. /\ status' = [status EXCEPT ![i] = "OPEN"] /\ Lands(m.app, a)
          /\ IF a = None THEN UNCHANGED app
             ELSE \E r \in {"open", "leaked"} : app' = [app EXCEPT ![a] = r]
        BY <1>1, <1>3, <1>10 DEF Answered
    <2>2. /\ status \in [Ids -> Status] /\ status' \in [Ids -> Status] /\ status'[i] = "OPEN"
          /\ \A k \in Ids : k # i => status'[k] = status[k]
        BY <1>3, <2>1 DEF DynTypeOK, TypeOK, Status
    <2>3. OwnChannelOnly' /\ landed' \subseteq Apps \X Apps
        BY <1>3, <1>4, <1>5, <2>1, LandsOwn DEF DynTypeOK, TypeOK
    <2>4. app' \in [Apps -> {"idle", "asking", "open", "leaked", "gone"}]
        BY <1>4, <2>1 DEF DynTypeOK, TypeOK
    <2>5. DynTypeOK'
        <3>1. status'[0] = status[0] /\ 0 \in Ids
            BY <1>3, <2>2, DynAssumption DEF Ids
        <3> QED BY <1>1, <1>2, <2>2, <2>3, <2>4, <3>1 DEF DynTypeOK, TypeOK
    <2>6. AppsOK(cur)'
        <3>1. CASE a = None
            BY <1>1, <1>3, <1>10, <2>1, <2>2, <3>1 DEF AppsOK, a
        <3>2. CASE a # None
            <4>1. PICK r \in {"open", "leaked"} : app' = [app EXCEPT ![a] = r]
                BY <2>1, <3>2
            <4>2. /\ a \in Apps /\ a = cur[i] /\ chan_id[a] = i /\ app'[a] = r
                  /\ \A b \in Apps : b # a => app'[b] = app[b]
                  /\ app[a] = "asking"
                BY <1>3, <1>4, <1>10, <3>2, <4>1 DEF DynTypeOK, TypeOK, AppsOK, a
            <4>3. \A k \in Ids : api_trans[k] # None /\ k # i =>
                      cur[k] # a /\ cur[k] \in Apps
                BY <1>3, <4>2 DEF AppsOK, DynTypeOK, TypeOK
            <4>4. \A b \in Apps :
                      /\ app'[b] = "idle" => chan_id[b] = 0
                      /\ app'[b] \in {"asking", "open", "leaked"} => api_trans[chan_id[b]] = b
                BY <4>1, <4>2 DEF AppsOK, a
            <4>5. ASSUME NEW k \in Ids, api_trans[k] # None
                  PROVE  /\ k # 0 /\ cur[k] = api_trans[k] /\ chan_id[cur[k]] = k
                         /\ \/ app'[cur[k]] = "asking" /\ status'[k] = "OPEN_SENT"
                            \/ app'[cur[k]] \in {"open", "leaked"} /\ status'[k] = "OPEN"
                <5>1. CASE k = i
                    BY <1>3, <2>2, <4>1, <4>2, <4>5, <5>1 DEF AppsOK
                <5>2. CASE k # i
                    BY <2>2, <4>2, <4>3, <4>5, <5>2 DEF AppsOK
                <5> QED BY <5>1, <5>2
            <4>6. ~detached => \A k \in Ids :
                      status'[k] \in {"OPEN_SENT", "OPEN"} => api_trans[k] # None
                BY <2>2, <1>10, <3>2 DEF AppsOK, a
            <4> QED BY <1>1, <4>4, <4>5, <4>6 DEF AppsOK
        <3> QED BY <3>1, <3>2
    <2>7. ToXrOK(cur)'
        <3>1. ASSUME NEW n \in Msgs(to_xr), n.type = "close"
              PROVE  status'[n.id] = "CLOSE_SENT"
            <4>1. n.id \in Ids /\ status[n.id] = "CLOSE_SENT"
                BY <3>1, InQueue DEF DynTypeOK, ToXrOK
            <4> QED BY <1>10, <2>2, <4>1
        <3> QED BY <1>1, <3>1 DEF ToXrOK
    <2>8. StageOK'
        <3> SUFFICES ASSUME NEW k \in Ids
                     PROVE  /\ status'[k] = "CLOSED" =>
                                  ~Has(to_xr', k) /\ ~Has(to_cs', k) /\ Unlinked(k)'
                            /\ status'[k] # "CLOSED" /\ k # 0 =>
                                  Opening(k)' \/ Linked(k)' \/ Done(k)' \/ Stale(k)'
            BY DEF StageOK
        <3>1. Unlinked(k)' <=> Unlinked(k)
            BY <1>1 DEF Unlinked, Busy
        <3>2. CASE k = i
            <4>1. Linked(i) \/ Stale(i)
                BY <1>3, <1>10, CarriesHas DEF StageOK, Opening, Done
            <4> QED BY <1>1, <1>6, <2>2, <3>1, <3>2, <4>1 DEF Linked, Stale, Busy
        <3>3. CASE k # i
            BY <1>1, <1>6, <2>2, <3>1, <3>3
               DEF StageOK, Opening, Linked, Done, Stale, Busy, Closing
        <3> QED BY <3>2, <3>3
    <2>9. ClosingOK'
        BY <1>1, <1>10, <2>2 DEF ClosingOK, Closing, DynTypeOK, TypeOK
    <2>10. OpenOK(cur)'
        <3> SUFFICES ASSUME ~detached, NEW k \in Ids, Established(k)'
                     PROVE  Established(k)
            BY <1>1 DEF OpenOK
        <3> QED BY <1>1, <1>3, <1>6, <1>10, <2>2 DEF Established
    <2> QED BY <1>7, <1>8, <2>3, <2>5, <2>6, <2>7, <2>8, <2>9, <2>10
<1> QED BY <1>9, <1>10

-----------------------------------------------------------------------------
(* The client reads what xrdp sent, and sends. *)

LEMMA ClientGetsDataStep ==
    ASSUME NEW cur, Inv(cur), ClientGetsData
    PROVE  Inv(cur)'
<1> DEFINE m == Head(to_cl)
           j == m.id
<1> USE DEF Inv
<1>1. /\ to_cl # <<>> /\ m.type \in {"first", "data"} /\ to_cl' = Tail(to_cl)
      /\ Lands(m.app, cl[j])
      /\ got' = IF cl[j] = m.app THEN [got EXCEPT ![m.app] = @ + 1] ELSE got
      /\ UNCHANGED <<appVars, csVars, xrVars, cl, to_xr, to_cs, from_cl, linkVars, sent, replied>>
    BY DEF ClientGetsData, ClientTakes
<1>2. /\ m \in Message /\ m.app = cur[xr2cr[j]]
      /\ to_cl' \in Seq(Message) /\ Adds(to_cl', to_cl, m)
      /\ InOrder(to_cl', "open", "close")
    BY <1>1, TakeCl
<1>3. j \in Ids /\ m.app \in Apps
    BY <1>2 DEF Message
<1> HIDE DEF m, j
<1> USE DEF appVars, csVars, xrVars, linkVars
<1>4. OwnChannelOnly' /\ landed' \subseteq Apps \X Apps
    <2>1. cl[j] \in Apps \cup {None}
        BY <1>3 DEF DynTypeOK, TypeOK
    <2>2. cl[j] = None \/ cl[j] = m.app
        BY <1>2, <1>3 DEF ClientOK
    <2> QED BY <1>1, <1>3, <2>1, <2>2, LandsOwn DEF DynTypeOK, TypeOK
<1>5. got' \in [Apps -> Nat]
    BY <1>1, <1>3 DEF DynTypeOK, TypeOK
<1>6. DynTypeOK'
    BY <1>1, <1>2, <1>4, <1>5 DEF DynTypeOK, TypeOK
<1>7. AppsOK(cur)' /\ ToXrOK(cur)' /\ ToCsOK(cur)' /\ FromClOK(cur)' /\ MapsOK'
    BY <1>1 DEF AppsOK, ToXrOK, ToCsOK, FromClOK, MapsOK, Busy
<1>8. /\ \A k : Has(to_cl', k) => Has(to_cl, k)
      /\ \A t, k : Carries(to_cl', t, k) => Carries(to_cl, t, k)
      /\ \A t, k : t \in {"open", "close"} /\ Carries(to_cl, t, k) => Carries(to_cl', t, k)
    BY <1>1, <1>2 DEF Adds
<1>9. ToClOK(cur)'
    BY <1>1, <1>2 DEF ToClOK, Adds
<1>10. StageOK'
    BY <1>1, <1>8 DEF StageOK, Opening, Linked, Done, Stale, Unlinked, Busy, Closing
<1>11. ClientOK(cur)' /\ ClosingOK'
    BY <1>1, <1>8 DEF ClientOK, ClosingOK, Closing, Busy
<1>12. OpenOK(cur)' /\ ConOK'
    BY <1>1 DEF OpenOK, Established, ConOK, Busy
<1> QED BY <1>4, <1>6, <1>7, <1>9, <1>10, <1>11, <1>12

LEMMA ClientAcceptsStep ==
    ASSUME NEW cur, Inv(cur), ClientAccepts
    PROVE  Inv(cur)'
<1> DEFINE m == Head(to_cl)
           j == m.id
           n == Msg("opened", j, m.app)
<1> USE DEF Inv
<1>1. /\ to_cl # <<>> /\ m.type = "open" /\ to_cl' = Tail(to_cl)
      /\ cl' = [cl EXCEPT ![j] = m.app] /\ from_cl' = Append(from_cl, n)
      /\ UNCHANGED <<appVars, csVars, xrVars, to_xr, to_cs, linkVars, talliedVars>>
    BY DEF ClientAccepts, ClientTakes
<1>2. /\ m \in Message /\ m \in Msgs(to_cl) /\ m.app = cur[xr2cr[j]] /\ Busy(j) /\ j # 0
      /\ to_cl' \in Seq(Message) /\ Adds(to_cl', to_cl, m)
      /\ InOrder(to_cl', "open", "close") /\ ~Carries(to_cl', "open", j)
    BY <1>1, TakeCl
<1>3. j \in Ids /\ m.app \in Apps /\ m.app # None
    BY <1>2, DynAssumption DEF Message
<1>4. n \in Message /\ n.type = "opened" /\ n.id = j /\ n.app = m.app
    BY <1>3, MsgIsMessage DEF MsgTypes
<1>5. Carries(to_cl, "open", j)
    BY <1>1, <1>2, CarriesHas
<1> HIDE DEF m, j, n
<1> USE DEF appVars, csVars, xrVars, linkVars, talliedVars
<1>6. from_cl' \in Seq(Message) /\ Adds(from_cl, from_cl', n)
    BY <1>1, <1>4, AppendAdds DEF DynTypeOK
<1>7. cl[j] = None /\ ~Has(from_cl, j) /\ ~Has(to_cs, xr2cr[j])
    BY <1>3, <1>5 DEF ClientOK
<1>8. InOrder(from_cl', "opened", "closed")
    BY <1>1, <1>4, <1>7, CarriesHas, AppendInOrder DEF DynTypeOK, FromClOK
<1>9. /\ cl' \in [Ids -> Apps \cup {None}] /\ cl'[j] = m.app
      /\ \A k \in Ids : k # j => cl'[k] = cl[k]
    BY <1>1, <1>3 DEF DynTypeOK, TypeOK
<1>10. DynTypeOK'
    BY <1>1, <1>2, <1>6, <1>9 DEF DynTypeOK, TypeOK
<1>11. AppsOK(cur)' /\ ToXrOK(cur)' /\ ToCsOK(cur)' /\ MapsOK' /\ OwnChannelOnly'
    BY <1>1 DEF AppsOK, ToXrOK, ToCsOK, MapsOK, Busy, OwnChannelOnly
<1>12. ToClOK(cur)' /\ FromClOK(cur)'
    <2>1. ToClOK(cur)'
        BY <1>1, <1>2 DEF ToClOK, Adds
    <2>2. FromClOK(cur)'
        BY <1>1, <1>2, <1>4, <1>6, <1>8 DEF FromClOK, Adds
    <2> QED BY <2>1, <2>2
<1>13. /\ \A k : Has(to_cl', k) => Has(to_cl, k)
       /\ \A t, k : Carries(to_cl', t, k) => Carries(to_cl, t, k)
       /\ \A k : Carries(to_cl, "close", k) => Carries(to_cl', "close", k)
       /\ \A k : k # j /\ Carries(to_cl, "open", k) => Carries(to_cl', "open", k)
       /\ \A k : Has(from_cl', k) <=> Has(from_cl, k) \/ k = j
       /\ \A k : Carries(from_cl', "closed", k) <=> Carries(from_cl, "closed", k)
       /\ \A k : Carries(from_cl', "opened", k) <=> Carries(from_cl, "opened", k) \/ k = j
    BY <1>1, <1>2, <1>4, <1>6 DEF Adds, j
<1>14. StageOK'
    BY <1>1, <1>13 DEF StageOK, Opening, Linked, Done, Stale, Unlinked, Busy, Closing
<1>15. ClosingOK'
    BY <1>1, <1>13 DEF ClosingOK, Closing
<1>16. ClientOK(cur)'
    <2> SUFFICES ASSUME NEW k \in Ids
                 PROVE  /\ ~Busy(k) => cl'[k] = None /\ ~Has(to_cl', k) /\ ~Has(from_cl', k)
                        /\ Busy(k) => \/ Carries(to_cl', "open", k) \/ cl'[k] # None
                                      \/ Carries(from_cl', "closed", k)
                        /\ cl'[k] # None => cl'[k] = cur[xr2cr[k]]
                        /\ Carries(to_cl', "open", k) =>
                              /\ cl'[k] = None /\ ~Has(from_cl', k) /\ ~Has(to_cs, xr2cr[k])
                              /\ xr_status[k] # "OPEN"
                        /\ Carries(from_cl', "opened", k) => ~Has(to_cs, xr2cr[k])
                        /\ Carries(from_cl', "closed", k) => cl'[k] = None /\ ~Has(to_cl', k)
        BY <1>1 DEF ClientOK, Busy
    <2>1. CASE k = j
        BY <1>2, <1>3, <1>7, <1>9, <1>13, <2>1, CarriesHas
    <2>2. CASE k # j
        BY <1>9, <1>13, <2>2 DEF ClientOK
    <2> QED BY <2>1, <2>2
<1>17. OpenOK(cur)'
    BY <1>1, <1>2, <1>9 DEF OpenOK, Established, DynTypeOK, TypeOK
<1>18. ConOK'
    BY <1>1, <1>2 DEF ConOK, Busy
<1> QED BY <1>10, <1>11, <1>12, <1>14, <1>15, <1>16, <1>17, <1>18

LEMMA ClientClosesStep ==
    ASSUME NEW cur, Inv(cur), ClientCloses
    PROVE  Inv(cur)'
<1> DEFINE m == Head(to_cl)
           j == m.id
           n == Msg("closed", j, cl[j])
<1> USE DEF Inv
<1>1. /\ to_cl # <<>> /\ m.type = "close" /\ to_cl' = Tail(to_cl)
      /\ cl' = [cl EXCEPT ![j] = None] /\ Lands(m.app, cl[j])
      /\ from_cl' = Append(from_cl, n)
      /\ UNCHANGED <<appVars, csVars, xrVars, to_xr, to_cs, linkVars, sent, got, replied>>
    BY DEF ClientCloses, ClientTakes
<1>2. /\ m \in Message /\ m \in Msgs(to_cl) /\ m.app = cur[xr2cr[j]] /\ Busy(j) /\ j # 0
      /\ to_cl' \in Seq(Message) /\ Adds(to_cl', to_cl, m)
      /\ InOrder(to_cl', "open", "close")
      /\ ~Has(to_cl', j)
    BY <1>1, TakeCl
<1>3. j \in Ids /\ m.app \in Apps /\ m.app # None
    BY <1>2, DynAssumption DEF Message
<1>4. Carries(to_cl, "close", j)
    BY <1>1, <1>2, CarriesHas
\* The open is not in the queue any more, so the client has the channel.
<1>5. ~Carries(from_cl, "closed", j) /\ ~Carries(to_cl, "open", j)
    BY <1>1, <1>2, <1>3, <1>4, CarriesHas, SMTT(40) DEF ClientOK, Adds
<1>6. cl[j] = m.app
    BY <1>2, <1>3, <1>5 DEF ClientOK
<1>7. n \in Message /\ n.type = "closed" /\ n.id = j /\ n.app = m.app
    BY <1>3, <1>6, MsgIsMessage DEF MsgTypes
<1> HIDE DEF m, j, n
<1> USE DEF appVars, csVars, xrVars, linkVars
<1>8. from_cl' \in Seq(Message) /\ Adds(from_cl, from_cl', n)
    BY <1>1, <1>7, AppendAdds DEF DynTypeOK
<1>9. InOrder(from_cl', "opened", "closed")
    <2>1. ~Carries(from_cl, "open", j)
        BY CarriesHas DEF FromClOK
    <2> QED BY <1>1, <1>5, <1>7, <2>1, AppendInOrder DEF DynTypeOK, FromClOK
<1>10. /\ cl' \in [Ids -> Apps \cup {None}] /\ cl'[j] = None
       /\ \A k \in Ids : k # j => cl'[k] = cl[k]
    BY <1>1, <1>3 DEF DynTypeOK, TypeOK
<1>11. OwnChannelOnly' /\ landed' \subseteq Apps \X Apps
    BY <1>1, <1>3, <1>6, LandsOwn DEF DynTypeOK, TypeOK
<1>12. DynTypeOK'
    BY <1>1, <1>2, <1>8, <1>10, <1>11 DEF DynTypeOK, TypeOK
<1>13. AppsOK(cur)' /\ ToXrOK(cur)' /\ ToCsOK(cur)' /\ MapsOK'
    BY <1>1 DEF AppsOK, ToXrOK, ToCsOK, MapsOK, Busy
<1>14. ToClOK(cur)'
    BY <1>1, <1>2 DEF ToClOK, Adds
<1>15. FromClOK(cur)'
    BY <1>1, <1>2, <1>7, <1>8, <1>9 DEF FromClOK, Adds
<1>16. /\ \A k : Has(to_cl', k) => Has(to_cl, k)
       /\ \A t, k : Carries(to_cl', t, k) => Carries(to_cl, t, k)
       /\ \A t, k : k # j /\ Carries(to_cl, t, k) => Carries(to_cl', t, k)
       /\ \A k : Has(from_cl', k) <=> Has(from_cl, k) \/ k = j
       /\ \A k : Carries(from_cl', "closed", k) <=> Carries(from_cl, "closed", k) \/ k = j
       /\ \A k : Carries(from_cl', "opened", k) <=> Carries(from_cl, "opened", k)
    BY <1>1, <1>2, <1>7, <1>8 DEF Adds, j
<1>17. \A k \in Ids : Closing(k)' <=> Closing(k)
    BY <1>4, <1>16 DEF Closing
<1>18. StageOK'
    <2> SUFFICES ASSUME NEW k \in Ids
                 PROVE  /\ status'[k] = "CLOSED" =>
                              ~Has(to_xr', k) /\ ~Has(to_cs', k) /\ Unlinked(k)'
                        /\ status'[k] # "CLOSED" /\ k # 0 =>
                              Opening(k)' \/ Linked(k)' \/ Done(k)' \/ Stale(k)'
        BY DEF StageOK
    <2>1. Linked(k) => Linked(k)'
        BY <1>1, <1>17 DEF Linked, Busy, DynTypeOK, TypeOK
    <2> QED BY <1>1, <2>1 DEF StageOK, Opening, Done, Stale, Unlinked, Busy
<1>19. ClosingOK'
    BY <1>1, <1>17 DEF ClosingOK
<1>20. ClientOK(cur)'
    <2> SUFFICES ASSUME NEW k \in Ids
                 PROVE  /\ ~Busy(k) => cl'[k] = None /\ ~Has(to_cl', k) /\ ~Has(from_cl', k)
                        /\ Busy(k) => \/ Carries(to_cl', "open", k) \/ cl'[k] # None
                                      \/ Carries(from_cl', "closed", k)
                        /\ cl'[k] # None => cl'[k] = cur[xr2cr[k]]
                        /\ Carries(to_cl', "open", k) =>
                              /\ cl'[k] = None /\ ~Has(from_cl', k) /\ ~Has(to_cs, xr2cr[k])
                              /\ xr_status[k] # "OPEN"
                        /\ Carries(from_cl', "opened", k) => ~Has(to_cs, xr2cr[k])
                        /\ Carries(from_cl', "closed", k) => cl'[k] = None /\ ~Has(to_cl', k)
        BY <1>1 DEF ClientOK, Busy
    <2>1. CASE k = j
        BY <1>2, <1>3, <1>5, <1>10, <1>16, <2>1, CarriesHas DEF ClientOK
    <2>2. CASE k # j
        BY <1>10, <1>16, <2>2 DEF ClientOK
    <2> QED BY <2>1, <2>2
<1>21. OpenOK(cur)'
    <2> SUFFICES ASSUME ~detached, NEW k \in Ids, Established(k)
                 PROVE  /\ xr_status[cs2xr[k]] = "OPEN" /\ xr2cr[cs2xr[k]] = k
                        /\ cl'[cs2xr[k]] = cur[k]
        BY <1>1 DEF OpenOK, Established
    <2>1. /\ xr_status[cs2xr[k]] = "OPEN" /\ xr2cr[cs2xr[k]] = k /\ cl[cs2xr[k]] = cur[k]
          /\ cs2xr[k] \in Ids
        BY DEF OpenOK, DynTypeOK, TypeOK
    <2>2. status[xr2cr[j]] = "CLOSE_SENT" /\ ~Has(to_xr, xr2cr[j])
        BY <1>3, <1>4 DEF ClosingOK, Closing
    <2>3. cs2xr[k] # j
        BY <2>1, <2>2, CarriesHas DEF Established
    <2> QED BY <1>10, <2>1, <2>3
<1>22. ConOK'
    BY <1>1, <1>2 DEF ConOK, Busy
<1> QED BY <1>11, <1>12, <1>13, <1>14, <1>15, <1>18, <1>19, <1>20, <1>21, <1>22

LEMMA ClientSendsStep ==
    ASSUME NEW cur, Inv(cur), NEW j \in Ids, ClientSends(j)
    PROVE  Inv(cur)'
<1> DEFINE n == Msg("data", j, cl[j])
<1> USE DEF Inv
<1>1. /\ cl[j] # None /\ replied < MaxReplies /\ from_cl' = Append(from_cl, n)
      /\ replied' = replied + 1
      /\ UNCHANGED <<appVars, csVars, xrVars, cl, to_xr, to_cs, to_cl, linkVars,
                     sent, got, landed>>
    BY DEF ClientSends
<1>2. /\ Busy(j) /\ cl[j] = cur[xr2cr[j]] /\ cl[j] \in Apps
      /\ ~Carries(from_cl, "closed", j) /\ ~Carries(to_cl, "open", j)
    BY <1>1 DEF ClientOK, DynTypeOK, TypeOK
<1>3. n \in Message /\ n.type = "data" /\ n.id = j /\ n.app = cl[j]
    BY <1>2, MsgIsMessage DEF MsgTypes
<1> HIDE DEF n
<1> USE DEF appVars, csVars, xrVars, linkVars
<1>4. from_cl' \in Seq(Message) /\ Adds(from_cl, from_cl', n)
    BY <1>1, <1>3, AppendAdds DEF DynTypeOK
<1>5. InOrder(from_cl', "opened", "closed")
    <2>1. ~Carries(from_cl, "open", j)
        BY CarriesHas DEF FromClOK
    <2> QED BY <1>1, <1>2, <1>3, <2>1, AppendInOrder DEF DynTypeOK, FromClOK
<1>6. replied' \in 0 .. MaxReplies
    BY <1>1, DynAssumption DEF DynTypeOK, TypeOK
<1>7. DynTypeOK'
    BY <1>1, <1>4, <1>6 DEF DynTypeOK, TypeOK
<1>8. AppsOK(cur)' /\ ToXrOK(cur)' /\ ToCsOK(cur)' /\ ToClOK(cur)' /\ MapsOK' /\ OwnChannelOnly'
    BY <1>1 DEF AppsOK, ToXrOK, ToCsOK, ToClOK, MapsOK, Busy, OwnChannelOnly
<1>9. FromClOK(cur)'
    BY <1>1, <1>2, <1>3, <1>4, <1>5 DEF FromClOK, Adds
<1>10. /\ \A k : Has(from_cl', k) <=> Has(from_cl, k) \/ k = j
       /\ \A k : Carries(from_cl', "closed", k) <=> Carries(from_cl, "closed", k)
       /\ \A k : Carries(from_cl', "opened", k) <=> Carries(from_cl, "opened", k)
    BY <1>3, <1>4 DEF Adds
<1>11. StageOK' /\ ClosingOK'
    BY <1>1, <1>10
       DEF StageOK, ClosingOK, Opening, Linked, Done, Stale, Unlinked, Busy, Closing
<1>12. ClientOK(cur)'
    BY <1>1, <1>2, <1>10 DEF ClientOK, Busy
<1>13. OpenOK(cur)'
    BY <1>1 DEF OpenOK, Established
<1>14. ConOK'
    BY <1>1, <1>2 DEF ConOK, Busy
<1> QED BY <1>7, <1>8, <1>9, <1>11, <1>12, <1>13, <1>14

-----------------------------------------------------------------------------
(* xrdp reads what the client sent, and passes it on. *)

\* What it is given to pass on, it passes on, under the id it stands for.
LEMMA Forwards ==
    ASSUME NEW cur, Inv(cur), NEW m \in Msgs(from_cl), NEW t \in MsgTypes, Forward(t, m)
    PROVE  LET n == Msg(t, xr2cr[m.id], m.app) IN
           /\ to_cs' = Append(to_cs, n) /\ to_cs' \in Seq(Message) /\ Adds(to_cs, to_cs', n)
           /\ n.type = t /\ n.id = xr2cr[m.id] /\ n.app = cur[xr2cr[m.id]]
           /\ InOrder(to_cs, "opened", "closed")
           /\ ~Carries(to_cs, "open", n.id) /\ ~Carries(to_cs, "closed", n.id)
<1>1. m.id \in Ids /\ m.app \in Apps /\ Has(from_cl, m.id)
    BY InQueue DEF Inv, DynTypeOK
<1>2. Busy(m.id)
    BY <1>1, Mentioned
<1>3. procs[m.id] /\ xr2cr[m.id] \in Ids /\ Linked(xr2cr[m.id])
    BY <1>1, <1>2, BusyLinked
<1>4. m.app = cur[xr2cr[m.id]]
    BY DEF Inv, FromClOK
<1> DEFINE n == Msg(t, xr2cr[m.id], m.app)
<1>5. n \in Message /\ n.type = t /\ n.id = xr2cr[m.id] /\ n.app = m.app
    BY <1>1, <1>3, MsgIsMessage
<1>6. to_cs' = Append(to_cs, n)
    BY <1>3 DEF Forward
<1> HIDE DEF n
<1>7. to_cs' \in Seq(Message) /\ Adds(to_cs, to_cs', n)
    BY <1>5, <1>6, AppendAdds DEF Inv, DynTypeOK
<1>8. ~Carries(to_cs, "open", n.id) /\ ~Carries(to_cs, "closed", n.id)
    BY <1>3, <1>5, CarriesHas DEF Linked, Inv, ToCsOK
<1> QED BY <1>4, <1>5, <1>6, <1>7, <1>8 DEF Inv, ToCsOK, n

LEMMA XrClientDataStep ==
    ASSUME NEW cur, Inv(cur), XrClientData
    PROVE  Inv(cur)'
<1> DEFINE m == Head(from_cl)
           j == m.id
           i == xr2cr[j]
           n == Msg("data", i, m.app)
<1> USE DEF Inv
<1>1. /\ from_cl # <<>> /\ m.type = "data" /\ from_cl' = Tail(from_cl) /\ Forward("data", m)
      /\ UNCHANGED <<appVars, csVars, xrVars, cl, to_xr, to_cl, linkVars, talliedVars>>
    BY DEF XrClientData
<1>2. /\ m \in Message /\ m \in Msgs(from_cl) /\ m.app = cur[i] /\ Busy(j)
      /\ from_cl' \in Seq(Message) /\ Adds(from_cl', from_cl, m)
      /\ InOrder(from_cl', "opened", "closed") /\ ~Carries(from_cl', "opened", j)
    BY <1>1, TakeFrom
<1>3. j \in Ids /\ Has(from_cl, j)
    BY <1>2, CarriesHas DEF Message, Has
<1>4. /\ to_cs' = Append(to_cs, n) /\ to_cs' \in Seq(Message) /\ Adds(to_cs, to_cs', n)
      /\ n.type = "data" /\ n.id = i /\ n.app = cur[i]
      /\ InOrder(to_cs, "opened", "closed")
      /\ ~Carries(to_cs, "open", i) /\ ~Carries(to_cs, "closed", i)
    BY <1>1, <1>2, Forwards DEF MsgTypes
<1>5. /\ i \in Ids \ {0} /\ Linked(i) /\ cs2xr[i] = j /\ status[i] # "CLOSED"
      /\ \A k \in Ids : Busy(k) /\ xr2cr[k] = i => k = j
    BY <1>2, <1>3, BusyLinked
<1>6. n \in Message
    BY <1>2, <1>5, MsgIsMessage DEF Message, MsgTypes
<1> HIDE DEF m, j, i, n
<1> USE DEF appVars, csVars, xrVars, linkVars, talliedVars
<1>7. InOrder(to_cs', "opened", "closed")
    BY <1>4, <1>6, AppendInOrder DEF DynTypeOK
<1>8. DynTypeOK' /\ ConOK'
    BY <1>1, <1>2, <1>3, <1>4 DEF DynTypeOK, TypeOK, ConOK, Busy
<1>9. AppsOK(cur)' /\ ToXrOK(cur)' /\ ToClOK(cur)' /\ MapsOK' /\ OwnChannelOnly'
    BY <1>1 DEF AppsOK, ToXrOK, ToClOK, MapsOK, Busy, OwnChannelOnly
<1>10. ToCsOK(cur)'
    BY <1>4, <1>5, <1>7 DEF ToCsOK, Adds
<1>11. FromClOK(cur)'
    BY <1>1, <1>2 DEF FromClOK, Adds
<1>12. /\ \A k : Has(to_cs', k) <=> Has(to_cs, k) \/ k = i
       /\ \A t, k : t # "data" => (Carries(to_cs', t, k) <=> Carries(to_cs, t, k))
       /\ \A k : Has(from_cl', k) => Has(from_cl, k)
       /\ \A t, k : t # "data" => (Carries(from_cl', t, k) <=> Carries(from_cl, t, k))
    BY <1>1, <1>2, <1>4 DEF Adds
<1>13. Unlinked(i) <=> FALSE
    BY <1>2, <1>3 DEF Unlinked, i
<1>14. StageOK'
    BY <1>1, <1>5, <1>12, <1>13
       DEF StageOK, Opening, Linked, Done, Stale, Unlinked, Busy, Closing
<1>15. ClosingOK' /\ OpenOK(cur)'
    BY <1>1, <1>12 DEF ClosingOK, Closing, OpenOK, Established
<1>16. ClientOK(cur)'
    <2>1. ASSUME NEW k \in Ids, Carries(to_cl, "open", k) \/ Carries(from_cl', "opened", k)
          PROVE  xr2cr[k] # i
        <3>1. Busy(k)
            BY <1>12, <2>1, CarriesHas, Mentioned
        <3>2. k # j
            BY <1>2, <1>3, <2>1 DEF ClientOK
        <3> QED BY <1>5, <3>1, <3>2
    <2> QED BY <1>1, <1>12, <2>1 DEF ClientOK, Busy
<1> QED BY <1>8, <1>9, <1>10, <1>11, <1>14, <1>15, <1>16

LEMMA XrOpenResponseStep ==
    ASSUME NEW cur, Inv(cur), XrOpenResponse
    PROVE  Inv(cur)'
<1> DEFINE m == Head(from_cl)
           j == m.id
           i == xr2cr[j]
           n == Msg("opened", i, m.app)
<1> USE DEF Inv
<1>1. from_cl # <<>> /\ from_cl' = Tail(from_cl) /\ m.type \in {"opened", "refused"}
    BY DEF XrOpenResponse
<1>2. /\ m \in Message /\ m \in Msgs(from_cl) /\ m.app = cur[i] /\ Busy(j) /\ j # 0
      /\ from_cl' \in Seq(Message) /\ Adds(from_cl', from_cl, m)
      /\ InOrder(from_cl', "opened", "closed") /\ ~Carries(from_cl', "opened", j)
    BY <1>1, TakeFrom
<1>3. j \in Ids /\ Has(from_cl, j) /\ m.type = "opened"
    BY <1>1, <1>2, CarriesHas DEF Message, Has, FromClOK
<1>4. /\ xr_status' = [xr_status EXCEPT ![j] = "OPEN"] /\ Forward("opened", m)
      /\ Lands(m.app, cl[j])
      /\ UNCHANGED <<appVars, csVars, procs, xr2cr, cs2xr, cl, to_xr, to_cl, linkVars,
                     sent, got, replied>>
    BY <1>3 DEF XrOpenResponse
<1>5. /\ to_cs' = Append(to_cs, n) /\ to_cs' \in Seq(Message) /\ Adds(to_cs, to_cs', n)
      /\ n.type = "opened" /\ n.id = i /\ n.app = cur[i]
      /\ InOrder(to_cs, "opened", "closed")
      /\ ~Carries(to_cs, "open", i) /\ ~Carries(to_cs, "closed", i)
    BY <1>2, <1>4, Forwards, SMTT(40) DEF MsgTypes
<1>6. /\ i \in Ids \ {0} /\ Linked(i) /\ cs2xr[i] = j /\ status[i] # "CLOSED"
      /\ \A k \in Ids : Busy(k) /\ xr2cr[k] = i => k = j
    BY <1>2, <1>3, BusyLinked
<1>7. n \in Message
    BY <1>2, <1>6, MsgIsMessage DEF Message, MsgTypes
<1>8. Carries(from_cl, "opened", j)
    BY <1>2, <1>3, CarriesHas
<1>8a. cl[j] \in Apps \cup {None} /\ (cl[j] = None \/ cl[j] = m.app) /\ m.app \in Apps
    BY <1>2, <1>3 DEF DynTypeOK, TypeOK, ClientOK, Message
<1> HIDE DEF m, j, i, n
<1> USE DEF appVars, csVars, linkVars
<1>8b. OwnChannelOnly' /\ landed' \subseteq Apps \X Apps
    BY <1>4, <1>8a, LandsOwn DEF DynTypeOK, TypeOK
<1>9. ~Has(to_cs, i) /\ ~Carries(to_cl, "open", j)
    BY <1>3, <1>8 DEF ClientOK, i
<1>10. InOrder(to_cs', "opened", "closed")
    BY <1>5, <1>7, <1>9, AppendInOrder DEF DynTypeOK
<1>11. /\ xr_status \in [Ids -> Status] /\ xr_status' \in [Ids -> Status]
       /\ xr_status'[j] = "OPEN" /\ xr_status'[0] = xr_status[0]
       /\ \A k \in Ids : k # j => xr_status'[k] = xr_status[k]
    BY <1>2, <1>3, <1>4, ZeroIsAnId DEF DynTypeOK, TypeOK, Status
<1>12. \A k \in Ids : Busy(k)' <=> Busy(k)
    BY <1>2, <1>11 DEF Busy
<1>13. DynTypeOK'
    BY <1>2, <1>4, <1>5, <1>8b, <1>11 DEF DynTypeOK, TypeOK
<1>14. AppsOK(cur)' /\ ToXrOK(cur)' /\ ToClOK(cur)' /\ OwnChannelOnly'
    BY <1>4, <1>8b DEF AppsOK, ToXrOK, ToClOK
<1>15. MapsOK' /\ ConOK'
    BY <1>1, <1>2, <1>3, <1>4, <1>12 DEF MapsOK, ConOK
<1>16. ToCsOK(cur)'
    BY <1>5, <1>6, <1>10 DEF ToCsOK, Adds
<1>17. FromClOK(cur)'
    BY <1>2, <1>4 DEF FromClOK, Adds
<1>18. /\ \A k : Has(to_cs', k) <=> Has(to_cs, k) \/ k = i
       /\ \A k : Carries(to_cs', "closed", k) <=> Carries(to_cs, "closed", k)
       /\ \A k : Carries(to_cs', "opened", k) <=> Carries(to_cs, "opened", k) \/ k = i
       /\ \A k : Has(from_cl', k) => Has(from_cl, k)
       /\ \A k : Carries(from_cl', "opened", k) => Carries(from_cl, "opened", k)
       /\ \A k : Carries(from_cl', "closed", k) <=> Carries(from_cl, "closed", k)
    BY <1>2, <1>3, <1>5 DEF Adds
<1>19. \A k \in Ids : Closing(k)' <=> Closing(k)
    BY <1>4, <1>18 DEF Closing
<1>20. \A k \in Ids : Unlinked(k)' <=> Unlinked(k)
    BY <1>4, <1>12 DEF Unlinked
<1>21. ~Unlinked(i)
    BY <1>2, <1>3 DEF Unlinked, i
<1>22. StageOK'
    <2> SUFFICES ASSUME NEW k \in Ids
                 PROVE  /\ status'[k] = "CLOSED" =>
                              ~Has(to_xr', k) /\ ~Has(to_cs', k) /\ Unlinked(k)'
                        /\ status'[k] # "CLOSED" /\ k # 0 =>
                              Opening(k)' \/ Linked(k)' \/ Done(k)' \/ Stale(k)'
        BY DEF StageOK
    <2>1. cs2xr[k] \in Ids
        BY DEF DynTypeOK, TypeOK
    <2>2. Linked(k) => Linked(k)'
        BY <1>4, <1>12, <1>18, <1>19, <2>1 DEF Linked
    <2> QED BY <1>4, <1>6, <1>18, <1>20, <1>21, <2>2 DEF StageOK, Opening, Done, Stale
<1>23. ClosingOK'
    BY <1>4, <1>11, <1>19 DEF ClosingOK
<1>24. ClientOK(cur)'
    <2>1. ASSUME NEW k \in Ids, Carries(to_cl, "open", k) \/ Carries(from_cl', "opened", k)
          PROVE  xr2cr[k] # i /\ k # j
        <3>1. Busy(k)
            BY <1>18, <2>1, CarriesHas, Mentioned
        <3>2. k # j
            BY <1>2, <1>9, <2>1
        <3> QED BY <1>6, <3>1, <3>2
    <2> QED BY <1>4, <1>11, <1>12, <1>18, <2>1 DEF ClientOK
<1>25. OpenOK(cur)'
    <2> SUFFICES ASSUME ~detached, NEW k \in Ids, Established(k)'
                 PROVE  /\ xr_status'[cs2xr[k]] = "OPEN" /\ xr2cr[cs2xr[k]] = k
                        /\ cl[cs2xr[k]] = cur[k]
        BY <1>4 DEF OpenOK
    <2>1. cs2xr[k] \in Ids
        BY DEF DynTypeOK, TypeOK
    <2>2. CASE Established(k)
        BY <1>11, <2>1, <2>2 DEF OpenOK
    <2>3. CASE k = i /\ status[i] = "OPEN_SENT"
        <3>1. ~Carries(from_cl, "closed", j)
            BY <1>3, <2>3 DEF ClosingOK, Closing, i
        <3>2. cl[j] = cur[i]
            BY <1>2, <1>3, <1>9, <3>1 DEF ClientOK, i
        <3> QED BY <1>6, <1>11, <2>3, <3>2 DEF i
    <2> QED BY <1>4, <1>18, <2>2, <2>3 DEF Established
<1> QED BY <1>13, <1>14, <1>15, <1>16, <1>17, <1>22, <1>23, <1>24, <1>25

LEMMA XrCloseResponseStep ==
    ASSUME NEW cur, Inv(cur), XrCloseResponse
    PROVE  Inv(cur)'
<1> DEFINE m == Head(from_cl)
           j == m.id
           i == xr2cr[j]
           n == Msg("closed", i, m.app)
<1> USE DEF Inv
<1>1. /\ from_cl # <<>> /\ from_cl' = Tail(from_cl) /\ m.type = "closed"
      /\ xr_status' = [xr_status EXCEPT ![j] = "CLOSED"] /\ Forward("closed", m)
      /\ Lands(m.app, cl[j])
      /\ UNCHANGED <<appVars, csVars, procs, xr2cr, cs2xr, cl, to_xr, to_cl, linkVars,
                     sent, got, replied>>
    BY DEF XrCloseResponse
<1>2. /\ m \in Message /\ m \in Msgs(from_cl) /\ m.app = cur[i] /\ Busy(j) /\ j # 0
      /\ from_cl' \in Seq(Message) /\ Adds(from_cl', from_cl, m)
      /\ InOrder(from_cl', "opened", "closed") /\ ~Has(from_cl', j)
    BY <1>1, TakeFrom
<1>3. j \in Ids /\ Carries(from_cl, "closed", j)
    BY <1>1, <1>2, CarriesHas DEF Message
<1>4. /\ to_cs' = Append(to_cs, n) /\ to_cs' \in Seq(Message) /\ Adds(to_cs, to_cs', n)
      /\ n.type = "closed" /\ n.id = i /\ n.app = cur[i]
      /\ InOrder(to_cs, "opened", "closed")
      /\ ~Carries(to_cs, "open", i) /\ ~Carries(to_cs, "closed", i)
    BY <1>1, <1>2, Forwards, SMTT(40) DEF MsgTypes
<1>5. /\ i \in Ids \ {0} /\ Linked(i) /\ cs2xr[i] = j
      /\ \A k \in Ids : Busy(k) /\ xr2cr[k] = i => k = j
    BY <1>2, <1>3, BusyLinked
<1>6. n \in Message
    BY <1>2, <1>5, MsgIsMessage DEF Message, MsgTypes
<1>7. /\ status[i] = "CLOSE_SENT" /\ ~Has(to_xr, i)
      /\ cl[j] = None /\ ~Has(to_cl, j)
    BY <1>3 DEF ClosingOK, Closing, ClientOK
<1>8. xr2cr[j] = i
    OBVIOUS
<1>8a. cl[j] \in Apps \cup {None} /\ m.app \in Apps
    BY <1>2, <1>3 DEF DynTypeOK, TypeOK, Message
<1> HIDE DEF m, j, i, n
<1> USE DEF appVars, csVars, linkVars
<1>8b. OwnChannelOnly' /\ landed' \subseteq Apps \X Apps
    BY <1>1, <1>7, <1>8a, LandsOwn DEF DynTypeOK, TypeOK
<1>9. InOrder(to_cs', "opened", "closed")
    BY <1>4, <1>6, AppendInOrder DEF DynTypeOK
<1>10. /\ xr_status \in [Ids -> Status] /\ xr_status' \in [Ids -> Status]
       /\ xr_status'[j] = "CLOSED" /\ xr_status'[0] = xr_status[0]
       /\ \A k \in Ids : k # j => xr_status'[k] = xr_status[k]
    BY <1>1, <1>2, <1>3, ZeroIsAnId DEF DynTypeOK, TypeOK, Status
<1>11. \A k \in Ids : Busy(k)' <=> Busy(k) /\ k # j
    BY <1>2, <1>10 DEF Busy
<1>12. DynTypeOK'
    BY <1>1, <1>2, <1>4, <1>8b, <1>10 DEF DynTypeOK, TypeOK
<1>13. AppsOK(cur)' /\ ToXrOK(cur)' /\ ToClOK(cur)' /\ OwnChannelOnly'
    BY <1>1, <1>8b DEF AppsOK, ToXrOK, ToClOK
<1>14. MapsOK'
    BY <1>1, <1>11 DEF MapsOK
<1>15. ToCsOK(cur)'
    BY <1>4, <1>5, <1>9 DEF ToCsOK, Adds
<1>16. FromClOK(cur)'
    BY <1>1, <1>2 DEF FromClOK, Adds
<1>17. /\ \A k : Has(to_cs', k) <=> Has(to_cs, k) \/ k = i
       /\ \A k : Carries(to_cs', "closed", k) <=> Carries(to_cs, "closed", k) \/ k = i
       /\ \A k : Carries(to_cs', "opened", k) <=> Carries(to_cs, "opened", k)
       /\ \A k : Has(from_cl', k) => Has(from_cl, k)
       /\ \A t, k : Carries(from_cl', t, k) => Carries(from_cl, t, k)
       /\ \A t, k : k # j /\ Carries(from_cl, t, k) => Carries(from_cl', t, k)
    BY <1>2, <1>4 DEF Adds, j
<1>18. \A k \in Ids : k # j => (Closing(k)' <=> Closing(k))
    BY <1>1, <1>17 DEF Closing
<1>19. \A k \in Ids : k = j => ~Closing(k)'
    BY <1>1, <1>2, <1>7, CarriesHas DEF Closing
<1>20. /\ \A k \in Ids : k # i => (Unlinked(k)' <=> Unlinked(k))
       /\ \A k \in Ids : k = i => Unlinked(k)'
    BY <1>1, <1>5, <1>8, <1>11 DEF Unlinked
<1>21. StageOK'
    <2> SUFFICES ASSUME NEW k \in Ids
                 PROVE  /\ status'[k] = "CLOSED" =>
                              ~Has(to_xr', k) /\ ~Has(to_cs', k) /\ Unlinked(k)'
                        /\ status'[k] # "CLOSED" /\ k # 0 =>
                              Opening(k)' \/ Linked(k)' \/ Done(k)' \/ Stale(k)'
        BY DEF StageOK
    <2>1. cs2xr[k] \in Ids
        BY DEF DynTypeOK, TypeOK
    <2>2. CASE k = i
        BY <1>1, <1>7, <1>17, <1>20, <2>2 DEF Done
    <2>3. CASE k # i
        <3>1. ASSUME Linked(k) PROVE Linked(k)'
            <4>1. cs2xr[k] # j
                BY <1>8, <2>3, <3>1 DEF Linked
            <4> QED BY <1>1, <1>11, <1>17, <1>18, <2>1, <2>3, <3>1, <4>1 DEF Linked
        <3> QED BY <1>1, <1>17, <1>20, <2>3, <3>1 DEF StageOK, Opening, Done, Stale
    <2> QED BY <2>2, <2>3
<1>22. ClosingOK'
    BY <1>1, <1>10, <1>18, <1>19 DEF ClosingOK
<1>23. ClientOK(cur)'
    <2> SUFFICES ASSUME NEW k \in Ids
                 PROVE  /\ ~Busy(k)' => cl[k] = None /\ ~Has(to_cl, k) /\ ~Has(from_cl', k)
                        /\ Busy(k)' => \/ Carries(to_cl, "open", k) \/ cl[k] # None
                                       \/ Carries(from_cl', "closed", k)
                        /\ cl[k] # None => cl[k] = cur[xr2cr[k]]
                        /\ Carries(to_cl, "open", k) =>
                              /\ cl[k] = None /\ ~Has(from_cl', k) /\ ~Has(to_cs', xr2cr[k])
                              /\ xr_status'[k] # "OPEN"
                        /\ Carries(from_cl', "opened", k) => ~Has(to_cs', xr2cr[k])
                        /\ Carries(from_cl', "closed", k) => cl[k] = None /\ ~Has(to_cl, k)
        BY <1>1 DEF ClientOK
    <2>1. CASE k = j
        BY <1>2, <1>7, <1>11, <2>1, CarriesHas
    <2>2. CASE k # j
        <3>1. ASSUME Carries(to_cl, "open", k) \/ Carries(from_cl', "opened", k)
              PROVE  xr2cr[k] # i
            <4>1. Busy(k)
                BY <1>17, <3>1, CarriesHas, Mentioned
            <4> QED BY <1>5, <2>2, <4>1
        <3> QED BY <1>10, <1>11, <1>17, <2>2, <3>1 DEF ClientOK
    <2> QED BY <2>1, <2>2
<1>24. OpenOK(cur)'
    <2> SUFFICES ASSUME ~detached, NEW k \in Ids, Established(k)
                 PROVE  /\ xr_status'[cs2xr[k]] = "OPEN" /\ xr2cr[cs2xr[k]] = k
                        /\ cl[cs2xr[k]] = cur[k]
        BY <1>1, <1>17 DEF OpenOK, Established
    <2>1. /\ xr_status[cs2xr[k]] = "OPEN" /\ xr2cr[cs2xr[k]] = k /\ cl[cs2xr[k]] = cur[k]
          /\ cs2xr[k] \in Ids
        BY DEF OpenOK, DynTypeOK, TypeOK
    <2>2. k # i
        BY <1>7, CarriesHas DEF Established
    <2>3. cs2xr[k] # j
        BY <1>8, <2>1, <2>2
    <2> QED BY <1>10, <2>1, <2>3
<1>25. ConOK'
    BY <1>1, <1>2, <1>3, <1>11 DEF ConOK
<1> QED BY <1>12, <1>13, <1>14, <1>15, <1>16, <1>21, <1>22, <1>23, <1>24, <1>25

-----------------------------------------------------------------------------
(* xrdp reads what chansrv sent. *)

LEMMA XrDataStep ==
    ASSUME NEW cur, Inv(cur), XrData
    PROVE  Inv(cur)'
<1> DEFINE m == Head(to_xr)
           i == m.id
           j == cs2xr[i]
           n == Msg(m.type, j, m.app)
<1> USE DEF Inv
<1>1. /\ to_xr # <<>> /\ to_xr' = Tail(to_xr) /\ m.type \in {"first", "data"}
      /\ to_cl' = IF xr_status[j] = "OPEN" THEN Append(to_cl, n) ELSE to_cl
      /\ UNCHANGED <<appVars, csVars, xrVars, cl, to_cs, from_cl, linkVars, talliedVars>>
    BY DEF XrData
<1>2. /\ m \in Message /\ m \in Msgs(to_xr)
      /\ to_xr' \in Seq(Message) /\ Adds(to_xr', to_xr, m)
      /\ InOrder(to_xr', "open", "close")
      /\ i # 0 => ~Carries(to_xr', "open", i)
    BY <1>1, TakeXr
<1>3. /\ i \in Ids /\ i # 0 /\ m.app \in Apps /\ m.app = cur[i]
      /\ Has(to_xr, i) /\ ~Carries(to_xr, "open", i)
      /\ Carries(to_xr, "first", i) \/ Carries(to_xr, "data", i)
    <2>1. i \in Ids /\ m.app \in Apps /\ i # 0 /\ m.app = cur[i]
        BY <1>1, <1>2 DEF Message, ToXrOK
    <2> QED BY <1>1, <1>2, <2>1, CarriesHas DEF Adds
<1>4. j \in Ids
    BY <1>3 DEF DynTypeOK, TypeOK
<1>5. Linked(i) \/ (Stale(i) /\ j = 0)
    BY <1>3 DEF StageOK, Opening, Done, Stale
<1> HIDE DEF m, i, n
<1> USE DEF appVars, csVars, xrVars, linkVars, talliedVars
<1>6. /\ \A k : Has(to_xr', k) => Has(to_xr, k)
      /\ \A t, k : Carries(to_xr', t, k) => Carries(to_xr, t, k)
      /\ \A t, k : t \in {"open", "close"} /\ Carries(to_xr, t, k) => Carries(to_xr', t, k)
    BY <1>1, <1>2 DEF Adds
<1>7. ToXrOK(cur)'
    BY <1>1, <1>2 DEF ToXrOK, Adds
<1>8. AppsOK(cur)' /\ ToCsOK(cur)' /\ FromClOK(cur)' /\ MapsOK' /\ OwnChannelOnly'
    BY <1>1 DEF AppsOK, ToCsOK, FromClOK, MapsOK, Busy, OwnChannelOnly
<1>9. OpenOK(cur)'
    BY <1>1, <1>6 DEF OpenOK, Established
<1>10. CASE xr_status[j] # "OPEN"
    <2>1. to_cl' = to_cl
        BY <1>1, <1>10
    <2>2. DynTypeOK' /\ ToClOK(cur)' /\ ConOK'
        BY <1>1, <1>2, <2>1 DEF DynTypeOK, TypeOK, ToClOK, ConOK, Busy
    <2>3. StageOK'
        BY <1>1, <1>6, <2>1
           DEF StageOK, Opening, Linked, Done, Stale, Unlinked, Busy, Closing
    <2>4. ClientOK(cur)' /\ ClosingOK'
        BY <1>1, <1>6, <2>1 DEF ClientOK, ClosingOK, Closing, Busy
    <2> QED BY <1>7, <1>8, <1>9, <2>2, <2>3, <2>4
<1>11. CASE xr_status[j] = "OPEN"
    <2>1. Busy(j) /\ xr2cr[j] = i
        <3>1. Busy(j)
            BY <1>11 DEF Busy
        <3>2. j # 0
            BY <1>11 DEF DynTypeOK, TypeOK
        <3> QED BY <1>5, <3>1, <3>2 DEF Linked
    <2>2. to_cl' = Append(to_cl, n)
        BY <1>1, <1>11
    <2>3. n \in Message /\ n.type = m.type /\ n.id = j /\ n.app = m.app
        BY <1>1, <1>3, <1>4, MsgIsMessage DEF MsgTypes, n
    <2>4. ~Closing(j) /\ ~Carries(to_cl, "open", j)
        BY <1>3, <1>4, <1>11, <2>1 DEF ClosingOK, ClientOK
    <2> HIDE DEF j
    <2>5. to_cl' \in Seq(Message) /\ Adds(to_cl, to_cl', n)
        BY <2>2, <2>3, AppendAdds DEF DynTypeOK
    <2>6. InOrder(to_cl', "open", "close")
        BY <1>1, <2>2, <2>3, <2>4, AppendInOrder DEF DynTypeOK, ToClOK, Closing
    <2>7. DynTypeOK'
        BY <1>1, <1>2, <2>5 DEF DynTypeOK, TypeOK
    <2>8. ToClOK(cur)'
        BY <1>1, <1>3, <2>1, <2>3, <2>5, <2>6 DEF ToClOK, Adds
    <2>9. /\ \A k : Has(to_cl', k) <=> Has(to_cl, k) \/ k = j
          /\ \A t, k : t \in {"open", "close"} =>
                (Carries(to_cl', t, k) <=> Carries(to_cl, t, k))
        BY <1>1, <2>3, <2>5 DEF Adds
    <2>10. StageOK'
        BY <1>1, <1>6, <2>9
           DEF StageOK, Opening, Linked, Done, Stale, Unlinked, Busy, Closing
    <2>11. ClosingOK'
        BY <1>1, <1>6, <2>9 DEF ClosingOK, Closing
    <2>12. ClientOK(cur)'
        BY <1>1, <2>1, <2>4, <2>9 DEF ClientOK, Closing, Busy
    <2>13. ConOK'
        BY <1>1, <1>4, <2>1 DEF ConOK, Busy
    <2> QED BY <1>7, <1>8, <1>9, <2>7, <2>8, <2>10, <2>11, <2>12, <2>13
<1> QED BY <1>10, <1>11

LEMMA XrCloseStep ==
    ASSUME NEW cur, Inv(cur), XrClose
    PROVE  Inv(cur)'
<1> DEFINE m == Head(to_xr)
           i == m.id
           j == cs2xr[i]
           n == Msg("close", j, m.app)
<1> USE DEF Inv
<1>1. /\ to_xr # <<>> /\ to_xr' = Tail(to_xr) /\ m.type = "close"
      /\ IF xr_status[j] \notin {"OPEN", "OPEN_SENT"}
         THEN UNCHANGED <<xr_status, to_cl>>
         ELSE /\ xr_status' = [xr_status EXCEPT ![j] = "CLOSE_SENT"]
              /\ to_cl' = Append(to_cl, n)
      /\ UNCHANGED <<appVars, csVars, procs, xr2cr, cs2xr, cl, to_cs, from_cl, linkVars,
                     talliedVars>>
    BY DEF XrClose
<1>2. /\ m \in Message /\ m \in Msgs(to_xr)
      /\ to_xr' \in Seq(Message) /\ Adds(to_xr', to_xr, m)
      /\ InOrder(to_xr', "open", "close")
      /\ i # 0 => ~Carries(to_xr', "open", i) /\ ~Has(to_xr', i)
    BY <1>1, TakeXr
<1>3. /\ i \in Ids /\ m.app \in Apps /\ status[i] = "CLOSE_SENT" /\ Has(to_xr, i)
      /\ i # 0 => m.app = cur[i] /\ ~Carries(to_xr, "open", i)
    <2>1. i \in Ids /\ m.app \in Apps /\ Has(to_xr, i)
        BY <1>2 DEF Message, Has
    <2> QED BY <1>1, <1>2, <2>1 DEF Adds, ToXrOK
<1>4. j \in Ids
    BY <1>3 DEF DynTypeOK, TypeOK
<1>5. j = 0 \/ (i # 0 /\ Linked(i))
    BY <1>3 DEF StageOK, Opening, Done, Stale, MapsOK
<1> HIDE DEF m, i, n
<1> USE DEF appVars, csVars, linkVars, talliedVars
<1>6. /\ \A k : Has(to_xr', k) => Has(to_xr, k)
      /\ \A t, k : Carries(to_xr', t, k) => Carries(to_xr, t, k)
      /\ \A t, k : k # i /\ Carries(to_xr, t, k) => Carries(to_xr', t, k)
      /\ \A k : Carries(to_xr, "open", k) => Carries(to_xr', "open", k)
    BY <1>1, <1>2 DEF Adds, i
<1>7. ToXrOK(cur)'
    BY <1>1, <1>2 DEF ToXrOK, Adds
<1>8. AppsOK(cur)' /\ ToCsOK(cur)' /\ FromClOK(cur)' /\ OwnChannelOnly'
    BY <1>1 DEF AppsOK, ToCsOK, FromClOK, OwnChannelOnly
<1>9. ASSUME NEW k \in Ids, Established(k)' PROVE Established(k)
    BY <1>1, <1>6, <1>9 DEF Established
<1>10. CASE j = 0
    <2>1. to_cl' = to_cl /\ xr_status' = xr_status
        BY <1>1, <1>10 DEF DynTypeOK, TypeOK
    <2>2. DynTypeOK' /\ ToClOK(cur)' /\ ConOK' /\ MapsOK'
        BY <1>1, <1>2, <2>1 DEF DynTypeOK, TypeOK, ToClOK, ConOK, Busy, MapsOK
    <2>3. ~(i # 0 /\ Linked(i))
        BY <1>10 DEF Linked, Busy, DynTypeOK, TypeOK
    <2>4. StageOK'
        <3> SUFFICES ASSUME NEW k \in Ids
                     PROVE  /\ status'[k] = "CLOSED" =>
                                  ~Has(to_xr', k) /\ ~Has(to_cs', k) /\ Unlinked(k)'
                            /\ status'[k] # "CLOSED" /\ k # 0 =>
                                  Opening(k)' \/ Linked(k)' \/ Done(k)' \/ Stale(k)'
            BY DEF StageOK
        <3>1. CASE k = i
            BY <1>1, <1>3, <1>6, <2>1, <2>3, <3>1
               DEF StageOK, Opening, Done, Stale, Unlinked, Busy
        <3>2. CASE k # i
            BY <1>1, <1>6, <2>1, <3>2
               DEF StageOK, Opening, Linked, Done, Stale, Unlinked, Busy, Closing
        <3> QED BY <3>1, <3>2
    <2>5. ClientOK(cur)' /\ ClosingOK'
        BY <1>1, <1>6, <2>1 DEF ClientOK, ClosingOK, Closing, Busy
    <2>6. OpenOK(cur)'
        BY <1>1, <1>9, <2>1 DEF OpenOK
    <2> QED BY <1>7, <1>8, <2>2, <2>4, <2>5, <2>6
<1>11. CASE j # 0
    <2>1. i # 0 /\ Linked(i) /\ Busy(j) /\ xr2cr[j] = i
        BY <1>5, <1>11 DEF Linked
    <2>2. ~Closing(j) /\ xr_status[j] \in {"OPEN", "OPEN_SENT"}
        BY <1>3, <1>4, <2>1 DEF ClosingOK, Busy, DynTypeOK, TypeOK, Status
    <2>3. to_cl' = Append(to_cl, n) /\ xr_status' = [xr_status EXCEPT ![j] = "CLOSE_SENT"]
        BY <1>1, <2>2
    <2>4. n \in Message /\ n.type = "close" /\ n.id = j /\ n.app = m.app
        BY <1>3, <1>4, MsgIsMessage DEF MsgTypes, n
    <2> HIDE DEF j
    <2>5. to_cl' \in Seq(Message) /\ Adds(to_cl, to_cl', n)
        BY <2>3, <2>4, AppendAdds DEF DynTypeOK
    <2>6. InOrder(to_cl', "open", "close")
        BY <2>2, <2>3, <2>4, AppendInOrder DEF DynTypeOK, ToClOK, Closing
    <2>7. /\ xr_status \in [Ids -> Status] /\ xr_status' \in [Ids -> Status]
          /\ xr_status'[j] = "CLOSE_SENT" /\ xr_status'[0] = xr_status[0]
          /\ \A k \in Ids : k # j => xr_status'[k] = xr_status[k]
        BY <1>4, <1>11, <2>3, ZeroIsAnId DEF DynTypeOK, TypeOK, Status
    <2>8. \A k \in Ids : Busy(k)' <=> Busy(k)
        BY <2>1, <2>7 DEF Busy
    <2>9. DynTypeOK'
        BY <1>1, <1>2, <2>5, <2>7 DEF DynTypeOK, TypeOK
    <2>10. ToClOK(cur)'
        BY <1>1, <1>3, <2>1, <2>4, <2>5, <2>6 DEF ToClOK, Adds
    <2>11. MapsOK' /\ ConOK'
        BY <1>1, <1>4, <2>1, <2>8 DEF MapsOK, ConOK
    <2>12. /\ \A k : Has(to_cl', k) <=> Has(to_cl, k) \/ k = j
           /\ \A k : Carries(to_cl', "open", k) <=> Carries(to_cl, "open", k)
           /\ \A k : Carries(to_cl', "close", k) <=> Carries(to_cl, "close", k) \/ k = j
        BY <2>4, <2>5 DEF Adds
    <2>13. \A k \in Ids : Closing(k)' <=> Closing(k) \/ k = j
        BY <1>1, <2>12 DEF Closing
    <2>14. \A k \in Ids : Unlinked(k)' <=> Unlinked(k)
        BY <1>1, <2>8 DEF Unlinked
    <2>15. StageOK'
        <3> SUFFICES ASSUME NEW k \in Ids
                     PROVE  /\ status'[k] = "CLOSED" =>
                                  ~Has(to_xr', k) /\ ~Has(to_cs', k) /\ Unlinked(k)'
                            /\ status'[k] # "CLOSED" /\ k # 0 =>
                                  Opening(k)' \/ Linked(k)' \/ Done(k)' \/ Stale(k)'
            BY DEF StageOK
        <3>1. cs2xr[k] \in Ids
            BY DEF DynTypeOK, TypeOK
        <3>2. CASE k = i
            <4>1. Linked(k) /\ cs2xr[k] = j
                BY <2>1, <3>2 DEF j
            <4>2. Linked(k)'
                BY <1>1, <1>6, <2>8, <2>13, <3>1, <4>1 DEF Linked
            <4> QED BY <1>1, <1>3, <3>2, <4>2
        <3>3. CASE k # i
            <4>1. Linked(k) => Linked(k)'
                BY <1>1, <1>6, <2>8, <2>13, <3>1, <3>3 DEF Linked
            <4> QED BY <1>1, <1>6, <2>14, <3>3, <4>1 DEF StageOK, Opening, Done, Stale
        <3> QED BY <3>2, <3>3
    <2>16. ClosingOK'
        <3> SUFFICES ASSUME NEW k \in Ids
                     PROVE  /\ xr_status'[k] = "CLOSE_SENT" => Closing(k)'
                            /\ Closing(k)' => /\ status[xr2cr[k]] = "CLOSE_SENT"
                                              /\ ~Has(to_xr', xr2cr[k])
            BY <1>1 DEF ClosingOK
        <3>1. CASE k = j
            BY <1>2, <1>3, <2>1, <2>13, <3>1
        <3>2. CASE k # j
            BY <1>6, <2>7, <2>13, <3>2 DEF ClosingOK
        <3> QED BY <3>1, <3>2
    <2>17. ClientOK(cur)'
        BY <1>1, <2>1, <2>2, <2>7, <2>8, <2>12 DEF ClientOK, Closing
    <2>18. OpenOK(cur)'
        <3> SUFFICES ASSUME ~detached, NEW k \in Ids, Established(k)'
                     PROVE  /\ xr_status'[cs2xr[k]] = "OPEN" /\ xr2cr[cs2xr[k]] = k
                            /\ cl[cs2xr[k]] = cur[k]
            BY <1>1 DEF OpenOK
        <3>1. /\ xr_status[cs2xr[k]] = "OPEN" /\ xr2cr[cs2xr[k]] = k
              /\ cl[cs2xr[k]] = cur[k] /\ cs2xr[k] \in Ids
            BY <1>9 DEF OpenOK, DynTypeOK, TypeOK
        <3>2. k # i
            BY <1>1, <1>2, <1>3, <2>1, CarriesHas DEF Established, ToCsOK
        <3>3. cs2xr[k] # j
            BY <2>1, <3>1, <3>2
        <3> QED BY <2>7, <3>1, <3>3
    <2> QED BY <1>7, <1>8, <2>9, <2>10, <2>11, <2>15, <2>16, <2>17, <2>18
<1> QED BY <1>10, <1>11

\* xrdp never runs out of ids: with all of them in use they would stand for as many
\* ids of chansrv other than 0 and the one that is being opened.
LEMMA RoomForOpen ==
    ASSUME NEW cur, Inv(cur), NEW i \in Ids \ {0}, Unlinked(i)
    PROVE  Free(xr_status) # {}
<1> SUFFICES ASSUME Free(xr_status) = {} PROVE FALSE
    OBVIOUS
<1> DEFINE S == 1 .. MaxId
           T == S \ {i}
           f == [j \in S |-> xr2cr[j]]
<1>1. MaxId \in Nat /\ S = Ids \ {0} /\ i \in S
    BY DynAssumption DEF Ids
<1>2. \A j \in S : Busy(j)
    BY <1>1 DEF Free, Busy
<1>3. \A j \in S : xr2cr[j] \in T /\ cs2xr[xr2cr[j]] = j
    BY <1>1, <1>2 DEF Inv, MapsOK, DynTypeOK, TypeOK, Unlinked
<1>4. f \in [S -> T]
    BY <1>3
<1>5. IsFiniteSet(S) /\ Cardinality(S) = MaxId
    BY <1>1, FS_Interval
<1>6. IsFiniteSet(T) /\ Cardinality(T) = MaxId - 1
    BY <1>1, <1>5, FS_RemoveElement
<1>7. Cardinality(T) < Cardinality(S)
    BY <1>1, <1>5, <1>6
<1>8. \A x \in S : f[x] = xr2cr[x]
    OBVIOUS
<1> HIDE DEF S, T, f
<1>9. \E x, y \in S : x # y /\ f[x] = f[y]
    BY <1>4, <1>5, <1>6, <1>7, FS_PigeonHole
<1> QED BY <1>3, <1>8, <1>9

LEMMA XrOpenStep ==
    ASSUME NEW cur, Inv(cur), XrOpen
    PROVE  Inv(cur)'
<1> DEFINE m == Head(to_xr)
           i == m.id
           j == Min(Free(xr_status))
           n == Msg("open", j, m.app)
<1> USE DEF Inv
<1>1. /\ to_xr # <<>> /\ to_xr' = Tail(to_xr) /\ m.type = "open"
      /\ IF ~dvc \/ Free(xr_status) = {}
         THEN UNCHANGED <<xrVars, to_cl>>
         ELSE /\ xr_status' = [xr_status EXCEPT ![j] = "OPEN_SENT"]
              /\ procs' = [procs EXCEPT ![j] = TRUE]
              /\ xr2cr' = [xr2cr EXCEPT ![j] = i] /\ cs2xr' = [cs2xr EXCEPT ![i] = j]
              /\ to_cl' = Append(to_cl, n)
      /\ UNCHANGED <<appVars, csVars, cl, to_cs, from_cl, linkVars, talliedVars>>
    BY DEF XrOpen
<1>2. /\ m \in Message /\ m \in Msgs(to_xr)
      /\ to_xr' \in Seq(Message) /\ Adds(to_xr', to_xr, m)
      /\ InOrder(to_xr', "open", "close")
      /\ i # 0 => /\ ~Carries(to_xr', "open", i)
                  /\ \A t : t # "close" => ~Carries(to_xr', t, i)
    BY <1>1, TakeXr
<1>3. /\ i \in Ids /\ i # 0 /\ m.app \in Apps /\ m.app = cur[i] /\ m.app # None
      /\ Carries(to_xr, "open", i)
    BY <1>1, <1>2, CarriesHas, DynAssumption DEF Message, ToXrOK
<1>4. Opening(i) /\ Has(to_xr, i)
    BY <1>3, CarriesHas DEF StageOK, Linked, Done, Stale
<1> HIDE DEF m, i
<1> USE DEF appVars, csVars, linkVars, talliedVars
<1>5. /\ \A k : Has(to_xr', k) => Has(to_xr, k)
      /\ \A t, k : Carries(to_xr', t, k) => Carries(to_xr, t, k)
      /\ \A t, k : k # i /\ Carries(to_xr, t, k) => Carries(to_xr', t, k)
      /\ \A k : Carries(to_xr, "close", k) => Carries(to_xr', "close", k)
    BY <1>1, <1>2 DEF Adds, i
<1>6. ToXrOK(cur)'
    BY <1>1, <1>2 DEF ToXrOK, Adds
<1>7. AppsOK(cur)' /\ ToCsOK(cur)' /\ OwnChannelOnly'
    BY <1>1 DEF AppsOK, ToCsOK, OwnChannelOnly
<1>8. ASSUME NEW k \in Ids, Established(k)' PROVE Established(k) /\ k # i
    <2>1. Established(k)
        BY <1>1, <1>5, <1>8 DEF Established
    <2>2. k # i
        BY <1>1, <1>2, <1>3, <1>4, <1>8, CarriesHas DEF Established, Opening
    <2> QED BY <2>1, <2>2
<1>9. CASE ~dvc
    <2>1. UNCHANGED <<xr_status, procs, xr2cr, cs2xr, to_cl>>
        BY <1>1, <1>9 DEF xrVars
    <2>2. DynTypeOK' /\ ToClOK(cur)' /\ FromClOK(cur)' /\ MapsOK'
        BY <1>1, <1>2, <2>1 DEF DynTypeOK, TypeOK, ToClOK, FromClOK, MapsOK, Busy
    <2>3. ConOK'
        BY <1>1, <1>2, <2>1 DEF ConOK, Busy
    <2>4. StageOK'
        <3> SUFFICES ASSUME NEW k \in Ids
                     PROVE  /\ status'[k] = "CLOSED" =>
                                  ~Has(to_xr', k) /\ ~Has(to_cs', k) /\ Unlinked(k)'
                            /\ status'[k] # "CLOSED" /\ k # 0 =>
                                  Opening(k)' \/ Linked(k)' \/ Done(k)' \/ Stale(k)'
            BY DEF StageOK
        <3>1. CASE k = i
            <4>1. cs2xr[k] = 0 /\ Unlinked(k)'
                BY <1>1, <1>9, <2>1 DEF ConOK, Unlinked, Busy
            <4>2. Stale(k)'
                BY <1>1, <1>2, <1>3, <1>4, <1>9, <2>1, <3>1, <4>1, CarriesHas
                   DEF Opening, Stale
            <4> QED BY <1>1, <1>4, <3>1, <4>2 DEF Opening
        <3>2. CASE k # i
            BY <1>1, <1>5, <2>1, <3>2
               DEF StageOK, Opening, Linked, Done, Stale, Unlinked, Busy, Closing
        <3> QED BY <3>1, <3>2
    <2>5. ClientOK(cur)' /\ ClosingOK'
        BY <1>1, <1>5, <2>1 DEF ClientOK, ClosingOK, Closing, Busy
    <2>6. OpenOK(cur)'
        BY <1>1, <1>8, <2>1 DEF OpenOK
    <2> QED BY <1>6, <1>7, <2>2, <2>3, <2>4, <2>5, <2>6
<1>10. CASE dvc
    <2>1. Free(xr_status) # {}
        BY <1>3, <1>4, RoomForOpen DEF Opening
    <2>2. j \in Ids /\ j # 0 /\ xr_status[j] = "CLOSED"
        BY <2>1, FreeId
    <2>3. /\ xr_status' = [xr_status EXCEPT ![j] = "OPEN_SENT"]
          /\ procs' = [procs EXCEPT ![j] = TRUE]
          /\ xr2cr' = [xr2cr EXCEPT ![j] = i] /\ cs2xr' = [cs2xr EXCEPT ![i] = j]
          /\ to_cl' = Append(to_cl, n)
        BY <1>1, <1>10, <2>1
    <2>4. n \in Message /\ n.type = "open" /\ n.id = j /\ n.app = m.app
        BY <1>3, <2>2, MsgIsMessage DEF MsgTypes
    <2> HIDE DEF j, n
    <2>5. /\ ~Busy(j) /\ cl[j] = None /\ ~Has(to_cl, j) /\ ~Has(from_cl, j)
        BY <2>2 DEF Busy, ClientOK
    <2>6. to_cl' \in Seq(Message) /\ Adds(to_cl, to_cl', n)
        BY <2>3, <2>4, AppendAdds DEF DynTypeOK
    <2>7. InOrder(to_cl', "open", "close")
        BY <2>3, <2>4, <2>5, CarriesHas, AppendInOrder DEF DynTypeOK, ToClOK
    <2>8. /\ xr_status \in [Ids -> Status] /\ xr_status' \in [Ids -> Status]
          /\ xr_status'[j] = "OPEN_SENT" /\ xr_status'[0] = xr_status[0]
          /\ \A k \in Ids : k # j => xr_status'[k] = xr_status[k]
        BY <2>2, <2>3, ZeroIsAnId DEF DynTypeOK, TypeOK, Status
    <2>9. /\ procs' \in [Ids -> BOOLEAN] /\ procs'[j]
          /\ \A k \in Ids : k # j => procs'[k] = procs[k]
        BY <2>2, <2>3 DEF DynTypeOK, TypeOK
    <2>10. /\ xr2cr' \in [Ids -> Ids] /\ xr2cr'[j] = i
           /\ \A k \in Ids : k # j => xr2cr'[k] = xr2cr[k]
        BY <1>3, <2>2, <2>3 DEF DynTypeOK, TypeOK
    <2>11. /\ cs2xr' \in [Ids -> Ids] /\ cs2xr'[i] = j
           /\ \A k \in Ids : k # i => cs2xr'[k] = cs2xr[k]
        BY <1>3, <2>2, <2>3 DEF DynTypeOK, TypeOK
    <2>12. \A k \in Ids : Busy(k)' <=> Busy(k) \/ k = j
        BY <2>8 DEF Busy
    <2>13. DynTypeOK'
        BY <1>1, <1>2, <2>6, <2>8, <2>9, <2>10, <2>11 DEF DynTypeOK, TypeOK
    <2>14. \A k \in Ids : Busy(k) => k # j /\ xr2cr[k] # i /\ xr2cr'[k] = xr2cr[k]
        BY <1>4, <2>5, <2>10 DEF Opening, Unlinked
    <2>15. ToClOK(cur)' /\ FromClOK(cur)'
        <3>1. ASSUME NEW p \in Msgs(to_cl) \cup Msgs(from_cl)
              PROVE  xr2cr'[p.id] = xr2cr[p.id]
            <4>1. p.id \in Ids /\ (Has(to_cl, p.id) \/ Has(from_cl, p.id))
                BY <3>1, InQueue DEF DynTypeOK
            <4> QED BY <2>14, <4>1, Mentioned
        <3>2. ToClOK(cur)'
            BY <1>1, <1>3, <2>4, <2>6, <2>7, <2>10, <3>1 DEF ToClOK, Adds
        <3>3. FromClOK(cur)'
            BY <1>1, <3>1 DEF FromClOK
        <3> QED BY <3>2, <3>3
    <2>16. MapsOK'
        <3>1. cs2xr'[0] = 0
            BY <1>3, <2>11, ZeroIsAnId DEF MapsOK
        <3>2. ASSUME NEW k \in Ids, Busy(k)'
              PROVE  procs'[k] /\ xr2cr'[k] # 0 /\ cs2xr'[xr2cr'[k]] = k
            <4>1. CASE k = j
                BY <1>3, <2>9, <2>10, <2>11, <4>1
            <4>2. CASE k # j
                <5>1. Busy(k) /\ xr2cr'[k] = xr2cr[k] /\ xr2cr[k] \in Ids /\ xr2cr[k] # i
                    BY <2>12, <2>14, <3>2, <4>2 DEF DynTypeOK, TypeOK
                <5> QED BY <2>9, <2>11, <4>2, <5>1 DEF MapsOK
            <4> QED BY <4>1, <4>2
        <3> QED BY <3>1, <3>2 DEF MapsOK
    <2>17. /\ \A k : Has(to_cl', k) <=> Has(to_cl, k) \/ k = j
           /\ \A k : Carries(to_cl', "open", k) <=> Carries(to_cl, "open", k) \/ k = j
           /\ \A k : Carries(to_cl', "close", k) <=> Carries(to_cl, "close", k)
        BY <2>4, <2>6 DEF Adds
    <2>18. \A k \in Ids : Closing(k)' <=> Closing(k)
        BY <1>1, <2>17 DEF Closing
    <2>19. \A k \in Ids : k # i => (Unlinked(k)' <=> Unlinked(k))
        BY <2>10, <2>12, <2>14 DEF Unlinked
    <2>20. StageOK'
        <3> SUFFICES ASSUME NEW k \in Ids
                     PROVE  /\ status'[k] = "CLOSED" =>
                                  ~Has(to_xr', k) /\ ~Has(to_cs', k) /\ Unlinked(k)'
                            /\ status'[k] # "CLOSED" /\ k # 0 =>
                                  Opening(k)' \/ Linked(k)' \/ Done(k)' \/ Stale(k)'
            BY DEF StageOK
        <3>1. CASE k = i
            <4>1. Linked(k)'
                BY <1>1, <1>2, <1>3, <1>4, <1>5, <2>2, <2>10, <2>11, <2>12, <3>1, CarriesHas
                   DEF Opening, Linked
            <4> QED BY <1>1, <1>4, <3>1, <4>1 DEF Opening
        <3>2. CASE k # i
            <4>1. cs2xr[k] \in Ids /\ cs2xr'[k] = cs2xr[k]
                BY <2>11, <3>2 DEF DynTypeOK, TypeOK
            <4>2. Linked(k) => Linked(k)'
                BY <1>1, <1>5, <2>12, <2>14, <2>18, <3>2, <4>1 DEF Linked
            <4> QED BY <1>1, <1>5, <2>19, <3>2, <4>1, <4>2 DEF StageOK, Opening, Done, Stale
        <3> QED BY <3>1, <3>2
    <2>21. ClosingOK'
        <3>1. ASSUME NEW k \in Ids, Closing(k) PROVE Busy(k) /\ k # j
            BY <2>5, <3>1, CarriesHas, Mentioned DEF Closing
        <3>2. ASSUME NEW k \in Ids, Closing(k)
              PROVE  status[xr2cr'[k]] = "CLOSE_SENT" /\ ~Has(to_xr', xr2cr'[k])
            BY <1>5, <2>14, <3>1, <3>2 DEF ClosingOK
        <3>3. ASSUME NEW k \in Ids, xr_status'[k] = "CLOSE_SENT" PROVE Closing(k)
            BY <2>8, <3>3 DEF ClosingOK
        <3> QED BY <1>1, <2>18, <3>2, <3>3 DEF ClosingOK
    <2>22. ClientOK(cur)'
        <3> SUFFICES ASSUME NEW k \in Ids
                     PROVE  /\ ~Busy(k)' => cl[k] = None /\ ~Has(to_cl', k) /\ ~Has(from_cl, k)
                            /\ Busy(k)' => \/ Carries(to_cl', "open", k) \/ cl[k] # None
                                           \/ Carries(from_cl, "closed", k)
                            /\ cl[k] # None => cl[k] = cur[xr2cr'[k]]
                            /\ Carries(to_cl', "open", k) =>
                                  /\ cl[k] = None /\ ~Has(from_cl, k)
                                  /\ ~Has(to_cs, xr2cr'[k]) /\ xr_status'[k] # "OPEN"
                            /\ Carries(from_cl, "opened", k) => ~Has(to_cs, xr2cr'[k])
                            /\ Carries(from_cl, "closed", k) => cl[k] = None /\ ~Has(to_cl', k)
            BY <1>1 DEF ClientOK
        <3>1. CASE k = j
            BY <1>4, <2>5, <2>8, <2>10, <2>12, <2>17, <3>1, CarriesHas DEF Opening
        <3>2. CASE k # j
            BY <2>8, <2>10, <2>12, <2>17, <3>2 DEF ClientOK
        <3> QED BY <3>1, <3>2
    <2>23. OpenOK(cur)'
        <3> SUFFICES ASSUME ~detached, NEW k \in Ids, Established(k)'
                     PROVE  /\ xr_status'[cs2xr'[k]] = "OPEN" /\ xr2cr'[cs2xr'[k]] = k
                            /\ cl[cs2xr'[k]] = cur[k]
            BY <1>1 DEF OpenOK
        <3>1. /\ xr_status[cs2xr[k]] = "OPEN" /\ xr2cr[cs2xr[k]] = k
              /\ cl[cs2xr[k]] = cur[k] /\ cs2xr[k] \in Ids /\ cs2xr'[k] = cs2xr[k]
            BY <1>8, <2>11 DEF OpenOK, DynTypeOK, TypeOK
        <3>2. cs2xr[k] # j
            BY <2>2, <3>1
        <3> QED BY <2>8, <2>10, <3>1, <3>2
    <2>24. ConOK'
        BY <1>1, <1>2, <1>10 DEF ConOK
    <2> QED BY <1>6, <1>7, <2>13, <2>15, <2>16, <2>20, <2>21, <2>22, <2>23, <2>24
<1> QED BY <1>9, <1>10 DEF DynTypeOK, TypeOK

-----------------------------------------------------------------------------
(* Applications come, write and go. *)

\* ApiOpenFails, ApiDisconnect and ApiWriteFails: the id is the application's own,
\* or it is 0, which stands for nothing.
LEMMA DisconnectStep ==
    ASSUME NEW cur, Inv(cur), NEW a \in Apps, app[a] # "gone", Disconnect(a),
           UNCHANGED <<chan_id, xrVars, cl, to_cs, to_cl, from_cl, linkVars, talliedVars>>
    PROVE  Inv(cur)'
<1> DEFINE i == chan_id[a]
           n == Msg("close", i, a)
<1> USE DEF Inv
<1> USE DEF xrVars, linkVars, talliedVars
<1>1. /\ app' = [app EXCEPT ![a] = "gone"]
      /\ to_xr' = IF con = "up" THEN to_xr \o <<n>> ELSE to_xr
      /\ status' = IF con = "down" THEN status ELSE [status EXCEPT ![i] = "CLOSE_SENT"]
      /\ api_trans' = [k \in Ids |-> IF api_trans[k] = a THEN None ELSE api_trans[k]]
    BY DEF Disconnect, Write
<1>2. i \in Ids
    BY DEF DynTypeOK, TypeOK
<1>3. \A k \in Ids : api_trans[k] = a => k = i
    BY DynAssumption DEF AppsOK
<1>4. app[a] = "idle" \/ api_trans[i] = a
    BY DEF AppsOK, DynTypeOK, TypeOK
<1>5. i = 0 \/ (cur[i] = a /\ status[i] \in {"OPEN_SENT", "OPEN"} /\ api_trans[i] = a)
    BY <1>2, <1>4, DynAssumption DEF AppsOK
<1>6. i = 0 => api_trans[i] = None
    BY <1>2 DEF AppsOK
<1>7. n \in Message /\ n.type = "close" /\ n.id = i /\ n.app = a
    BY <1>2, MsgIsMessage DEF MsgTypes
<1> HIDE DEF i, n
<1>8. /\ app' \in [Apps -> {"idle", "asking", "open", "leaked", "gone"}]
      /\ app'[a] = "gone" /\ \A b \in Apps : b # a => app'[b] = app[b]
    BY <1>1 DEF DynTypeOK, TypeOK
<1>9. /\ api_trans' \in [Ids -> Apps \cup {None}] /\ api_trans'[i] = None
      /\ \A k \in Ids : k # i => api_trans'[k] = api_trans[k]
    BY <1>1, <1>2, <1>3, <1>5, <1>6 DEF DynTypeOK, TypeOK
<1>10. /\ status \in [Ids -> Status] /\ status' \in [Ids -> Status]
       /\ con # "down" => status'[i] = "CLOSE_SENT"
       /\ con = "down" => status' = status
       /\ \A k \in Ids : k # i => status'[k] = status[k]
    BY <1>1, <1>2 DEF DynTypeOK, TypeOK, Status
<1>11. /\ to_xr' \in Seq(Message) /\ InOrder(to_xr', "open", "close")
       /\ con = "up" => Adds(to_xr, to_xr', n)
       /\ con # "up" => to_xr' = to_xr
    <2>1. CASE con # "up"
        BY <1>1, <2>1 DEF DynTypeOK, ToXrOK
    <2>2. CASE con = "up"
        <3>1. to_xr' = Append(to_xr, n)
            BY <1>1, <1>7, <2>2 DEF DynTypeOK
        <3>2. to_xr' \in Seq(Message) /\ Adds(to_xr, to_xr', n)
            BY <1>7, <3>1, AppendAdds DEF DynTypeOK
        <3>3. i = 0 \/ ~Carries(to_xr, "close", i)
            BY <1>5, CarriesHas DEF ToXrOK
        <3>4. InOrder(to_xr', "open", "close")
            BY <1>7, <3>1, <3>3, AppendInOrder DEF DynTypeOK, ToXrOK
        <3> QED BY <2>2, <3>2, <3>4
    <2> QED BY <2>1, <2>2
<1>12. DynTypeOK'
    <2>1. status'[0] \in {"CLOSED", "CLOSE_SENT"}
        BY <1>2, <1>10, ZeroIsAnId DEF DynTypeOK, TypeOK
    <2> QED BY <1>8, <1>9, <1>10, <1>11, <2>1 DEF DynTypeOK, TypeOK
<1>13. ToCsOK(cur)' /\ ToClOK(cur)' /\ FromClOK(cur)' /\ MapsOK' /\ ClientOK(cur)' /\ OwnChannelOnly'
    BY DEF ToCsOK, ToClOK, FromClOK, MapsOK, ClientOK, Busy, OwnChannelOnly
<1>14. AppsOK(cur)'
    <2>1. ASSUME NEW b \in Apps
          PROVE  /\ app'[b] = "idle" => chan_id[b] = 0
                 /\ app'[b] \in {"asking", "open", "leaked"} => api_trans'[chan_id[b]] = b
        <3>1. CASE b = a
            BY <1>8, <3>1
        <3>2. CASE b # a
            <4>1. app'[b] = app[b] /\ chan_id[b] \in Ids
                BY <1>8, <3>2 DEF DynTypeOK, TypeOK
            <4>2. api_trans[chan_id[b]] = b => chan_id[b] # i
                BY <1>5, <1>6, <3>2, DynAssumption
            <4> QED BY <1>9, <4>1, <4>2 DEF AppsOK
        <3> QED BY <3>1, <3>2
    <2>2. ASSUME NEW k \in Ids, api_trans'[k] # None
          PROVE  /\ k # 0 /\ cur[k] = api_trans'[k] /\ chan_id[cur[k]] = k
                 /\ \/ app'[cur[k]] = "asking" /\ status'[k] = "OPEN_SENT"
                    \/ app'[cur[k]] \in {"open", "leaked"} /\ status'[k] = "OPEN"
        <3>1. k # i /\ api_trans'[k] = api_trans[k]
            BY <1>9, <2>2
        <3>2. cur[k] = api_trans[k] /\ cur[k] \in Apps /\ cur[k] # a
            BY <1>3, <2>2, <3>1 DEF AppsOK, DynTypeOK, TypeOK
        <3> QED BY <1>8, <1>10, <2>2, <3>1, <3>2 DEF AppsOK
    <2>3. ASSUME ~detached, NEW k \in Ids, status'[k] \in {"OPEN_SENT", "OPEN"}
          PROVE  api_trans'[k] # None
        BY <1>9, <1>10, <2>3 DEF AppsOK, ConOK
    <2> QED BY <2>1, <2>2, <2>3 DEF AppsOK
<1>15. /\ \A k : Has(to_xr', k) => Has(to_xr, k) \/ (k = i /\ con = "up")
       /\ \A t, k : t # "close" => (Carries(to_xr', t, k) <=> Carries(to_xr, t, k))
       /\ \A k : Carries(to_xr, "close", k) => Carries(to_xr', "close", k)
       /\ con = "up" => Carries(to_xr', "close", i)
    BY <1>7, <1>11 DEF Adds
<1>16. ToXrOK(cur)'
    <2>1. ASSUME NEW p \in Msgs(to_xr')
          PROVE  /\ p.type \in {"open", "first", "data", "close"}
                 /\ IF p.id = 0 THEN p.type = "close" ELSE p.app = cur[p.id]
                 /\ p.type = "close" => status'[p.id] = "CLOSE_SENT"
        <3>1. CASE p \in Msgs(to_xr)
            <4>1. p.id \in Ids
                BY <3>1, InQueue DEF DynTypeOK
            <4>2. p.type = "close" => status[p.id] = "CLOSE_SENT"
                BY <3>1 DEF ToXrOK
            <4>3. p.type = "close" => status'[p.id] = "CLOSE_SENT"
                BY <1>10, <4>1, <4>2
            <4> QED BY <3>1, <4>3 DEF ToXrOK
        <3>2. CASE p = n /\ con = "up"
            BY <1>5, <1>7, <1>10, <3>2
        <3> QED BY <1>11, <3>1, <3>2 DEF Adds
    <2> QED BY <1>11, <2>1 DEF ToXrOK
<1>17. \A k \in Ids : /\ Closing(k)' <=> Closing(k)
                      /\ Unlinked(k)' <=> Unlinked(k)
                      /\ Busy(k)' <=> Busy(k)
    BY DEF Closing, Unlinked, Busy
<1>18. StageOK'
    <2> SUFFICES ASSUME NEW k \in Ids
                 PROVE  /\ status'[k] = "CLOSED" =>
                              ~Has(to_xr', k) /\ ~Has(to_cs', k) /\ Unlinked(k)'
                        /\ status'[k] # "CLOSED" /\ k # 0 =>
                              Opening(k)' \/ Linked(k)' \/ Done(k)' \/ Stale(k)'
        BY DEF StageOK
    <2>1. cs2xr[k] \in Ids
        BY DEF DynTypeOK, TypeOK
    <2>2. CASE k # i
        <3>1. Linked(k) => Linked(k)'
            BY <1>10, <1>15, <1>17, <2>1, <2>2 DEF Linked
        <3> QED BY <1>10, <1>15, <1>17, <2>2, <3>1 DEF StageOK, Opening, Done, Stale
    <2>3. CASE k = i /\ i = 0
        BY <1>10, <1>15, <1>17, <2>3 DEF StageOK
    <2>4. CASE k = i /\ i # 0
        <3>1. status[k] \in {"OPEN_SENT", "OPEN"} /\ status'[k] # "CLOSED"
            BY <1>5, <1>10, <2>4
        <3>2. Opening(k) \/ Linked(k) \/ Stale(k)
            BY <2>4, <3>1 DEF StageOK, Done
        <3>3. Stale(k) => Stale(k)'
            BY <1>15, <1>17 DEF Stale
        <3>4. ASSUME Opening(k) \/ Linked(k) PROVE con = "up"
            BY <2>1, <3>4, CarriesHas DEF ConOK, Opening, Linked, Has, Msgs
        <3>5. Opening(k) => Opening(k)'
            BY <1>10, <1>15, <1>17, <2>4, <3>4 DEF Opening
        <3>6. Linked(k) => Linked(k)'
            BY <1>10, <1>15, <1>17, <2>1, <2>4, <3>4 DEF Linked
        <3> QED BY <3>1, <3>2, <3>3, <3>5, <3>6
    <2> QED BY <2>2, <2>3, <2>4
<1>19. ClosingOK'
    <2>1. ASSUME NEW k \in Ids, Closing(k)
          PROVE  status'[xr2cr[k]] = "CLOSE_SENT" /\ ~Has(to_xr', xr2cr[k])
        <3>1. Busy(k)
            BY <2>1, CarriesHas, Mentioned DEF Closing
        <3>2. xr2cr[k] \in Ids \ {0} /\ status[xr2cr[k]] = "CLOSE_SENT"
            BY <2>1, <3>1, BusyLinked DEF ClosingOK
        <3>3. xr2cr[k] # i
            BY <1>5, <3>2
        <3> QED BY <1>10, <1>15, <2>1, <3>2, <3>3 DEF ClosingOK
    <2> QED BY <1>17, <2>1 DEF ClosingOK
<1>20. OpenOK(cur)'
    <2>1. ASSUME NEW k \in Ids, Established(k)' PROVE Established(k)
        BY <1>10, <1>15, <2>1 DEF Established
    <2> QED BY <2>1 DEF OpenOK
<1>21. ConOK'
    BY <1>11, <1>17 DEF ConOK
<1> QED BY <1>12, <1>13, <1>14, <1>16, <1>18, <1>19, <1>20, <1>21

LEMMA ApiOpenStep ==
    ASSUME NEW cur, Inv(cur), NEW a \in Apps, ApiOpen(a)
    PROVE  \E new \in [Ids -> Apps \cup {None}] : Inv(new)'
<1> DEFINE i == Min(Free(status))
           n == Msg("open", i, a)
<1> USE DEF Inv
<1>1. /\ app[a] = "idle" /\ con # "down" /\ Free(status) # {}
      /\ chan_id' = [chan_id EXCEPT ![a] = i] /\ status' = [status EXCEPT ![i] = "OPEN_SENT"]
      /\ api_trans' = [api_trans EXCEPT ![i] = a] /\ app' = [app EXCEPT ![a] = "asking"]
      /\ to_xr' = IF con = "up" THEN to_xr \o <<n>> ELSE to_xr
      /\ UNCHANGED <<xrVars, cl, to_cs, to_cl, from_cl, linkVars, talliedVars>>
    BY DEF ApiOpen, Write
<1>2. i \in Ids /\ i # 0 /\ status[i] = "CLOSED"
    BY <1>1, FreeId
<1>3. n \in Message /\ n.type = "open" /\ n.id = i /\ n.app = a
    BY <1>2, MsgIsMessage DEF MsgTypes
<1>4. PICK new \in [Ids -> Apps \cup {None}] :
          new[i] = a /\ \A k \in Ids : k # i => new[k] = cur[k]
    <2>1. /\ [cur EXCEPT ![i] = a] \in [Ids -> Apps \cup {None}]
          /\ [cur EXCEPT ![i] = a][i] = a
          /\ \A k \in Ids : k # i => [cur EXCEPT ![i] = a][k] = cur[k]
        BY <1>2 DEF AppsOK
    <2> QED BY <2>1
<1> HIDE DEF i, n
<1> USE DEF xrVars, linkVars, talliedVars
<1>5. ~Has(to_xr, i) /\ ~Has(to_cs, i) /\ Unlinked(i)
    BY <1>2 DEF StageOK
<1>6. /\ app' \in [Apps -> {"idle", "asking", "open", "leaked", "gone"}]
      /\ app'[a] = "asking" /\ \A b \in Apps : b # a => app'[b] = app[b]
    BY <1>1 DEF DynTypeOK, TypeOK
<1>7. /\ chan_id' \in [Apps -> Ids]
      /\ chan_id'[a] = i /\ \A b \in Apps : b # a => chan_id'[b] = chan_id[b]
    BY <1>1, <1>2 DEF DynTypeOK, TypeOK
<1>8. /\ api_trans' \in [Ids -> Apps \cup {None}] /\ api_trans'[i] = a
      /\ \A k \in Ids : k # i => api_trans'[k] = api_trans[k]
    BY <1>1, <1>2 DEF DynTypeOK, TypeOK
<1>9. /\ status \in [Ids -> Status] /\ status' \in [Ids -> Status] /\ status'[i] = "OPEN_SENT"
      /\ status'[0] = status[0] /\ \A k \in Ids : k # i => status'[k] = status[k]
    BY <1>1, <1>2, ZeroIsAnId DEF DynTypeOK, TypeOK, Status
<1>10. /\ to_xr' \in Seq(Message) /\ InOrder(to_xr', "open", "close")
       /\ con = "up" => Adds(to_xr, to_xr', n)
       /\ con # "up" => to_xr' = to_xr
    <2>1. CASE con # "up"
        BY <1>1, <2>1 DEF DynTypeOK, ToXrOK
    <2>2. CASE con = "up"
        <3>1. to_xr' = Append(to_xr, n)
            BY <1>1, <1>3, <2>2 DEF DynTypeOK
        <3>2. to_xr' \in Seq(Message) /\ Adds(to_xr, to_xr', n)
            BY <1>3, <3>1, AppendAdds DEF DynTypeOK
        <3>3. InOrder(to_xr', "open", "close")
            BY <1>3, <1>5, <3>1, CarriesHas, AppendInOrder DEF DynTypeOK, ToXrOK
        <3> QED BY <2>2, <3>2, <3>3
    <2> QED BY <2>1, <2>2
<1>11. DynTypeOK'
    BY <1>1, <1>6, <1>7, <1>8, <1>9, <1>10 DEF DynTypeOK, TypeOK
<1>12. MapsOK' /\ OwnChannelOnly'
    BY <1>1 DEF MapsOK, Busy, OwnChannelOnly
<1>13. AppsOK(new)'
    <2>1. ASSUME NEW b \in Apps
          PROVE  /\ app'[b] = "idle" => chan_id'[b] = 0
                 /\ app'[b] \in {"asking", "open", "leaked"} => api_trans'[chan_id'[b]] = b
        <3>1. CASE b = a
            BY <1>6, <1>7, <1>8, <3>1
        <3>2. CASE b # a
            <4>1. app'[b] = app[b] /\ chan_id'[b] = chan_id[b] /\ chan_id[b] \in Ids
                BY <1>6, <1>7, <3>2 DEF DynTypeOK, TypeOK
            <4>2. api_trans[chan_id[b]] = b => chan_id[b] # i
                BY <1>2, <4>1, DynAssumption DEF AppsOK
            <4> QED BY <1>8, <4>1, <4>2 DEF AppsOK
        <3> QED BY <3>1, <3>2
    <2>2. ASSUME NEW k \in Ids, api_trans'[k] # None
          PROVE  /\ k # 0 /\ new[k] = api_trans'[k] /\ chan_id'[new[k]] = k
                 /\ \/ app'[new[k]] = "asking" /\ status'[k] = "OPEN_SENT"
                    \/ app'[new[k]] \in {"open", "leaked"} /\ status'[k] = "OPEN"
        <3>1. CASE k = i
            BY <1>2, <1>4, <1>6, <1>7, <1>8, <1>9, <3>1
        <3>2. CASE k # i
            <4>1. api_trans'[k] = api_trans[k] /\ new[k] = cur[k] /\ status'[k] = status[k]
                BY <1>4, <1>8, <1>9, <3>2
            <4>2. /\ k # 0 /\ cur[k] = api_trans[k] /\ chan_id[cur[k]] = k /\ cur[k] \in Apps
                  /\ \/ app[cur[k]] = "asking" /\ status[k] = "OPEN_SENT"
                     \/ app[cur[k]] \in {"open", "leaked"} /\ status[k] = "OPEN"
                BY <2>2, <4>1 DEF AppsOK, DynTypeOK, TypeOK
            <4>3. cur[k] # a
                BY <1>1, <4>2
            <4> QED BY <1>6, <1>7, <4>1, <4>2, <4>3
        <3> QED BY <3>1, <3>2
    <2>3. ASSUME ~detached, NEW k \in Ids, status'[k] \in {"OPEN_SENT", "OPEN"}
          PROVE  api_trans'[k] # None
        BY <1>8, <1>9, <2>3, DynAssumption DEF AppsOK
    <2> QED BY <1>1, <1>4, <2>1, <2>2, <2>3 DEF AppsOK
<1>14. /\ \A k : Has(to_xr', k) => Has(to_xr, k) \/ k = i
       /\ \A t, k : k # i => (Carries(to_xr', t, k) <=> Carries(to_xr, t, k))
       /\ \A t : t # "open" => ~Carries(to_xr', t, i)
       /\ con = "up" => Carries(to_xr', "open", i)
    BY <1>3, <1>5, <1>10, CarriesHas DEF Adds
<1>15. \A k \in Ids : Busy(k) => xr2cr[k] # i /\ xr2cr[k] \in Ids /\ new[xr2cr[k]] = cur[xr2cr[k]]
    BY <1>4, <1>5 DEF Unlinked, DynTypeOK, TypeOK
<1>16. ToXrOK(new)'
    <2>1. ASSUME NEW p \in Msgs(to_xr')
          PROVE  /\ p.type \in {"open", "first", "data", "close"}
                 /\ IF p.id = 0 THEN p.type = "close" ELSE p.app = new[p.id]
                 /\ p.type = "close" => status'[p.id] = "CLOSE_SENT"
        <3>1. CASE p \in Msgs(to_xr)
            <4>1. p.id \in Ids /\ p.id # i
                BY <1>5, <3>1, InQueue DEF DynTypeOK
            <4>2. new[p.id] = cur[p.id] /\ status'[p.id] = status[p.id]
                BY <1>4, <1>9, <4>1
            <4> QED BY <3>1, <4>2 DEF ToXrOK
        <3>2. CASE p = n
            BY <1>2, <1>3, <1>4, <3>2
        <3> QED BY <1>10, <3>1, <3>2 DEF Adds
    <2> QED BY <1>10, <2>1 DEF ToXrOK
<1>17. ToCsOK(new)'
    <2>1. ASSUME NEW p \in Msgs(to_cs) PROVE new[p.id] = cur[p.id]
        <3>1. p.id \in Ids /\ p.id # i
            BY <1>5, InQueue DEF DynTypeOK
        <3> QED BY <1>4, <3>1
    <2> QED BY <1>1, <2>1 DEF ToCsOK
<1>18. ToClOK(new)' /\ FromClOK(new)'
    <2>1. ASSUME NEW p \in Msgs(to_cl) \cup Msgs(from_cl)
          PROVE  new[xr2cr[p.id]] = cur[xr2cr[p.id]]
        <3>1. p.id \in Ids /\ (Has(to_cl, p.id) \/ Has(from_cl, p.id))
            BY <2>1, InQueue DEF DynTypeOK
        <3> QED BY <1>15, <3>1, Mentioned
    <2> QED BY <1>1, <2>1 DEF ToClOK, FromClOK
<1>19. \A k \in Ids : /\ Closing(k)' <=> Closing(k)
                      /\ Unlinked(k)' <=> Unlinked(k)
                      /\ Busy(k)' <=> Busy(k)
    BY <1>1 DEF Closing, Unlinked, Busy
<1>20. ClientOK(new)'
    <2>1. \A k \in Ids : cl[k] # None => new[xr2cr[k]] = cur[xr2cr[k]]
        BY <1>15 DEF ClientOK
    <2> QED BY <1>1, <1>19, <2>1 DEF ClientOK
<1>21. ClosingOK'
    <2>1. ASSUME NEW k \in Ids, Closing(k)
          PROVE  status'[xr2cr[k]] = "CLOSE_SENT" /\ ~Has(to_xr', xr2cr[k])
        <3>1. Busy(k)
            BY <2>1, CarriesHas, Mentioned DEF Closing
        <3> QED BY <1>9, <1>14, <1>15, <2>1, <3>1 DEF ClosingOK
    <2> QED BY <1>1, <1>19, <2>1 DEF ClosingOK
<1>22. StageOK'
    <2> SUFFICES ASSUME NEW k \in Ids
                 PROVE  /\ status'[k] = "CLOSED" =>
                              ~Has(to_xr', k) /\ ~Has(to_cs', k) /\ Unlinked(k)'
                        /\ status'[k] # "CLOSED" /\ k # 0 =>
                              Opening(k)' \/ Linked(k)' \/ Done(k)' \/ Stale(k)'
        BY DEF StageOK
    <2>1. cs2xr[k] \in Ids
        BY DEF DynTypeOK, TypeOK
    <2>2. CASE k # i
        <3>1. Linked(k) => Linked(k)'
            BY <1>1, <1>9, <1>14, <1>19, <2>1, <2>2 DEF Linked
        <3> QED BY <1>1, <1>9, <1>14, <1>19, <2>2, <3>1 DEF StageOK, Opening, Done, Stale
    <2>3. CASE k = i /\ con = "up"
        BY <1>1, <1>5, <1>9, <1>14, <1>19, <2>3 DEF Opening
    <2>4. CASE k = i /\ con # "up"
        BY <1>1, <1>5, <1>9, <1>10, <1>19, <2>4, CarriesHas DEF Stale, ConOK
    <2> QED BY <2>2, <2>3, <2>4
<1>23. OpenOK(new)'
    <2>1. ASSUME NEW k \in Ids, Established(k)' PROVE Established(k) /\ k # i
        <3>1. k # i
            BY <1>1, <1>5, <1>9, <1>14, <2>1, CarriesHas DEF Established
        <3> QED BY <1>1, <1>9, <1>14, <2>1, <3>1 DEF Established
    <2> QED BY <1>1, <1>4, <2>1 DEF OpenOK
<1>24. ConOK'
    BY <1>1, <1>10, <1>19 DEF ConOK
<1>25. Inv(new)'
    BY <1>11, <1>12, <1>13, <1>16, <1>17, <1>18, <1>20, <1>21, <1>22, <1>23, <1>24
<1> HIDE DEF Inv
<1> QED BY <1>4, <1>25

\* The queue r is q with messages added that are data of application a for id i.
AddsData(q, r, i, a) ==
    /\ r \in Seq(Message) /\ InOrder(r, "open", "close")
    /\ Msgs(q) \subseteq Msgs(r)
    /\ \A m \in Msgs(r) :
          m \in Msgs(q) \/ (m.type \in {"first", "data"} /\ m.id = i /\ m.app = a)

LEMMA AddOneFragment ==
    ASSUME NEW q, NEW r, NEW i \in Ids, NEW a \in Apps, NEW t \in {"first", "data"},
           AddsData(q, r, i, a), ~Carries(q, "open", i), ~Carries(q, "close", i)
    PROVE  AddsData(q, Append(r, Msg(t, i, a)), i, a)
<1> DEFINE n == Msg(t, i, a)
<1>1. n \in Message /\ n.type = t /\ n.id = i /\ n.app = a
    BY MsgIsMessage DEF MsgTypes
<1>2. ~Carries(r, "open", i) /\ ~Carries(r, "close", i)
    BY CarriesHas DEF AddsData
<1> HIDE DEF n
<1>3. Append(r, n) \in Seq(Message) /\ Adds(r, Append(r, n), n)
    BY <1>1, AppendAdds DEF AddsData
<1>4. InOrder(Append(r, n), "open", "close")
    BY <1>1, <1>2, AppendInOrder DEF AddsData
<1>5. AddsData(q, Append(r, n), i, a)
    BY <1>1, <1>3, <1>4 DEF AddsData, Adds
<1> QED BY <1>5 DEF n

LEMMA TwoInARow ==
    ASSUME NEW f \in Message, NEW d \in Message
    PROVE  <<f>> \o <<d>> = <<f, d>>
<1> DEFINE p == <<f>>
           q == <<d>>
           r == <<f, d>>
<1>1. /\ p \in Seq(Message) /\ Len(p) = 1 /\ p[1] = f
      /\ q \in Seq(Message) /\ Len(q) = 1 /\ q[1] = d
      /\ r \in Seq(Message) /\ Len(r) = 2 /\ r[1] = f /\ r[2] = d
    OBVIOUS
<1> HIDE DEF p, q, r
<1>2. p \o q \in Seq(Message) /\ Len(p \o q) = 2 /\ (p \o q)[1] = f /\ (p \o q)[2] = d
    <2>1. /\ p \o q \in Seq(Message) /\ Len(p \o q) = 2
          /\ \A i \in 1 .. 2 : (p \o q)[i] = IF i <= 1 THEN p[i] ELSE q[i - 1]
        BY <1>1, ConcatProperties, SMTT(40)
    <2> QED BY <1>1, <2>1
<1>3. p \o q = r
    BY <1>1, <1>2, SeqEqual
<1> QED BY <1>3 DEF p, q, r

\* A write of one or two fragments, one after the other.
LEMMA WriteFragments ==
    ASSUME NEW q \in Seq(Message), NEW a \in Apps, NEW n \in 1 .. 2, chan_id[a] \in Ids
    PROVE  LET i == chan_id[a] IN
           q \o Fragments(a, n) = IF n = 1 THEN Append(q, Msg("data", i, a))
                                  ELSE Append(Append(q, Msg("first", i, a)), Msg("data", i, a))
<1> DEFINE i == chan_id[a]
           f == Msg("first", i, a)
           d == Msg("data", i, a)
<1>1. CASE n = 1
    <2>1. Fragments(a, n) = [k \in 1 .. 1 |-> d]
        BY <1>1 DEF Fragments
    <2> HIDE DEF d
    <2>2. [k \in 1 .. 1 |-> d] = <<d>>
        OBVIOUS
    <2>3. q \o <<d>> = Append(q, d)
        OBVIOUS
    <2> QED BY <1>1, <2>1, <2>2, <2>3 DEF d
<1>2. CASE n = 2
    <2>1. Fragments(a, n) = [k \in 1 .. 2 |-> IF k = 1 THEN f ELSE d]
        BY <1>2 DEF Fragments
    <2>2. f \in Message /\ d \in Message
        BY MsgIsMessage DEF MsgTypes
    <2> HIDE DEF d, f
    <2>3. [k \in 1 .. 2 |-> IF k = 1 THEN f ELSE d] = <<f, d>>
        OBVIOUS
    <2>4. q \o <<f, d>> = Append(Append(q, f), d)
        <3>1. Append(q, f) = q \o <<f>> /\ Append(q, f) \in Seq(Message)
            BY <2>2, AppendIsConcat, AppendProperties
        <3>2. Append(Append(q, f), d) = (q \o <<f>>) \o <<d>>
            BY <2>2, <3>1, AppendIsConcat
        <3>3. <<f>> \in Seq(Message) /\ <<d>> \in Seq(Message)
            BY <2>2
        <3>4. <<f>> \o <<d>> = <<f, d>>
            BY <2>2, TwoInARow
        <3>5. (q \o <<f>>) \o <<d>> = q \o (<<f>> \o <<d>>)
            BY <3>3, ConcatAssociative
        <3>6. q \o (<<f>> \o <<d>>) = q \o <<f, d>>
            BY <3>4, Zenon
        <3> QED BY <3>2, <3>5, <3>6, Zenon
    <2>5. Fragments(a, n) = <<f, d>>
        BY <2>1, <2>3, Zenon
    <2>6. q \o Fragments(a, n) = Append(Append(q, f), d)
        BY <2>4, <2>5, Zenon
    <2>7. n # 1
        BY <1>2
    <2> QED BY <2>6, <2>7, Zenon DEF d, f, i
<1> QED BY <1>1, <1>2

LEMMA ApiWriteStep ==
    ASSUME NEW cur, Inv(cur), NEW a \in Apps, NEW n \in 1 .. 2, ApiWrite(a, n)
    PROVE  Inv(cur)'
<1> DEFINE i == chan_id[a]
<1> USE DEF Inv
<1>1. /\ app[a] = "open" /\ con # "down"
      /\ to_xr' = IF con = "up" THEN to_xr \o Fragments(a, n) ELSE to_xr
      /\ sent' = [sent EXCEPT ![a] = @ + n]
      /\ UNCHANGED <<appVars, csVars, xrVars, cl, to_cs, to_cl, from_cl, linkVars,
                     got, replied, landed>>
    BY DEF ApiWrite, Write
<1>2. /\ i \in Ids /\ api_trans[i] = a /\ cur[i] = a /\ i # 0 /\ status[i] = "OPEN"
      /\ a # None
    <2>1. i \in Ids /\ a # None
        BY DynAssumption DEF DynTypeOK, TypeOK
    <2>2. api_trans[i] = a
        BY <1>1 DEF AppsOK
    <2> HIDE DEF i
    <2> QED BY <1>1, <2>1, <2>2 DEF AppsOK
<1>3. Linked(i) \/ Stale(i)
    BY <1>2 DEF StageOK, Opening, Done
<1>4. ~Carries(to_xr, "open", i) /\ ~Carries(to_xr, "close", i)
    BY <1>2, <1>3, CarriesHas DEF Linked, Stale, ToXrOK
<1>5. AddsData(to_xr, to_xr', i, a)
    <2>1. AddsData(to_xr, to_xr, i, a)
        BY DEF AddsData, DynTypeOK, ToXrOK
    <2>2. CASE con # "up"
        BY <1>1, <2>1, <2>2
    <2>3. CASE con = "up"
        <3>1. to_xr' = IF n = 1 THEN Append(to_xr, Msg("data", i, a))
                       ELSE Append(Append(to_xr, Msg("first", i, a)), Msg("data", i, a))
            BY <1>1, <1>2, <2>3, WriteFragments DEF DynTypeOK
        <3> HIDE DEF i
        <3>2. /\ AddsData(to_xr, Append(to_xr, Msg("first", i, a)), i, a)
              /\ AddsData(to_xr, Append(to_xr, Msg("data", i, a)), i, a)
            BY <1>2, <1>4, <2>1, AddOneFragment
        <3>3. AddsData(to_xr, Append(Append(to_xr, Msg("first", i, a)), Msg("data", i, a)), i, a)
            BY <1>2, <1>4, <3>2, AddOneFragment
        <3> QED BY <3>1, <3>2, <3>3
    <2> QED BY <2>2, <2>3
<1> HIDE DEF i
<1> USE DEF appVars, csVars, xrVars, linkVars
<1>6. sent' \in [Apps -> Nat]
    BY <1>1 DEF DynTypeOK, TypeOK
<1>7. DynTypeOK'
    BY <1>1, <1>5, <1>6 DEF DynTypeOK, TypeOK, AddsData
<1>8. /\ AppsOK(cur)' /\ ToCsOK(cur)' /\ ToClOK(cur)' /\ FromClOK(cur)' /\ MapsOK'
      /\ ClientOK(cur)' /\ OwnChannelOnly'
    BY <1>1 DEF AppsOK, ToCsOK, ToClOK, FromClOK, MapsOK, ClientOK, Busy, OwnChannelOnly
<1>9. ToXrOK(cur)'
    BY <1>1, <1>2, <1>5 DEF ToXrOK, AddsData
<1>10. /\ \A k : Has(to_xr', k) <=> Has(to_xr, k) \/ (k = i /\ Has(to_xr', k))
       /\ \A t, k : t \in {"open", "close"} => (Carries(to_xr', t, k) <=> Carries(to_xr, t, k))
       /\ \A t, k : k # i => (Carries(to_xr', t, k) <=> Carries(to_xr, t, k))
    <2>1. \A k : Has(to_xr', k) <=> Has(to_xr, k) \/ (k = i /\ Has(to_xr', k))
        BY <1>5 DEF AddsData, Has
    <2>2. \A t, k : t \in {"open", "close"} => (Carries(to_xr', t, k) <=> Carries(to_xr, t, k))
        BY <1>5, CarriesHas DEF AddsData
    <2>3. \A t, k : k # i => (Carries(to_xr', t, k) <=> Carries(to_xr, t, k))
        BY <1>5, CarriesHas DEF AddsData
    <2> QED BY <2>1, <2>2, <2>3
<1>11. \A k \in Ids : /\ Closing(k)' <=> Closing(k)
                      /\ Unlinked(k)' <=> Unlinked(k)
                      /\ Busy(k)' <=> Busy(k)
    BY <1>1 DEF Closing, Unlinked, Busy
<1>12. StageOK'
    <2> SUFFICES ASSUME NEW k \in Ids
                 PROVE  /\ status'[k] = "CLOSED" =>
                              ~Has(to_xr', k) /\ ~Has(to_cs', k) /\ Unlinked(k)'
                        /\ status'[k] # "CLOSED" /\ k # 0 =>
                              Opening(k)' \/ Linked(k)' \/ Done(k)' \/ Stale(k)'
        BY DEF StageOK
    <2>1. cs2xr[k] \in Ids
        BY DEF DynTypeOK, TypeOK
    <2>2. (Linked(k) => Linked(k)') /\ (Stale(k) => Stale(k)') /\ (Opening(k) => Opening(k)')
        BY <1>1, <1>10, <1>11, <2>1 DEF Linked, Stale, Opening
    <2>3. k # i => (Done(k) => Done(k)')
        BY <1>1, <1>10, <1>11 DEF Done
    <2> QED BY <1>1, <1>2, <1>3, <1>10, <1>11, <2>2, <2>3 DEF StageOK
<1>13. ClosingOK'
    BY <1>1, <1>2, <1>10, <1>11 DEF ClosingOK
<1>14. OpenOK(cur)'
    <2>1. ASSUME NEW k \in Ids, Established(k)' PROVE Established(k)
        BY <1>1, <1>2, <1>10, <2>1 DEF Established
    <2> QED BY <1>1, <2>1 DEF OpenOK
<1>15. ConOK'
    BY <1>1, <1>11 DEF ConOK
<1> QED BY <1>7, <1>8, <1>9, <1>12, <1>13, <1>14, <1>15

-----------------------------------------------------------------------------
(* The RDP connection is lost and made again. *)

LEMMA NothingInEmpty ==
    /\ Msgs(<<>>) = {} /\ \A i : ~Has(<<>>, i)
    /\ \A t, i : ~Carries(<<>>, t, i)
    /\ \A fst, lst : InOrder(<<>>, fst, lst)
    BY DEF Msgs, Has, Carries, InOrder

LEMMA DetachStep ==
    ASSUME NEW cur, Inv(cur), Detach
    PROVE  Inv(cur)'
<1> USE DEF Inv
<1>1. /\ con' = "closing" /\ detached' = TRUE
      /\ to_xr' = <<>> /\ to_cl' = <<>> /\ from_cl' = <<>>
      /\ xr_status' = [j \in Ids |-> "CLOSED"] /\ procs' = [j \in Ids |-> FALSE]
      /\ xr2cr' = [j \in Ids |-> 0] /\ cs2xr' = [j \in Ids |-> 0]
      /\ cl' = [j \in Ids |-> None]
      /\ UNCHANGED <<appVars, csVars, to_cs, dvc, talliedVars>>
    BY DEF Detach, NewProcess
<1> USE DEF appVars, csVars, talliedVars
<1>2. DynTypeOK'
    BY <1>1, ZeroIsAnId DEF DynTypeOK, TypeOK, Status
<1>3. \A k \in Ids : ~Busy(k)' /\ Unlinked(k)' /\ ~Closing(k)' /\ cs2xr'[k] = 0
    BY <1>1, NothingInEmpty DEF Busy, Unlinked, Closing
<1>4. AppsOK(cur)' /\ ToCsOK(cur)' /\ OwnChannelOnly'
    BY <1>1 DEF AppsOK, ToCsOK, OwnChannelOnly
<1>5. ToXrOK(cur)' /\ ToClOK(cur)' /\ FromClOK(cur)'
    BY <1>1, NothingInEmpty DEF ToXrOK, ToClOK, FromClOK
<1>6. StageOK'
    <2>1. ASSUME NEW k \in Ids, Carries(to_cs, "closed", k), k # 0
          PROVE  status[k] = "CLOSE_SENT"
        BY <2>1, CarriesHas DEF StageOK, Opening, Linked, Done, Stale
    <2> QED BY <1>1, <1>3, <2>1, NothingInEmpty DEF StageOK, Done, Stale
<1>7. MapsOK' /\ ClosingOK'
    BY <1>1, <1>3, ZeroIsAnId DEF MapsOK, ClosingOK
<1>8. ClientOK(cur)'
    BY <1>1, <1>3, NothingInEmpty DEF ClientOK
<1>9. OpenOK(cur)' /\ ConOK'
    BY <1>1, <1>3 DEF OpenOK, ConOK
<1> QED BY <1>2, <1>4, <1>5, <1>6, <1>7, <1>8, <1>9

LEMMA ReattachStep ==
    ASSUME NEW cur, Inv(cur), ChansrvResets \/ Attach
    PROVE  Inv(cur)'
<1> USE DEF Inv
<1>1. /\ con # "up" /\ con' \in {"up", "down"} /\ dvc' \in BOOLEAN
      /\ con' = "down" => to_cs = <<>> /\ dvc' = dvc
      /\ con' = "up" => con = "down"
      /\ UNCHANGED <<appVars, csVars, xrVars, cl, to_xr, to_cs, to_cl, from_cl, detached,
                     talliedVars>>
    BY DEF ChansrvResets, Attach, DynTypeOK, TypeOK
<1>2. detached /\ \A k \in Ids : ~Busy(k) /\ cs2xr[k] = 0
    BY <1>1 DEF ConOK
<1> USE DEF appVars, csVars, xrVars, talliedVars
<1>3. DynTypeOK'
    BY <1>1 DEF DynTypeOK, TypeOK
<1>4. /\ AppsOK(cur)' /\ ToXrOK(cur)' /\ ToCsOK(cur)' /\ ToClOK(cur)' /\ FromClOK(cur)'
      /\ MapsOK' /\ ClientOK(cur)' /\ OwnChannelOnly'
    BY <1>1 DEF AppsOK, ToXrOK, ToCsOK, ToClOK, FromClOK, MapsOK, ClientOK, Busy, OwnChannelOnly
<1>5. ClosingOK' /\ OpenOK(cur)'
    BY <1>1, <1>2 DEF ClosingOK, Closing, OpenOK
<1>6. StageOK'
    BY <1>1, <1>2 DEF StageOK, Opening, Linked, Done, Stale, Unlinked, Busy, Closing
<1>7. ConOK'
    BY <1>1, <1>2 DEF ConOK, Busy
<1> QED BY <1>3, <1>4, <1>5, <1>6, <1>7

-----------------------------------------------------------------------------
(* The invariant holds. *)

LEMMA InitInv ==
    ASSUME Init
    PROVE  DynInv
<1> DEFINE cur == [i \in Ids |-> None]
<1>1. cur \in [Ids -> Apps \cup {None}] /\ \A i \in Ids : cur[i] = None
    OBVIOUS
<1> HIDE DEF cur
<1>2. /\ app = [a \in Apps |-> "idle"] /\ chan_id = [a \in Apps |-> 0]
      /\ status = [i \in Ids |-> "CLOSED"] /\ api_trans = [i \in Ids |-> None]
      /\ xr_status = [j \in Ids |-> "CLOSED"] /\ procs = [j \in Ids |-> FALSE]
      /\ xr2cr = [j \in Ids |-> 0] /\ cs2xr = [j \in Ids |-> 0] /\ cl = [j \in Ids |-> None]
      /\ to_xr = <<>> /\ to_cs = <<>> /\ to_cl = <<>> /\ from_cl = <<>>
      /\ con = "up" /\ dvc \in BOOLEAN /\ detached = FALSE
      /\ sent = [a \in Apps |-> 0] /\ got = [a \in Apps |-> 0]
      /\ replied = 0 /\ landed = {}
    BY DEF Init, NewProcess
<1>3. DynTypeOK
    <2>1. /\ {sent, got} \subseteq [Apps -> Nat] /\ replied \in 0 .. MaxReplies
          /\ landed \subseteq Apps \X Apps
        BY <1>2, DynAssumption
    <2>2. /\ to_xr \in Seq(Message) /\ to_cs \in Seq(Message)
          /\ to_cl \in Seq(Message) /\ from_cl \in Seq(Message)
        BY <1>2
    <2> QED BY <1>2, <2>1, <2>2, ZeroIsAnId DEF DynTypeOK, TypeOK, Status
<1>4. \A i \in Ids : ~Busy(i) /\ Unlinked(i) /\ ~Closing(i) /\ ~Established(i)
    BY <1>2, NothingInEmpty DEF Busy, Unlinked, Closing, Established
<1>5. AppsOK(cur)
    BY <1>1, <1>2 DEF AppsOK
<1>6. ToXrOK(cur) /\ ToCsOK(cur) /\ ToClOK(cur) /\ FromClOK(cur)
    BY <1>2, NothingInEmpty DEF ToXrOK, ToCsOK, ToClOK, FromClOK
<1>7. StageOK /\ ClientOK(cur)
    BY <1>2, <1>4, NothingInEmpty DEF StageOK, ClientOK
<1>8. MapsOK /\ ClosingOK /\ OpenOK(cur) /\ ConOK /\ OwnChannelOnly
    BY <1>2, <1>4, ZeroIsAnId DEF MapsOK, ClosingOK, OpenOK, ConOK, OwnChannelOnly
<1> QED BY <1>1, <1>3, <1>5, <1>6, <1>7, <1>8 DEF DynInv, Inv

LEMMA StutterStep ==
    ASSUME NEW cur, Inv(cur), UNCHANGED vars
    PROVE  Inv(cur)'
<1> USE DEF Inv, vars, appVars, csVars, xrVars, linkVars, talliedVars
<1>1. DynTypeOK' /\ AppsOK(cur)' /\ OwnChannelOnly'
    BY DEF DynTypeOK, TypeOK, AppsOK, OwnChannelOnly
<1>2. ToXrOK(cur)' /\ ToCsOK(cur)' /\ ToClOK(cur)' /\ FromClOK(cur)'
    BY DEF ToXrOK, ToCsOK, ToClOK, FromClOK
<1>3. StageOK'
    BY DEF StageOK, Opening, Linked, Done, Stale, Unlinked, Busy, Closing
<1>4. MapsOK' /\ ClientOK(cur)' /\ ClosingOK'
    BY DEF MapsOK, ClientOK, ClosingOK, Closing, Busy
<1>5. OpenOK(cur)' /\ ConOK'
    BY DEF OpenOK, Established, ConOK, Busy
<1> QED BY <1>1, <1>2, <1>3, <1>4, <1>5

LEMMA NextInv ==
    ASSUME DynInv, [Next]_vars
    PROVE  DynInv'
<1> PICK cur \in [Ids -> Apps \cup {None}] : Inv(cur)
    BY DEF DynInv
<1> SUFFICES ASSUME ~(\E a \in Apps : ApiOpen(a))
             PROVE  Inv(cur)'
    BY ApiOpenStep DEF DynInv
<1>1. ASSUME NEW a \in Apps, ApiOpenFails(a) \/ ApiDisconnect(a) \/ ApiWriteFails(a)
      PROVE  Inv(cur)'
    BY <1>1, DisconnectStep DEF ApiOpenFails, ApiDisconnect, ApiWriteFails
<1>2. ASSUME NEW a \in Apps, NEW n \in 1 .. 2, ApiWrite(a, n) PROVE Inv(cur)'
    BY <1>2, ApiWriteStep
<1>3. CASE CsOpenResponse \/ CsCloseResponse \/ CsData
    BY <1>3, CsOpenResponseStep, CsCloseResponseStep, CsDataStep
<1>4. CASE XrOpen \/ XrClose \/ XrData
    BY <1>4, XrOpenStep, XrCloseStep, XrDataStep
<1>5. CASE XrOpenResponse \/ XrCloseResponse \/ XrClientData
    BY <1>5, XrOpenResponseStep, XrCloseResponseStep, XrClientDataStep
<1>6. CASE ClientAccepts \/ ClientCloses \/ ClientGetsData \/ \E j \in Ids : ClientSends(j)
    BY <1>6, ClientAcceptsStep, ClientClosesStep, ClientGetsDataStep, ClientSendsStep
<1>7. CASE Detach \/ ChansrvResets \/ Attach
    BY <1>7, DetachStep, ReattachStep
<1>8. CASE UNCHANGED vars
    BY <1>8, StutterStep
<1> QED BY <1>1, <1>2, <1>3, <1>4, <1>5, <1>6, <1>7, <1>8 DEF Next

\* The inductive invariant, for every behaviour of the specification.
THEOREM DynInvHolds == Spec => []DynInv
    BY InitInv, NextInv, PTL DEF Spec

-----------------------------------------------------------------------------
(* What follows from it. *)

\* The tables, the maps and what is written stay of their types: an answer of the
\* client never finds a map entry or an id out of the tables, and id 0, which
\* stands for no channel, is never opened.
THEOREM DynTypeCorrect == Spec => []TypeOK
<1>1. DynInv => TypeOK
    BY DEF DynInv, Inv, DynTypeOK
<1> QED BY <1>1, DynInvHolds, PTL

\* No message takes effect on another application's channel than its sender's,
\* however often ids are used again (chansrv.c, xrdp_channel.c and xrdp_mm.c).
THEOREM OwnChannelOnlyHolds == Spec => []OwnChannelOnly
<1>1. DynInv => OwnChannelOnly
    BY DEF DynInv, Inv
<1> QED BY <1>1, DynInvHolds, PTL

\* While the RDP connection lasts, what chansrv has open is open in xrdp under the
\* id the maps give, and is that application's channel at the client.
THEOREM TablesAgreeHolds == Spec => []TablesAgree
<1>1. ASSUME DynInv PROVE TablesAgree
    <2>1. PICK cur \in [Ids -> Apps \cup {None}] : Inv(cur)
        BY <1>1 DEF DynInv
    <2>2. ASSUME ~detached, NEW i \in Ids, status[i] = "OPEN"
          PROVE  /\ xr_status[cs2xr[i]] = "OPEN" /\ xr2cr[cs2xr[i]] = i
                 /\ cl[cs2xr[i]] = api_trans[i]
        <3>1. Established(i)
            BY <2>2 DEF Established
        <3>2. cur[i] = api_trans[i]
            BY <2>1, <2>2 DEF Inv, AppsOK
        <3> QED BY <2>1, <2>2, <3>1, <3>2 DEF Inv, OpenOK
    <2> QED BY <2>2 DEF TablesAgree
<1> QED BY <1>1, DynInvHolds, PTL

\* An id that chansrv is closing never waits for nothing: its close, or the answer to
\* it, is on its way (process_message_drdynvc_close_response frees the id).
THEOREM CloseIsUnderWayHolds == Spec => []CloseIsUnderWay
<1>1. ASSUME DynInv PROVE CloseIsUnderWay
    <2>1. PICK cur \in [Ids -> Apps \cup {None}] : Inv(cur)
        BY <1>1 DEF DynInv
    <2>2. ASSUME dvc, ~detached, NEW i \in Ids \ {0}, status[i] = "CLOSE_SENT"
          PROVE  \/ Carries(to_xr, "close", i) \/ Carries(to_cs, "closed", i)
                 \/ xr2cr[cs2xr[i]] = i /\ Closing(cs2xr[i])
        <3>1. Opening(i) \/ Linked(i) \/ Done(i)
            BY <2>1, <2>2 DEF Inv, StageOK, Stale
        <3> QED BY <2>2, <3>1 DEF Opening, Linked, Done
    <2> QED BY <2>2 DEF CloseIsUnderWay, Closing
<1> QED BY <1>1, DynInvHolds, PTL

-----------------------------------------------------------------------------
(* Every fragment written is counted: at the client, or in one of two queues. *)

IsData(m, a) == m.app = a /\ m.type \in {"first", "data"}
Places(a, q) == {k \in 1 .. Len(q) : IsData(q[k], a)}

LEMMA InFlightIsNat ==
    ASSUME NEW q \in Seq(Message), NEW a
    PROVE  /\ IsFiniteSet(Places(a, q)) /\ InFlight(a, q) = Cardinality(Places(a, q))
           /\ InFlight(a, q) \in Nat
<1>1. IsFiniteSet(1 .. Len(q)) /\ Places(a, q) \in SUBSET (1 .. Len(q))
    BY FS_Interval DEF Places
<1>2. IsFiniteSet(Places(a, q)) /\ Cardinality(Places(a, q)) \in Nat
    BY <1>1, FS_Subset, FS_CardinalityType
<1>3. InFlight(a, q) = Cardinality(Places(a, q))
    BY DEF InFlight, Places, IsData
<1> QED BY <1>2, <1>3

LEMMA InFlightAppend ==
    ASSUME NEW q \in Seq(Message), NEW m \in Message, NEW a
    PROVE  InFlight(a, Append(q, m)) = IF IsData(m, a) THEN InFlight(a, q) + 1 ELSE InFlight(a, q)
<1> DEFINE n == Len(q)
           r == Append(q, m)
<1>1. /\ r \in Seq(Message) /\ Len(r) = n + 1 /\ n \in Nat
      /\ \A k \in 1 .. n : r[k] = q[k]
      /\ r[n + 1] = m
    BY AppendProperties
<1> HIDE DEF r, n
<1>2. 1 .. (n + 1) = (1 .. n) \cup {n + 1} /\ n + 1 \notin 1 .. n
    BY <1>1
<1>3. Places(a, r) = IF IsData(m, a) THEN Places(a, q) \cup {n + 1} ELSE Places(a, q)
    BY <1>1, <1>2 DEF Places, n
<1>4. n + 1 \notin Places(a, q)
    BY <1>2 DEF Places, n
<1>5. /\ IsFiniteSet(Places(a, q)) /\ InFlight(a, q) = Cardinality(Places(a, q))
      /\ InFlight(a, r) = Cardinality(Places(a, r))
    BY <1>1, InFlightIsNat
<1>6. Cardinality(Places(a, q) \cup {n + 1}) = Cardinality(Places(a, q)) + 1
    BY <1>4, <1>5, FS_AddElement
<1> QED BY <1>3, <1>5, <1>6 DEF r

\* The places of the tail are those of the queue but the first, each one further on.
LEMMA InFlightTail ==
    ASSUME NEW q \in Seq(Message), q # <<>>, NEW a
    PROVE  InFlight(a, q) = IF IsData(Head(q), a) THEN InFlight(a, Tail(q)) + 1
                            ELSE InFlight(a, Tail(q))
<1> DEFINE n == Len(q)
           r == Tail(q)
           P == Places(a, q)
           R == Places(a, r)
           S == P \ {1}
           f == [k \in R |-> k + 1]
<1>1. /\ r \in Seq(Message) /\ Len(r) = n - 1 /\ n \in Nat \ {0}
      /\ \A k \in 1 .. n - 1 : r[k] = q[k + 1]
      /\ Head(q) = q[1]
    BY HeadTailProperties
<1>2. /\ IsFiniteSet(P) /\ InFlight(a, q) = Cardinality(P) /\ Cardinality(P) \in Nat
      /\ IsFiniteSet(R) /\ InFlight(a, r) = Cardinality(R)
    BY <1>1, InFlightIsNat
<1>3. \A k \in 1 .. n - 1 : k + 1 \in (1 .. n) \ {1} /\ (k \in R <=> k + 1 \in P)
    <2> HIDE DEF n, r
    <2> QED BY <1>1 DEF Places, n
<1>4. R \subseteq 1 .. n - 1 /\ R \subseteq Int
    BY <1>1 DEF Places
<1>5. ASSUME NEW k \in S PROVE k - 1 \in R /\ (k - 1) + 1 = k
    <2>1. k \in 1 .. n /\ k # 1 /\ k \in P
        BY DEF Places
    <2>2. k - 1 \in 1 .. n - 1 /\ (k - 1) + 1 = k
        BY <1>1, <2>1
    <2> QED BY <1>3, <2>1, <2>2
<1>6. f \in [R -> S] /\ (\A k \in R : f[k] = k + 1)
    BY <1>3, <1>4
<1>7. \A k, l \in R : f[k] = f[l] => k = l
    BY <1>4, <1>6
<1>8. \A l \in S : \E k \in R : f[k] = l
    BY <1>5, <1>6
<1>9. Cardinality(S) = Cardinality(R)
    <2> HIDE DEF R, S, f
    <2>1. f \in Bijection(R, S)
        BY <1>6, <1>7, <1>8 DEF Bijection, Injection, Surjection, IsInjective
    <2> QED BY <1>2, <2>1, FS_Bijection DEF ExistsBijection
<1>10. Cardinality(S) = IF 1 \in P THEN Cardinality(P) - 1 ELSE Cardinality(P)
    BY <1>2, FS_RemoveElement
<1>11. 1 \in P <=> IsData(Head(q), a)
    BY <1>1 DEF Places
<1> HIDE DEF P, R, S, r
<1> QED BY <1>2, <1>9, <1>10, <1>11 DEF r

\* A fragment moves on: from the application to a queue, to the next, to the client.
LEMMA Moves ==
    ASSUME NEW s \in Nat, NEW g \in Nat, NEW x \in Nat, NEW y \in Nat
    PROVE  /\ s = g + x + y => \A n \in Nat : s + n = g + (x + n) + y
           /\ s = g + (x + 1) + y => s = g + x + (y + 1)
           /\ s = g + x + (y + 1) => s = (g + 1) + x + y
    OBVIOUS

Balanced(a) == sent[a] = got[a] + InFlight(a, to_xr) + InFlight(a, to_cl)

LEMMA ApiKeepsCount ==
    ASSUME NEW cur, Inv(cur), ~detached, NEW a \in Apps, Balanced(a), NEW b \in Apps,
           \/ ApiOpen(b) \/ ApiOpenFails(b) \/ ApiDisconnect(b) \/ ApiWriteFails(b)
           \/ \E n \in 1 .. 2 : ApiWrite(b, n)
    PROVE  Balanced(a)'
<1> USE DEF Inv
<1>1. /\ con = "up" /\ to_xr \in Seq(Message) /\ to_cl \in Seq(Message)
      /\ chan_id[b] \in Ids /\ sent \in [Apps -> Nat] /\ got \in [Apps -> Nat]
    BY DEF ConOK, DynTypeOK, TypeOK
<1>2. /\ InFlight(a, to_xr) \in Nat /\ InFlight(a, to_cl) \in Nat
      /\ sent[a] \in Nat /\ got[a] \in Nat
    BY <1>1, InFlightIsNat
<1>3. ASSUME NEW n \in Message, to_xr' = to_xr \o <<n>>, ~IsData(n, a),
             UNCHANGED <<to_cl, sent, got>>
      PROVE  Balanced(a)'
    <2>1. to_xr' = Append(to_xr, n)
        BY <1>1, <1>3
    <2>2. InFlight(a, Append(to_xr, n)) = InFlight(a, to_xr)
        BY <1>1, <1>3, InFlightAppend
    <2> QED BY <1>3, <2>1, <2>2 DEF Balanced
<1>4. CASE ApiOpen(b)
    <2> DEFINE i == Min(Free(status))
    <2>1. /\ Free(status) # {} /\ to_xr' = to_xr \o <<Msg("open", i, b)>>
          /\ UNCHANGED <<to_cl, sent, got>>
        BY <1>1, <1>4 DEF ApiOpen, Write, talliedVars
    <2>2. i \in Ids
        BY <2>1, FreeId
    <2> HIDE DEF i
    <2>3. Msg("open", i, b) \in Message /\ ~IsData(Msg("open", i, b), a)
        BY <2>2, MsgIsMessage DEF MsgTypes, IsData
    <2> QED BY <1>3, <2>1, <2>3
<1>5. CASE ApiOpenFails(b) \/ ApiDisconnect(b) \/ ApiWriteFails(b)
    <2>1. /\ to_xr' = to_xr \o <<Msg("close", chan_id[b], b)>>
          /\ UNCHANGED <<to_cl, sent, got>>
        BY <1>1, <1>5
           DEF ApiOpenFails, ApiDisconnect, ApiWriteFails, Disconnect, Write, talliedVars
    <2>2. Msg("close", chan_id[b], b) \in Message /\ ~IsData(Msg("close", chan_id[b], b), a)
        BY <1>1, MsgIsMessage DEF MsgTypes, IsData
    <2> QED BY <1>3, <2>1, <2>2
<1>6. ASSUME NEW n \in 1 .. 2, ApiWrite(b, n) PROVE Balanced(a)'
    <2> DEFINE f == Msg("first", chan_id[b], b)
               d == Msg("data", chan_id[b], b)
    <2>1. /\ to_xr' = to_xr \o Fragments(b, n) /\ sent' = [sent EXCEPT ![b] = @ + n]
          /\ UNCHANGED <<to_cl, got>>
        BY <1>1, <1>6 DEF ApiWrite, Write
    <2>2. to_xr' = IF n = 1 THEN Append(to_xr, d) ELSE Append(Append(to_xr, f), d)
        BY <1>1, <2>1, WriteFragments
    <2>3. /\ f \in Message /\ d \in Message
          /\ IsData(f, a) <=> a = b
          /\ IsData(d, a) <=> a = b
        BY <1>1, MsgIsMessage DEF MsgTypes, IsData
    <2> HIDE DEF f, d
    <2>4. /\ InFlight(a, Append(to_xr, d)) =
                 IF a = b THEN InFlight(a, to_xr) + 1 ELSE InFlight(a, to_xr)
          /\ InFlight(a, Append(Append(to_xr, f), d)) =
                 IF a = b THEN InFlight(a, to_xr) + 2 ELSE InFlight(a, to_xr)
        <3>1. Append(to_xr, f) \in Seq(Message)
            BY <1>1, <2>3, AppendAdds
        <3>2. InFlight(a, Append(to_xr, f)) =
                  IF a = b THEN InFlight(a, to_xr) + 1 ELSE InFlight(a, to_xr)
            BY <1>1, <2>3, InFlightAppend
        <3>3. InFlight(a, Append(Append(to_xr, f), d)) =
                  IF a = b THEN InFlight(a, Append(to_xr, f)) + 1
                  ELSE InFlight(a, Append(to_xr, f))
            BY <2>3, <3>1, InFlightAppend
        <3>4. InFlight(a, Append(to_xr, d)) =
                  IF a = b THEN InFlight(a, to_xr) + 1 ELSE InFlight(a, to_xr)
            BY <1>1, <2>3, InFlightAppend
        <3> QED BY <1>2, <3>2, <3>3, <3>4
    <2>5. CASE a # b
        <3>1. InFlight(a, to_xr') = InFlight(a, to_xr)
            BY <2>2, <2>4, <2>5
        <3>2. sent'[a] = sent[a]
            BY <1>1, <2>1, <2>5
        <3> QED BY <2>1, <3>1, <3>2 DEF Balanced
    <2>6. CASE a = b
        <3>1. InFlight(a, to_xr') = InFlight(a, to_xr) + n
            BY <1>2, <2>2, <2>4, <2>6
        <3>2. sent'[a] = sent[a] + n
            BY <1>1, <2>1, <2>6
        <3> QED BY <1>2, <2>1, <3>1, <3>2, Moves DEF Balanced
    <2> QED BY <2>5, <2>6
<1> QED BY <1>4, <1>5, <1>6

LEMMA XrKeepsCount ==
    ASSUME NEW cur, Inv(cur), ~detached, NEW a \in Apps, Balanced(a),
           XrOpen \/ XrClose \/ XrData
    PROVE  Balanced(a)'
<1> DEFINE m == Head(to_xr)
<1> USE DEF Inv
<1>1. /\ to_xr \in Seq(Message) /\ to_cl \in Seq(Message)
      /\ sent \in [Apps -> Nat] /\ got \in [Apps -> Nat]
    BY DEF DynTypeOK, TypeOK
<1>2. to_xr # <<>> /\ to_xr' = Tail(to_xr) /\ UNCHANGED <<sent, got>>
    BY DEF XrOpen, XrClose, XrData, talliedVars
<1>3. /\ m \in Message /\ m \in Msgs(to_xr) /\ m.id \in Ids /\ m.app \in Apps
      /\ cs2xr[m.id] \in Ids
    BY <1>2, TakeXr DEF Message, DynTypeOK, TypeOK
<1>4. InFlight(a, to_xr) = IF IsData(m, a) THEN InFlight(a, to_xr') + 1 ELSE InFlight(a, to_xr')
    BY <1>1, <1>2, InFlightTail
<1>5. /\ InFlight(a, to_xr) \in Nat /\ InFlight(a, to_cl) \in Nat /\ InFlight(a, to_xr') \in Nat
      /\ sent[a] \in Nat /\ got[a] \in Nat
    <2>1. to_xr' \in Seq(Message)
        BY <1>2, TakeXr
    <2> QED BY <1>1, <2>1, InFlightIsNat
<1>6. ASSUME NEW n \in Message, to_cl' = Append(to_cl, n), IsData(n, a) <=> IsData(m, a)
      PROVE  Balanced(a)'
    <2>1. InFlight(a, to_cl') = IF IsData(m, a) THEN InFlight(a, to_cl) + 1 ELSE InFlight(a, to_cl)
        BY <1>1, <1>6, InFlightAppend
    <2> HIDE DEF m
    <2> QED BY <1>2, <1>4, <1>5, <2>1, Moves DEF Balanced
<1>7. CASE XrOpen \/ XrClose
    <2>1. ~IsData(m, a)
        BY <1>7 DEF XrOpen, XrClose, IsData
    <2>2. ASSUME NEW t \in {"open", "close"}, NEW j \in Ids, to_cl' = Append(to_cl, Msg(t, j, m.app))
          PROVE  Balanced(a)'
        <3>1. Msg(t, j, m.app) \in Message /\ ~IsData(Msg(t, j, m.app), a)
            BY <1>3, MsgIsMessage DEF MsgTypes, IsData
        <3> QED BY <1>6, <2>1, <2>2, <3>1
    <2>3. CASE to_cl' = to_cl
        BY <1>2, <1>4, <2>1, <2>3 DEF Balanced
    <2>4. CASE XrOpen
        <3>1. \/ to_cl' = to_cl
              \/ /\ Free(xr_status) # {}
                 /\ to_cl' = Append(to_cl, Msg("open", Min(Free(xr_status)), m.app))
            BY <2>4 DEF XrOpen
        <3> QED BY <2>2, <2>3, <3>1, FreeId
    <2>5. CASE XrClose
        <3>1. to_cl' = to_cl \/ to_cl' = Append(to_cl, Msg("close", cs2xr[m.id], m.app))
            BY <2>5 DEF XrClose
        <3> QED BY <1>3, <2>2, <2>3, <3>1
    <2> QED BY <1>7, <2>4, <2>5
\* What is read is of an established channel: xrdp has it open and passes it on.
<1>8. CASE XrData
    <2>1. m.type \in {"first", "data"}
        BY <1>8 DEF XrData
    <2>2. Established(m.id)
        BY <1>3, <2>1, CarriesHas DEF Established
    <2>3. xr_status[cs2xr[m.id]] = "OPEN"
        BY <1>3, <2>2 DEF OpenOK
    <2>4. to_cl' = Append(to_cl, Msg(m.type, cs2xr[m.id], m.app))
        BY <1>8, <2>3 DEF XrData
    <2>5. /\ Msg(m.type, cs2xr[m.id], m.app) \in Message
          /\ IsData(Msg(m.type, cs2xr[m.id], m.app), a) <=> IsData(m, a)
        BY <1>3, <2>1, MsgIsMessage DEF MsgTypes, IsData
    <2> QED BY <1>6, <2>4, <2>5
<1> QED BY <1>7, <1>8

LEMMA ClientKeepsCount ==
    ASSUME NEW cur, Inv(cur), NEW a \in Apps, Balanced(a),
           ClientAccepts \/ ClientCloses \/ ClientGetsData
    PROVE  Balanced(a)'
<1> DEFINE m == Head(to_cl)
<1> USE DEF Inv
<1>1. /\ to_xr \in Seq(Message) /\ to_cl \in Seq(Message)
      /\ sent \in [Apps -> Nat] /\ got \in [Apps -> Nat]
    BY DEF DynTypeOK, TypeOK
<1>2. to_cl # <<>> /\ to_cl' = Tail(to_cl) /\ UNCHANGED <<sent, to_xr>>
    BY DEF ClientAccepts, ClientCloses, ClientGetsData, ClientTakes, talliedVars
<1>3. InFlight(a, to_cl) = IF IsData(m, a) THEN InFlight(a, to_cl') + 1 ELSE InFlight(a, to_cl')
    BY <1>1, <1>2, InFlightTail
<1>4. /\ InFlight(a, to_xr) \in Nat /\ InFlight(a, to_cl') \in Nat
      /\ sent[a] \in Nat /\ got[a] \in Nat
    <2>1. to_cl' \in Seq(Message)
        BY <1>2, TakeCl
    <2> QED BY <1>1, <2>1, InFlightIsNat
<1>5. CASE ClientAccepts \/ ClientCloses
    <2>1. ~IsData(m, a) /\ UNCHANGED got
        BY <1>5 DEF ClientAccepts, ClientCloses, ClientTakes, IsData, talliedVars
    <2> QED BY <1>2, <1>3, <2>1 DEF Balanced
\* The client has the channel: the open is read, and it has not answered a close.
<1>6. CASE ClientGetsData
    <2>1. /\ m.type \in {"first", "data"}
          /\ got' = IF cl[m.id] = m.app THEN [got EXCEPT ![m.app] = @ + 1] ELSE got
        BY <1>6 DEF ClientGetsData, ClientTakes
    <2>2. /\ m \in Message /\ m \in Msgs(to_cl) /\ m.app = cur[xr2cr[m.id]] /\ Busy(m.id)
          /\ Adds(to_cl', to_cl, m) /\ ~Carries(to_cl', "open", m.id)
        BY <1>2, TakeCl
    <2>3. m.id \in Ids /\ m.app \in Apps /\ Has(to_cl, m.id)
        BY <2>2 DEF Message, Has
    <2>4. ~Carries(to_cl, "open", m.id)
        BY <2>1, <2>2 DEF Adds
    <2>5. cl[m.id] = m.app
        BY <2>2, <2>3, <2>4 DEF ClientOK
    <2> HIDE DEF m
    <2>6. got'[a] = IF IsData(m, a) THEN got[a] + 1 ELSE got[a]
        <3>1. got' = [got EXCEPT ![m.app] = got[m.app] + 1]
            BY <2>1, <2>5
        <3>2. IsData(m, a) <=> m.app = a
            BY <2>1 DEF IsData
        <3> QED BY <1>1, <2>3, <3>1, <3>2
    <2>7. CASE IsData(m, a)
        <3>1. sent[a] = got[a] + InFlight(a, to_xr) + (InFlight(a, to_cl') + 1)
            BY <1>3, <2>7 DEF Balanced
        <3>2. sent[a] = (got[a] + 1) + InFlight(a, to_xr) + InFlight(a, to_cl')
            BY <1>4, <3>1, Moves
        <3> QED BY <1>2, <2>6, <2>7, <3>2 DEF Balanced
    <2>8. CASE ~IsData(m, a)
        BY <1>2, <1>3, <2>6, <2>8 DEF Balanced
    <2> QED BY <2>7, <2>8
<1> QED BY <1>5, <1>6

\* No fragment is lost while the RDP connection lasts: xrdp drops none for its
\* channel's status (xrdp_channel_drdynvc_data), the client none for its channel's.
THEOREM NothingLostHolds == Spec => []NothingLost
<1>1. ASSUME Init PROVE NothingLost
    <2> SUFFICES ASSUME NEW a \in Apps
                 PROVE  sent[a] = got[a] + InFlight(a, to_xr) + InFlight(a, to_cl)
        BY DEF NothingLost
    <2>1. to_xr = <<>> /\ to_cl = <<>> /\ sent[a] = 0 /\ got[a] = 0
        BY <1>1 DEF Init
    <2>2. Places(a, <<>>) = {}
        BY DEF Places
    <2>3. <<>> \in Seq(Message)
        OBVIOUS
    <2>4. InFlight(a, <<>>) = 0
        BY <2>2, <2>3, InFlightIsNat, FS_EmptySet
    <2> QED BY <2>1, <2>4
<1>2. ASSUME DynInv, NothingLost, [Next]_vars PROVE NothingLost'
    <2> PICK cur \in [Ids -> Apps \cup {None}] : Inv(cur)
        BY <1>2 DEF DynInv
    <2> SUFFICES ASSUME ~detached', NEW a \in Apps
                 PROVE  Balanced(a)'
        BY DEF NothingLost, Balanced
    <2>1. ~Detach
        BY DEF Detach
    <2>2. CASE UNCHANGED <<sent, got, to_xr, to_cl, detached>>
        BY <1>2, <2>2 DEF NothingLost, Balanced
    <2>3. CASE \/ CsOpenResponse \/ CsCloseResponse \/ CsData
               \/ XrOpenResponse \/ XrCloseResponse \/ XrClientData
               \/ (\E j \in Ids : ClientSends(j)) \/ ChansrvResets \/ Attach \/ UNCHANGED vars
        BY <2>2, <2>3
           DEF CsOpenResponse, CsCloseResponse, CsData, XrOpenResponse, XrCloseResponse,
               XrClientData, ClientSends, ChansrvResets, Attach, vars, linkVars, talliedVars
    <2>4. CASE \E b \in Apps : \/ ApiOpen(b) \/ ApiOpenFails(b) \/ ApiDisconnect(b)
                               \/ ApiWriteFails(b) \/ \E n \in 1 .. 2 : ApiWrite(b, n)
        <3>1. ~detached
            BY <2>4 DEF ApiOpen, ApiOpenFails, ApiDisconnect, ApiWriteFails, ApiWrite, linkVars
        <3> QED BY <1>2, <2>4, <3>1, ApiKeepsCount DEF NothingLost, Balanced
    <2>5. CASE XrOpen \/ XrClose \/ XrData
        <3>1. ~detached
            BY <2>5 DEF XrOpen, XrClose, XrData, linkVars
        <3> QED BY <1>2, <2>5, <3>1, XrKeepsCount DEF NothingLost, Balanced
    <2>6. CASE ClientAccepts \/ ClientCloses \/ ClientGetsData
        <3>1. ~detached
            BY <2>6 DEF ClientAccepts, ClientCloses, ClientGetsData, linkVars
        <3> QED BY <1>2, <2>6, <3>1, ClientKeepsCount DEF NothingLost, Balanced
    <2> QED BY <1>2, <2>1, <2>3, <2>4, <2>5, <2>6 DEF Next
<1> QED BY <1>1, <1>2, DynInvHolds, PTL DEF Spec
=============================================================================

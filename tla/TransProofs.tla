---------------------------- MODULE TransProofs ----------------------------
(***************************************************************************)
(* Proofs about the transport layer, for every set of transports and every *)
(* value of the bounds.                                                    *)
(***************************************************************************)
EXTENDS Trans, TLAPS, FiniteSetTheorems, SequenceTheorems

-----------------------------------------------------------------------------
(* The operators the actions are built from. *)

\* What a send leaves of a waiting list: the list itself with a later start of
\* its first stream, or its tail.
LEMMA RestOfLemma ==
    ASSUME NEW q \in Seq(Item), q # <<>>, NEW k \in Nat,
           k <= q[1].hi - q[1].lo + 1
    PROVE  /\ RestOf(q, k) \in Seq(Item)
           /\ k = q[1].hi - q[1].lo + 1 =>
                 /\ Len(RestOf(q, k)) = Len(q) - 1
                 /\ \A j \in 1 .. (Len(q) - 1) : RestOf(q, k)[j] = q[j + 1]
           /\ k # q[1].hi - q[1].lo + 1 =>
                 /\ Len(RestOf(q, k)) = Len(q)
                 /\ RestOf(q, k)[1] = [lo |-> q[1].lo + k, hi |-> q[1].hi,
                                       src |-> q[1].src]
                 /\ \A j \in 2 .. Len(q) : RestOf(q, k)[j] = q[j]
<1>1. q[1] \in Item /\ Len(q) \in Nat /\ Len(q) > 0
    OBVIOUS
<1>2. CASE k = q[1].hi - q[1].lo + 1
    BY <1>1, <1>2 DEF RestOf
<1>3. CASE k # q[1].hi - q[1].lo + 1
    <2> DEFINE h == [lo |-> q[1].lo + k, hi |-> q[1].hi, src |-> q[1].src]
    <2>1. h = [lo |-> q[1].lo + k, hi |-> q[1].hi, src |-> q[1].src]
        OBVIOUS
    <2>2. h \in Item
        BY <1>1 DEF Item
    <2>3. RestOf(q, k) = [q EXCEPT ![1] = h]
        BY <1>3 DEF RestOf
    <2> HIDE DEF h
    <2>4. [q EXCEPT ![1] = h] \in Seq(Item) /\ Len([q EXCEPT ![1] = h]) = Len(q)
        BY <1>1, <2>2, ExceptSeq
    <2>5. [q EXCEPT ![1] = h][1] = h
          /\ \A j \in 2 .. Len(q) : [q EXCEPT ![1] = h][j] = q[j]
        BY <1>1, <2>2, ExceptSeq
    <2> QED BY <1>3, <2>1, <2>3, <2>4, <2>5
<1> QED BY <1>2, <1>3

LEMMA BytesType ==
    ASSUME NEW a \in Nat, NEW b \in Int, b >= a - 1
    PROVE  Bytes(a, b) \in Seq(Nat) /\ Len(Bytes(a, b)) = b - a + 1
           /\ \A i \in 1 .. (b - a + 1) : Bytes(a, b)[i] = a + i - 1
<1>1. b - a + 1 \in Nat
    OBVIOUS
<1>2. Bytes(a, b) = [i \in 1 .. (b - a + 1) |-> a + i - 1]
    BY DEF Bytes
<1>3. \A i \in 1 .. (b - a + 1) : a + i - 1 \in Nat
    OBVIOUS
<1> DEFINE n == b - a + 1
<1>4. [i \in 1 .. n |-> a + i - 1] \in Seq(Nat)
    BY <1>1, <1>3
<1> QED BY <1>1, <1>2, <1>4

-----------------------------------------------------------------------------
(* The shape of the stack and the types. *)

\* The main loop is at the bottom, transports above it; a call below another
\* one waits in the main loop or in xrdp_mm_check_chan.
StackOK ==
    stack # <<>> =>
        /\ stack[1].t = NoTrans /\ stack[1].pc \notin {"check", "flush"}
        /\ \A i \in 2 .. Len(stack) : stack[i].t \in Trans
        /\ \A i \in 1 .. Len(stack) :
              /\ stack[i].pc \in {"poll", "ckdel"} => stack[i].t \in Draws
              /\ i < Len(stack) => stack[i].pc \in {"run", "ckdel"}
              /\ (i < Len(stack) /\ i > 1) => stack[i].pc = "ckdel"

\* The four ways in which a step changes the stack.
LEMMA TopFacts ==
    ASSUME TypeOK, stack # <<>>
    PROVE  /\ Len(stack) \in Nat \ {0}
           /\ Top \in Frame
           /\ Top = stack[Len(stack)]
    BY DEF TypeOK, Top

LEMMA SetTopLemma ==
    ASSUME TypeOK, stack # <<>>, NEW f \in Frame
    PROVE  /\ SetTop(f) \in Seq(Frame) /\ SetTop(f) # <<>>
           /\ Len(SetTop(f)) = Len(stack)
           /\ SetTop(f)[Len(stack)] = f
           /\ \A i \in 1 .. (Len(stack) - 1) : SetTop(f)[i] = stack[i]
<1>1. Len(stack) \in 1 .. Len(stack) /\ stack \in Seq(Frame)
    BY TopFacts DEF TypeOK
<1>2. /\ SetTop(f) \in Seq(Frame) /\ Len(SetTop(f)) = Len(stack)
      /\ \A j \in 1 .. Len(stack) :
            SetTop(f)[j] = IF j = Len(stack) THEN f ELSE stack[j]
    BY <1>1, ExceptSeq DEF SetTop
<1> QED BY <1>1, <1>2, TopFacts

LEMMA PopLemma ==
    ASSUME TypeOK, stack # <<>>
    PROVE  /\ Pop \in Seq(Frame)
           /\ Len(Pop) = Len(stack) - 1
           /\ \A i \in 1 .. (Len(stack) - 1) : Pop[i] = stack[i]
<1> DEFINE n == Len(stack) - 1
<1>1. stack \in Seq(Frame) /\ 1 \in Int /\ n \in Nat
      /\ \A i \in 1 .. n : stack[i] \in Frame
    BY TopFacts DEF TypeOK
<1> HIDE DEF n
<1>2. /\ SubSeq(stack, 1, n) \in Seq(Frame)
      /\ Len(SubSeq(stack, 1, n)) = IF 1 <= n THEN n - 1 + 1 ELSE 0
      /\ \A i \in 1 .. (n - 1 + 1) : SubSeq(stack, 1, n)[i] = stack[1 + i - 1]
    BY <1>1, SubSeqProperties
<1>3. n - 1 + 1 = n /\ \A i \in 1 .. n : 1 + i - 1 = i
    BY <1>1
<1>4. Len(SubSeq(stack, 1, n)) = n
    BY <1>1, <1>2
<1>5. \A i \in 1 .. n : SubSeq(stack, 1, n)[i] = stack[i]
    BY <1>2, <1>3
<1> QED BY <1>2, <1>4, <1>5 DEF Pop, n

LEMMA PushLemma ==
    ASSUME NEW s \in Seq(Frame), NEW f \in Frame
    PROVE  /\ Append(s, f) \in Seq(Frame)
           /\ Append(s, f) # <<>>
           /\ Len(Append(s, f)) = Len(s) + 1
           /\ Append(s, f)[Len(s) + 1] = f
           /\ \A i \in 1 .. Len(s) : Append(s, f)[i] = s[i]
    OBVIOUS

\* A step that only moves the top call on keeps the shape.
LEMMA SetTopOK ==
    ASSUME TypeOK, StackOK, stack # <<>>, NEW f \in Frame, f.t = Top.t,
           f.pc \in {"check", "flush"} => Top.t \in Trans,
           f.pc \in {"poll", "ckdel"} => Top.t \in Draws,
           stack' = SetTop(f)
    PROVE  StackOK' /\ stack' \in Seq(Frame) /\ stack' # <<>> /\ Top' = f
<1>1. /\ Len(stack) \in Nat \ {0} /\ Len(stack') = Len(stack)
      /\ stack' # <<>> /\ stack' \in Seq(Frame)
      /\ stack'[Len(stack)] = f /\ Top = stack[Len(stack)]
      /\ \A i \in 1 .. (Len(stack) - 1) : stack'[i] = stack[i]
    BY SetTopLemma, TopFacts
<1>2. NoTrans \notin Trans
    BY TransAssumption
<1>3. stack'[1].t = NoTrans /\ stack'[1].pc \notin {"check", "flush"}
    BY <1>1, <1>2 DEF StackOK
<1>4. \A i \in 2 .. Len(stack') : stack'[i].t \in Trans
    BY <1>1 DEF StackOK
<1>5. \A i \in 1 .. Len(stack') :
        /\ stack'[i].pc \in {"poll", "ckdel"} => stack'[i].t \in Draws
        /\ i < Len(stack') => stack'[i].pc \in {"run", "ckdel"}
        /\ (i < Len(stack') /\ i > 1) => stack'[i].pc = "ckdel"
    BY <1>1 DEF StackOK
<1>6. Top' = f
    BY <1>1 DEF Top
<1> QED BY <1>1, <1>3, <1>4, <1>5, <1>6 DEF StackOK

LEMMA PopOK ==
    ASSUME TypeOK, StackOK, stack # <<>>, Top.t \in Trans, stack' = Pop
    PROVE  /\ StackOK' /\ stack' \in Seq(Frame) /\ stack' # <<>>
           /\ Top'.pc \in {"run", "ckdel"}
<1>1. /\ Len(stack) \in Nat \ {0} /\ Len(stack') = Len(stack) - 1
      /\ stack' \in Seq(Frame) /\ Top = stack[Len(stack)]
      /\ \A i \in 1 .. (Len(stack) - 1) : stack'[i] = stack[i]
    BY PopLemma, TopFacts
<1>2. Len(stack) > 1
    BY <1>1, TransAssumption DEF StackOK
<1>3. stack' # <<>> /\ Len(stack') \in 1 .. (Len(stack) - 1)
    BY <1>1, <1>2
<1>4. Top' = stack[Len(stack) - 1]
    BY <1>1, <1>2, <1>3 DEF Top
<1>5. stack[Len(stack) - 1].pc \in {"run", "ckdel"}
    BY <1>1, <1>2 DEF StackOK
<1>6. StackOK'
    BY <1>1, <1>2 DEF StackOK
<1> QED BY <1>1, <1>3, <1>4, <1>5, <1>6

\* The frame fields a step sets.
LEMMA FrameType ==
    ASSUME NEW f \in Frame, NEW pc \in PCs, NEW u \in Trans, NEW a \in Nat,
           NEW b \in Nat, NEW e \in BOOLEAN, NEW c \in Trans \cup {NoTrans}
    PROVE  /\ [f EXCEPT !.pc = pc] \in Frame
           /\ [f EXCEPT !.pc = pc, !.dst = u, !.lo = a, !.hi = b] \in Frame
           /\ [f EXCEPT !.lo = a] \in Frame
           /\ [f EXCEPT !.pc = pc, !.err = e] \in Frame
           /\ [f EXCEPT !.pc = pc, !.saved = c] \in Frame
    BY DEF Frame

-----------------------------------------------------------------------------
(* The waiting lists and the write in progress. *)

\* The waiting streams of t are non-empty intervals of written bytes, in order.
QueueOK ==
    \A t \in Trans :
        /\ written[t] <= MaxBytes
        /\ \A k \in 1 .. Len(wait_s[t]) :
              /\ 1 <= wait_s[t][k].lo
              /\ wait_s[t][k].lo <= wait_s[t][k].hi
              /\ wait_s[t][k].hi <= written[t]
        /\ \A j, k \in 1 .. Len(wait_s[t]) :
              j < k => wait_s[t][j].hi < wait_s[t][k].lo

Writing == stack # <<>> /\ Top.pc \in {"copy1", "copy2", "force"}

\* The write in progress is on a transport that is up and holds the last bytes
\* written there, after all those that wait.
OpOK ==
    Writing =>
        /\ status[Top.dst] = "UP"
        /\ 1 <= Top.lo /\ Top.lo <= Top.hi + 1 /\ Top.hi = written[Top.dst]
        /\ \A k \in 1 .. Len(wait_s[Top.dst]) : wait_s[Top.dst][k].hi < Top.lo

LEMMA TakesBound ==
    ASSUME TypeOK, NEW t \in Trans, NEW n \in Nat, NEW k \in Takes(t, n)
    PROVE  k \in Nat /\ k <= n /\ k <= room[t] /\ (room[t] > 0 => k > 0)
    BY DEF TypeOK, Takes, Least

\* What the two say about one waiting stream.
LEMMA ItemFacts ==
    ASSUME TypeOK, QueueOK, NEW t \in Trans
    PROVE  /\ wait_s[t] \in Seq(Item) /\ Len(wait_s[t]) \in Nat
           /\ written[t] \in Nat /\ written[t] <= MaxBytes
           /\ \A i \in 1 .. Len(wait_s[t]) :
                 /\ wait_s[t][i] \in Item
                 /\ wait_s[t][i].lo \in Nat /\ wait_s[t][i].hi \in Nat
                 /\ wait_s[t][i].src \in Trans \cup {NoTrans}
                 /\ 1 <= wait_s[t][i].lo /\ wait_s[t][i].lo <= wait_s[t][i].hi
                 /\ wait_s[t][i].hi <= written[t]
           /\ \A i, j \in 1 .. Len(wait_s[t]) :
                 i < j => wait_s[t][i].hi < wait_s[t][j].lo
<1>1. wait_s[t] \in Seq(Item) /\ written[t] \in Nat
    BY DEF TypeOK
<1>2. \A i \in 1 .. Len(wait_s[t]) : wait_s[t][i] \in Item
    BY <1>1, ElementOfSeq
<1>3. \A i \in 1 .. Len(wait_s[t]) :
          /\ wait_s[t][i].lo \in Nat /\ wait_s[t][i].hi \in Nat
          /\ wait_s[t][i].src \in Trans \cup {NoTrans}
    BY <1>2 DEF Item
<1>4. Len(wait_s[t]) \in Nat
    BY <1>1
<1> QED BY <1>1, <1>2, <1>3, <1>4 DEF QueueOK

\* A send of waiting bytes keeps the types and the order of the list.
LEMMA SentHeadOK ==
    ASSUME TypeOK, QueueOK, NEW t \in Trans, wait_s[t] # <<>>,
           NEW k \in Takes(t, HeadLen(t)), SentHead(t, k)
    PROVE  /\ wait_s' \in [Trans -> Seq(Item)] /\ written' = written
           /\ wire' \in [Trans -> Seq(Nat)] /\ source' \in [Trans -> Int]
           /\ lost' = lost /\ room' \in [Trans -> Nat]
           /\ QueueOK'
           /\ wait_s' = [wait_s EXCEPT ![t] = RestOf(wait_s[t], k)]
           /\ k \in Nat /\ k <= HeadLen(t) /\ HeadLen(t) > 0
           /\ \A u \in Trans : \A i \in 1 .. Len(wait_s'[u]) :
                 \E j \in 1 .. Len(wait_s[u]) : wait_s'[u][i].hi = wait_s[u][j].hi
<1> DEFINE q == wait_s[t]
           r == RestOf(q, k)
<1>0. q \in Seq(Item) /\ q # <<>>
    BY DEF TypeOK
<1>q. /\ \A i \in 1 .. Len(q) : /\ q[i] \in Item /\ q[i].lo \in Nat /\ q[i].hi \in Nat
                               /\ 1 <= q[i].lo /\ q[i].lo <= q[i].hi
                               /\ q[i].hi <= written[t]
      /\ \A i, j \in 1 .. Len(q) : i < j => q[i].hi < q[j].lo
    BY ItemFacts
<1>1. q \in Seq(Item) /\ q # <<>> /\ Len(q) \in Nat \ {0} /\ q[1] \in Item
    BY <1>0
<1>2. HeadLen(t) \in Nat /\ HeadLen(t) > 0 /\ HeadLen(t) = q[1].hi - q[1].lo + 1
    BY <1>1, SMTT(40) DEF HeadLen, QueueOK, Item
<1>3. k \in Nat /\ k <= HeadLen(t) /\ k <= room[t]
    BY <1>2, TakesBound
<1>4. /\ r \in Seq(Item)
      /\ k = q[1].hi - q[1].lo + 1 =>
            /\ Len(r) = Len(q) - 1
            /\ \A j \in 1 .. (Len(q) - 1) : r[j] = q[j + 1]
      /\ k # q[1].hi - q[1].lo + 1 =>
            /\ Len(r) = Len(q)
            /\ r[1] = [lo |-> q[1].lo + k, hi |-> q[1].hi, src |-> q[1].src]
            /\ \A j \in 2 .. Len(q) : r[j] = q[j]
    BY <1>1, <1>2, <1>3, RestOfLemma
<1>5. wait_s' = [wait_s EXCEPT ![t] = r]
    BY DEF SentHead
<1> HIDE DEF r
<1>6. wait_s' \in [Trans -> Seq(Item)] /\ wait_s'[t] = r
      /\ \A u \in Trans : u # t => wait_s'[u] = wait_s[u]
    BY <1>4, <1>5 DEF TypeOK
<1>7. wire' \in [Trans -> Seq(Nat)]
    <2>1. q[1].lo \in Nat /\ q[1].lo + k - 1 \in Int
          /\ q[1].lo + k - 1 >= q[1].lo - 1
        BY <1>1, <1>3 DEF Item
    <2>2. Bytes(q[1].lo, q[1].lo + k - 1) \in Seq(Nat)
        BY <2>1, BytesType
    <2>3. wire[t] \o Bytes(q[1].lo, q[1].lo + k - 1) \in Seq(Nat)
        BY <2>2, ConcatProperties DEF TypeOK
    <2>4. wire' = [wire EXCEPT ![t] = wire[t] \o Bytes(q[1].lo, q[1].lo + k - 1)]
        BY DEF SentHead
    <2> QED BY <2>3, <2>4 DEF TypeOK
<1>8. source' \in [Trans -> Int]
    <2>1. q[1].src \in Trans \cup {NoTrans}
        BY <1>1 DEF Item
    <2>2. CASE q[1].src = NoTrans
        BY <2>2 DEF SentHead, TypeOK
    <2>3. CASE q[1].src # NoTrans
        <3>1. source' = [source EXCEPT ![q[1].src] = source[q[1].src] - k]
            BY <2>3 DEF SentHead
        <3>2. q[1].src \in Trans
            BY <2>1, <2>3
        <3>3. source[q[1].src] \in Int
            BY <3>2 DEF TypeOK
        <3>4. source[q[1].src] - k \in Int
            BY <1>3, <3>3
        <3> QED BY <3>1, <3>4 DEF TypeOK
    <2> QED BY <2>2, <2>3
<1>9. room' \in [Trans -> Nat]
    BY <1>3, SMTT(40) DEF SentHead, TypeOK
<1>10. written' = written /\ lost' = lost
    BY DEF SentHead
<1>11. \A i \in 1 .. Len(r) : r[i].hi \in Nat /\ r[i].lo \in Nat
          /\ 1 <= r[i].lo /\ r[i].lo <= r[i].hi /\ r[i].hi <= written[t]
    <2>1. CASE k = q[1].hi - q[1].lo + 1
        <3>1. \A i \in 1 .. Len(r) : i + 1 \in 1 .. Len(q) /\ r[i] = q[i + 1]
            BY <1>1, <1>4, <2>1
        <3> QED BY <1>q, <3>1
    <2>2. CASE k # q[1].hi - q[1].lo + 1
        <3>1. \A i \in 2 .. Len(r) : i \in 1 .. Len(q) /\ r[i] = q[i]
            BY <1>1, <1>4, <2>2
        <3>2. /\ r[1].lo = q[1].lo + k /\ r[1].hi = q[1].hi
              /\ 1 \in 1 .. Len(q)
            BY <1>1, <1>4, <2>2
        <3>3. q[1].lo + k <= q[1].hi
            BY <1>q, <1>2, <1>3, <2>2, <3>2
        <3> QED BY <1>q, <1>3, <3>1, <3>2, <3>3, SMTT(40)
    <2> QED BY <2>1, <2>2
<1>12. \A i, j \in 1 .. Len(r) : i < j => r[i].hi < r[j].lo
    <2>1. CASE k = q[1].hi - q[1].lo + 1
        <3>1. \A i \in 1 .. Len(r) : i + 1 \in 1 .. Len(q) /\ r[i] = q[i + 1]
            BY <1>1, <1>4, <2>1
        <3>2. SUFFICES ASSUME NEW i \in 1 .. Len(r), NEW j \in 1 .. Len(r), i < j
                       PROVE  r[i].hi < r[j].lo
            OBVIOUS
        <3>3. i + 1 \in 1 .. Len(q) /\ j + 1 \in 1 .. Len(q) /\ i + 1 < j + 1
            BY <3>1, <3>2
        <3>4. q[i + 1].hi < q[j + 1].lo
            BY <1>q, <3>3
        <3> QED BY <3>1, <3>4
    <2>2. CASE k # q[1].hi - q[1].lo + 1
        <3>1. \A i \in 1 .. Len(q) : r[i].hi = q[i].hi
            BY <1>1, <1>4, <2>2
        <3>2. \A j \in 1 .. Len(q) : j > 1 => r[j].lo = q[j].lo
            BY <1>1, <1>4, <2>2
        <3> QED BY <1>q, <1>1, <1>4, <2>2, <3>1, <3>2
    <2> QED BY <2>1, <2>2
<1>13. QueueOK'
    BY <1>6, <1>10, <1>11, <1>12 DEF QueueOK
<1>14. \A i \in 1 .. Len(r) : \E j \in 1 .. Len(q) : r[i].hi = q[j].hi
    <2>1. CASE k = q[1].hi - q[1].lo + 1
        <3>1. \A i \in 1 .. Len(r) : i + 1 \in 1 .. Len(q) /\ r[i].hi = q[i + 1].hi
            BY <1>1, <1>4, <2>1
        <3> QED BY <3>1
    <2>2. CASE k # q[1].hi - q[1].lo + 1
        <3>1. \A i \in 1 .. Len(r) : i \in 1 .. Len(q) /\ r[i].hi = q[i].hi
            BY <1>1, <1>4, <2>2
        <3> QED BY <3>1
    <2> QED BY <2>1, <2>2
<1>15. \A u \in Trans : \A i \in 1 .. Len(wait_s'[u]) :
           \E j \in 1 .. Len(wait_s[u]) : wait_s'[u][i].hi = wait_s[u][j].hi
    BY <1>6, <1>14
<1> QED BY <1>2, <1>3, <1>5, <1>6, <1>7, <1>8, <1>9, <1>10, <1>13, <1>15 DEF r

-----------------------------------------------------------------------------
(* Types, stack, waiting lists and the write in progress together. *)

Inv1 == TypeOK /\ StackOK /\ QueueOK /\ OpOK

LEMMA Inv1Init == Init => Inv1
<1> SUFFICES ASSUME Init PROVE Inv1
    OBVIOUS
<1> USE TransAssumption
<1>1. NewFrame(NoTrans, "run") \in Frame
    BY DEF NewFrame, Frame, PCs
<1>2. stack \in Seq(Frame) /\ Len(stack) = 1 /\ stack[1] = NewFrame(NoTrans, "run")
    BY <1>1 DEF Init
<1>3. stack[1].t = NoTrans /\ stack[1].pc = "run"
    BY <1>2 DEF NewFrame
<1>4. TypeOK
    <2>1. closed \in [Trans -> BOOLEAN] /\ term \in BOOLEAN
        BY Zenon DEF Init
    <2>2. /\ status \in [Trans -> {"UP", "DOWN", "GONE"}]
          /\ wait_s \in [Trans -> Seq(Item)] /\ wire \in [Trans -> Seq(Nat)]
          /\ doomed \subseteq Trans
        BY DEF Init
    <2>3. /\ written \in [Trans -> Nat] /\ source \in [Trans -> Int]
          /\ cur_source \in Trans \cup {NoTrans} /\ lost \in [Trans -> Nat]
          /\ in_s \in [Trans -> Nat] /\ header_size \in [Trans -> Nat]
          /\ extra_flags \in [Trans -> {0, 1}] /\ room \in [Trans -> Nat]
          /\ avail \in [Trans -> Nat]
        BY DEF Init
    <2> QED BY <1>2, <2>1, <2>2, <2>3 DEF TypeOK
<1>5. StackOK
    BY <1>2, <1>3 DEF StackOK
<1>6. QueueOK
    BY DEF Init, QueueOK
<1>7. OpOK
    BY <1>2, <1>3 DEF OpOK, Writing, Top
<1> QED BY <1>4, <1>5, <1>6, <1>7 DEF Inv1

\* Steps of the peers and of signals touch neither lists nor the stack.
LEMMA Inv1Peer ==
    ASSUME Inv1, Peer \/ SignalTerm
    PROVE  Inv1'
<1> USE DEF Inv1
<1>1. TypeOK'
    <2>1. CASE SignalTerm
        BY <2>1 DEF TypeOK, SignalTerm, inVars, outVars
    <2>2. ASSUME NEW t \in Trans, PeerReads(t) PROVE TypeOK'
        BY <2>2, SMTT(40) DEF TypeOK, PeerReads, inVars, outVars
    <2>3. ASSUME NEW t \in Trans, PeerSends(t) PROVE TypeOK'
        <3>1. avail \in [Trans -> Nat] /\ avail' = [avail EXCEPT ![t] = avail[t] + 1]
            BY <2>3 DEF TypeOK, PeerSends
        <3>2. avail' \in [Trans -> Nat]
            BY <3>1
        <3> QED BY <2>3, <3>2 DEF TypeOK, PeerSends, inVars, outVars
    <2>4. ASSUME NEW t \in Trans, PeerCloses(t) PROVE TypeOK'
        <3>1. closed' \in [Trans -> BOOLEAN]
            BY <2>4, Zenon DEF TypeOK, PeerCloses
        <3> QED BY <2>4, <3>1 DEF TypeOK, PeerCloses, inVars, outVars
    <2> QED BY <2>1, <2>2, <2>3, <2>4 DEF Peer
<1>2. UNCHANGED <<stack, wait_s, written, status>>
    BY DEF Peer, SignalTerm, PeerReads, PeerSends, PeerCloses, inVars, outVars
<1>3. StackOK' /\ QueueOK' /\ OpOK'
    BY <1>2 DEF StackOK, QueueOK, OpOK, Writing, Top
<1> QED BY <1>1, <1>3

LEMMA Inv1StartWrite ==
    ASSUME Inv1, NEW u \in Trans, NEW n \in Nat, NEW pc \in {"copy1", "force"},
           StartWrite(u, n, pc)
    PROVE  Inv1'
<1> USE DEF Inv1
<1>1. stack # <<>> /\ Top.pc = "run" /\ status[u] = "UP"
      /\ written[u] + n <= MaxBytes
    BY DEF StartWrite, MayWrite, At
<1>2. Top \in Frame /\ pc \in PCs /\ written[u] \in Nat
      /\ written[u] + 1 \in Nat /\ written[u] + n \in Nat
    <2>1. Top \in Frame /\ pc \in PCs
        BY <1>1, TopFacts DEF PCs
    <2>2. written[u] \in Nat
        BY DEF TypeOK
    <2> QED BY <2>1, <2>2
<1> DEFINE f == [Top EXCEPT !.pc = pc, !.dst = u, !.lo = written[u] + 1,
                            !.hi = written[u] + n]
<1>3. f \in Frame
    BY <1>2, FrameType
<1>4. f.t = Top.t /\ f.pc = pc /\ f.dst = u /\ f.lo = written[u] + 1
      /\ f.hi = written[u] + n
    BY <1>2 DEF Frame
<1>5. stack' = SetTop(f)
    BY DEF StartWrite
<1> HIDE DEF f
<1>6. StackOK' /\ stack' \in Seq(Frame) /\ stack' # <<>> /\ Top' = f
    BY <1>1, <1>3, <1>4, <1>5, SetTopOK
<1>7. /\ written' = [written EXCEPT ![u] = written[u] + n]
      /\ UNCHANGED <<status, wait_s, wire, source, cur_source, lost, in_s,
                     header_size, extra_flags, avail, room, closed, doomed, term>>
    BY DEF StartWrite, inVars
<1>8. TypeOK'
    BY <1>2, <1>6, <1>7 DEF TypeOK
<1>9. written'[u] = written[u] + n /\ \A t \in Trans : t # u => written'[t] = written[t]
    <2>1. written \in [Trans -> Nat]
        BY DEF TypeOK
    <2> QED BY <1>2, <1>7, <2>1
<1>10. QueueOK'
    <2> SUFFICES ASSUME NEW t \in Trans
                 PROVE  /\ written[t] <= written'[t] /\ written'[t] <= MaxBytes
                        /\ written[t] \in Nat /\ written'[t] \in Nat
        BY <1>7, ItemFacts DEF QueueOK
    <2>1. written[t] \in Nat /\ written[t] <= MaxBytes
        BY DEF TypeOK, QueueOK
    <2> QED BY <1>1, <1>2, <1>9, <2>1
<1>11. OpOK'
    <2>1. \A k \in 1 .. Len(wait_s[u]) : wait_s[u][k].hi < written[u] + 1
        BY <1>2, ItemFacts
    <2> QED BY <1>1, <1>2, <1>4, <1>6, <1>7, <1>9, <2>1, SMTT(40) DEF OpOK, Writing
<1> QED BY <1>6, <1>8, <1>10, <1>11

\* The type invariant in the parts that the actions change separately.
OutType == /\ wait_s \in [Trans -> Seq(Item)] /\ written \in [Trans -> Nat]
           /\ wire \in [Trans -> Seq(Nat)] /\ source \in [Trans -> Int]
           /\ lost \in [Trans -> Nat] /\ room \in [Trans -> Nat]

InType == /\ in_s \in [Trans -> Nat] /\ header_size \in [Trans -> Nat]
          /\ extra_flags \in [Trans -> {0, 1}] /\ avail \in [Trans -> Nat]

LEMMA TypeParts ==
    TypeOK <=> /\ OutType /\ InType
               /\ status \in [Trans -> {"UP", "DOWN", "GONE"}]
               /\ cur_source \in Trans \cup {NoTrans}
               /\ closed \in [Trans -> BOOLEAN]
               /\ stack \in Seq(Frame) /\ doomed \subseteq Trans
               /\ term \in BOOLEAN
    BY DEF TypeOK, OutType, InType

LEMMA OutUnchanged ==
    ASSUME OutType, QueueOK, UNCHANGED outVars
    PROVE  OutType' /\ QueueOK'
    BY DEF OutType, QueueOK, outVars

LEMMA InUnchanged ==
    ASSUME InType, UNCHANGED inVars
    PROVE  InType'
    BY DEF InType, inVars

LEMMA DownType ==
    ASSUME status \in [Trans -> {"UP", "DOWN", "GONE"}], NEW t, GoDown(t)
    PROVE  status' \in [Trans -> {"UP", "DOWN", "GONE"}]
    BY DEF GoDown

\* When no write is in progress there is nothing to say about it.
LEMMA NoWriteOK ==
    ASSUME Top'.pc \in {"check", "run", "poll", "ckdel", "flush"}
    PROVE  OpOK'
    BY DEF OpOK, Writing

\* trans_send_waiting keeps the types and the lists; no stream ends later.
LEMMA SendWaitingOK ==
    ASSUME TypeOK, QueueOK, NEW t \in Trans, SendWaiting(t)
    PROVE  /\ OutType' /\ QueueOK' /\ written' = written
           /\ \A u \in Trans : \A i \in 1 .. Len(wait_s'[u]) :
                 \E j \in 1 .. Len(wait_s[u]) : wait_s'[u][i].hi = wait_s[u][j].hi
<1>1. OutType
    BY TypeParts
<1>2. CASE wait_s[t] = <<>> /\ UNCHANGED outVars
    <2>1. wait_s' = wait_s /\ written' = written
        BY <1>2 DEF outVars
    <2> QED BY <1>1, <1>2, <2>1, OutUnchanged
<1>3. CASE wait_s[t] # <<>> /\ \E k \in Takes(t, HeadLen(t)) : SentHead(t, k)
    <2>1. PICK k \in Takes(t, HeadLen(t)) : SentHead(t, k)
        BY <1>3
    <2>2. /\ wait_s' \in [Trans -> Seq(Item)] /\ written' = written
          /\ wire' \in [Trans -> Seq(Nat)] /\ source' \in [Trans -> Int]
          /\ lost' = lost /\ room' \in [Trans -> Nat] /\ QueueOK'
          /\ \A u \in Trans : \A i \in 1 .. Len(wait_s'[u]) :
                \E j \in 1 .. Len(wait_s[u]) : wait_s'[u][i].hi = wait_s[u][j].hi
        BY <1>3, <2>1, SentHeadOK
    <2>3. OutType'
        BY <1>1, <2>2 DEF OutType
    <2> QED BY <2>2, <2>3
<1> QED BY <1>2, <1>3 DEF SendWaiting

\* The write in progress: its frame and what OpOK says of it.
LEMMA OpFacts ==
    ASSUME Inv1, stack # <<>>, Top.pc \in {"copy1", "copy2", "force"}
    PROVE  /\ Top \in Frame /\ Top.dst \in Trans /\ Top.lo \in Nat /\ Top.hi \in Nat
           /\ status[Top.dst] = "UP" /\ Top.hi = written[Top.dst]
           /\ 1 <= Top.lo /\ Top.lo <= Top.hi + 1
           /\ Top.hi <= MaxBytes
           /\ \A k \in 1 .. Len(wait_s[Top.dst]) : wait_s[Top.dst][k].hi < Top.lo
<1>1. Top \in Frame
    BY TopFacts DEF Inv1
<1>2. Top.dst \in Trans /\ Top.lo \in Nat /\ Top.hi \in Nat
    BY <1>1 DEF Frame
<1> QED BY <1>1, <1>2 DEF Inv1, OpOK, Writing, QueueOK

\* The end of a write.
LEMMA WriteDoneOK ==
    ASSUME TypeOK, StackOK, stack # <<>>, NEW pc \in {"run", "poll"},
           pc = "poll" => Top.t \in Draws, stack' = WriteDone(pc)
    PROVE  StackOK' /\ stack' \in Seq(Frame) /\ OpOK'
<1> DEFINE f == [Top EXCEPT !.pc = pc, !.dst = Client, !.lo = 1, !.hi = 0]
<1>1. Top \in Frame /\ pc \in PCs /\ Client \in Trans
    BY TopFacts, TransAssumption DEF PCs
<1>2. f \in Frame
    BY <1>1, FrameType
<1>3. f.t = Top.t /\ f.pc = pc
    BY <1>1 DEF Frame
<1>4. stack' = SetTop(f)
    BY DEF WriteDone
<1> HIDE DEF f
<1>5. StackOK' /\ stack' \in Seq(Frame) /\ stack' # <<>> /\ Top' = f
    BY <1>2, <1>3, <1>4, SetTopOK
<1>6. OpOK'
    BY <1>3, <1>5, NoWriteOK
<1> QED BY <1>5, <1>6

\* A step of the top call that leaves its write alone.
LEMMA GotoOK ==
    ASSUME TypeOK, StackOK, stack # <<>>, NEW pc \in PCs,
           pc \in {"check", "flush"} => Top.t \in Trans,
           pc \in {"poll", "ckdel"} => Top.t \in Draws, stack' = Goto(pc)
    PROVE  /\ StackOK' /\ stack' \in Seq(Frame) /\ stack' # <<>>
           /\ Top'.pc = pc /\ Top'.dst = Top.dst /\ Top'.lo = Top.lo
           /\ Top'.hi = Top.hi /\ Top'.t = Top.t
<1> DEFINE f == [Top EXCEPT !.pc = pc]
<1>1. Top \in Frame
    BY TopFacts
<1>2. f \in Frame
    BY <1>1 DEF Frame
<1>3. f.t = Top.t /\ f.pc = pc /\ f.dst = Top.dst /\ f.lo = Top.lo /\ f.hi = Top.hi
    BY <1>1 DEF Frame
<1>4. stack' = SetTop(f)
    BY DEF Goto
<1> HIDE DEF f
<1>5. StackOK' /\ stack' \in Seq(Frame) /\ stack' # <<>> /\ Top' = f
    BY <1>2, <1>3, <1>4, SetTopOK
<1> QED BY <1>3, <1>5

LEMMA Inv1CopyLeftOver ==
    ASSUME Inv1, CopyLeftOver
    PROVE  Inv1'
<1> USE DEF Inv1
<1> DEFINE u == Top.dst
<1>1. stack # <<>> /\ Top.pc = "copy1"
    BY DEF CopyLeftOver, At
<1>2. /\ u \in Trans /\ Top.lo \in Nat /\ Top.hi \in Nat
      /\ status[u] = "UP" /\ Top.hi = written[u]
      /\ 1 <= Top.lo /\ Top.lo <= Top.hi + 1
      /\ \A k \in 1 .. Len(wait_s[u]) : wait_s[u][k].hi < Top.lo
    BY <1>1, OpFacts
<1>3. OutType /\ InType /\ InType' /\ UNCHANGED <<cur_source, closed, doomed, term>>
    BY TypeParts, InUnchanged DEF CopyLeftOver
<1>4. CASE GoDown(u) /\ stack' = WriteDone("run") /\ UNCHANGED outVars
    <2>1. StackOK' /\ stack' \in Seq(Frame) /\ OpOK'
        BY <1>1, <1>4, WriteDoneOK
    <2>2. OutType' /\ QueueOK'
        BY <1>3, <1>4, OutUnchanged
    <2>3. status' \in [Trans -> {"UP", "DOWN", "GONE"}]
        BY <1>4, DownType DEF TypeOK
    <2> QED BY <1>3, <2>1, <2>2, <2>3 DEF TypeOK, OutType, InType
<1>5. CASE SendWaiting(u) /\ stack' = Goto("copy2") /\ UNCHANGED status
    <2>1. /\ StackOK' /\ stack' \in Seq(Frame) /\ stack' # <<>>
          /\ Top'.pc = "copy2" /\ Top'.dst = u /\ Top'.lo = Top.lo /\ Top'.hi = Top.hi
        BY <1>1, <1>5, GotoOK DEF PCs
    <2>2. /\ OutType' /\ QueueOK' /\ written' = written
          /\ \A i \in 1 .. Len(wait_s'[u]) :
                \E j \in 1 .. Len(wait_s[u]) : wait_s'[u][i].hi = wait_s[u][j].hi
        BY <1>2, <1>5, SendWaitingOK
    <2>3. OpOK'
        <3>1. \A i \in 1 .. Len(wait_s'[u]) : wait_s'[u][i].hi < Top.lo
            BY <1>2, <2>2
        <3> QED BY <1>2, <1>5, <2>1, <2>2, <3>1 DEF OpOK, Writing
    <2> QED BY <1>3, <1>5, <2>1, <2>2, <2>3 DEF TypeOK, OutType, InType
<1> QED BY <1>4, <1>5 DEF CopyLeftOver

LEMMA WireType ==
    ASSUME wire \in [Trans -> Seq(Nat)], NEW u \in Trans, NEW a \in Nat, NEW k \in Nat,
           wire' = [wire EXCEPT ![u] = wire[u] \o Bytes(a, a + k - 1)]
    PROVE  wire' \in [Trans -> Seq(Nat)]
<1>1. Bytes(a, a + k - 1) \in Seq(Nat)
    BY BytesType
<1>2. wire[u] \o Bytes(a, a + k - 1) \in Seq(Nat)
    BY <1>1, ConcatProperties
<1> QED BY <1>2

\* A stream appended behind all that wait.
LEMMA AppendOK ==
    ASSUME TypeOK, QueueOK, NEW u \in Trans, NEW h \in Item,
           1 <= h.lo, h.lo <= h.hi, h.hi <= written[u],
           \A k \in 1 .. Len(wait_s[u]) : wait_s[u][k].hi < h.lo,
           wait_s' = [wait_s EXCEPT ![u] = Append(wait_s[u], h)],
           written' = written
    PROVE  wait_s' \in [Trans -> Seq(Item)] /\ QueueOK'
<1> DEFINE q == wait_s[u]
           r == Append(q, h)
<1>1. /\ q \in Seq(Item) /\ Len(q) \in Nat
      /\ \A i \in 1 .. Len(q) : /\ q[i].lo \in Nat /\ q[i].hi \in Nat
                               /\ 1 <= q[i].lo /\ q[i].lo <= q[i].hi
                               /\ q[i].hi <= written[u]
      /\ \A i, j \in 1 .. Len(q) : i < j => q[i].hi < q[j].lo
    BY ItemFacts
<1>2. r \in Seq(Item) /\ Len(r) = Len(q) + 1 /\ r[Len(q) + 1] = h
      /\ \A i \in 1 .. Len(q) : r[i] = q[i]
    BY <1>1
<1> HIDE DEF r
<1>3. wait_s' = [wait_s EXCEPT ![u] = r]
    BY DEF r
<1>4. /\ wait_s' \in [Trans -> Seq(Item)] /\ wait_s'[u] = r
      /\ \A t \in Trans : t # u => wait_s'[t] = wait_s[t]
    BY <1>2, <1>3 DEF TypeOK
<1>5. h.lo \in Nat /\ h.hi \in Nat
    BY DEF Item
<1>6. \A i \in 1 .. Len(r) : 1 <= r[i].lo /\ r[i].lo <= r[i].hi /\ r[i].hi <= written[u]
    <2> SUFFICES ASSUME NEW i \in 1 .. Len(r)
                 PROVE  1 <= r[i].lo /\ r[i].lo <= r[i].hi /\ r[i].hi <= written[u]
        OBVIOUS
    <2>1. i \in 1 .. Len(q) \/ i = Len(q) + 1
        BY <1>1, <1>2
    <2>2. CASE i \in 1 .. Len(q)
        BY <1>1, <1>2, <2>2
    <2>3. CASE i = Len(q) + 1
        BY <1>2, <2>3
    <2> QED BY <2>1, <2>2, <2>3
<1>7. \A i, j \in 1 .. Len(r) : i < j => r[i].hi < r[j].lo
    <2> SUFFICES ASSUME NEW i \in 1 .. Len(r), NEW j \in 1 .. Len(r), i < j
                 PROVE  r[i].hi < r[j].lo
        OBVIOUS
    <2>1. i \in 1 .. Len(q) /\ (j \in 1 .. Len(q) \/ j = Len(q) + 1)
        BY <1>1, <1>2
    <2>2. CASE j \in 1 .. Len(q)
        BY <1>1, <1>2, <2>1, <2>2
    <2>3. CASE j = Len(q) + 1
        BY <1>2, <2>1, <2>3
    <2> QED BY <2>1, <2>2, <2>3
<1> QED BY <1>4, <1>6, <1>7 DEF QueueOK

LEMMA ChargedType ==
    ASSUME TypeOK, NEW u
    PROVE  ChargedTo(u) \in Trans \cup {NoTrans}
    BY DEF TypeOK, ChargedTo

LEMMA Inv1CopyNew ==
    ASSUME Inv1, CopyNew
    PROVE  Inv1'
<1> USE DEF Inv1
<1> DEFINE u == Top.dst
           n == Top.hi - Top.lo + 1
<1>1. stack # <<>> /\ Top.pc = "copy2"
    BY DEF CopyNew, At
<1>2. /\ u \in Trans /\ Top.lo \in Nat /\ Top.hi \in Nat
      /\ status[u] = "UP" /\ Top.hi = written[u]
      /\ 1 <= Top.lo /\ Top.lo <= Top.hi + 1
      /\ \A k \in 1 .. Len(wait_s[u]) : wait_s[u][k].hi < Top.lo
    BY <1>1, OpFacts
<1>n. n \in Nat
    BY <1>2
<1>3. OutType /\ InType /\ InType' /\ UNCHANGED <<status, cur_source, closed, doomed, term>>
    BY TypeParts, InUnchanged DEF CopyNew
<1>4. CASE stack' = WriteDone("run") /\ UNCHANGED outVars
    <2>1. StackOK' /\ stack' \in Seq(Frame) /\ OpOK'
        BY <1>1, <1>4, WriteDoneOK
    <2>2. OutType' /\ QueueOK'
        BY <1>3, <1>4, OutUnchanged
    <2> QED BY <1>3, <2>1, <2>2 DEF TypeOK, OutType, InType
<1>5. ASSUME NEW k \in (IF wait_s[u] = <<>> /\ n > 0 THEN Takes(u, n) ELSE {0}),
             wire' = [wire EXCEPT ![u] = wire[u] \o Bytes(Top.lo, Top.lo + k - 1)],
             room' = [room EXCEPT ![u] = room[u] - k],
             IF n - k < 1
             THEN UNCHANGED <<wait_s, source>>
             ELSE /\ wait_s' = [wait_s EXCEPT ![u] = Append(wait_s[u],
                                  [lo |-> Top.lo + k, hi |-> Top.hi,
                                   src |-> ChargedTo(u)])]
                  /\ source' = IF ChargedTo(u) = NoTrans THEN source
                               ELSE [source EXCEPT ![ChargedTo(u)] =
                                        source[ChargedTo(u)] + (n - k)],
             UNCHANGED <<written, lost>>,
             \E pc \in AfterWrite(u) : stack' = WriteDone(pc)
      PROVE  Inv1'
    <2>1. StackOK' /\ stack' \in Seq(Frame) /\ OpOK'
        <3>1. PICK pc \in AfterWrite(u) : stack' = WriteDone(pc)
            BY <1>5
        <3>2. pc \in {"run", "poll"} /\ (pc = "poll" => Top.t \in Draws)
            BY DEF AfterWrite
        <3> QED BY <1>1, <3>1, <3>2, WriteDoneOK
    <2>2. k \in Nat /\ k <= n /\ k <= room[u] /\ room[u] \in Nat
        <3>1. room[u] \in Nat
            BY <1>2 DEF TypeOK
        <3> QED BY <1>2, <1>n, <3>1, TakesBound
    <2>3. wire' \in [Trans -> Seq(Nat)]
        BY <1>2, <1>3, <1>5, <2>2, WireType DEF OutType
    <2>4. room' \in [Trans -> Nat]
        <3>1. room[u] - k \in Nat
            BY <2>2
        <3> QED BY <1>3, <1>5, <3>1 DEF OutType
    <2>5. source' \in [Trans -> Int]
        <3>1. CASE source' = source
            BY <1>3, <3>1 DEF OutType
        <3>2. CASE /\ ChargedTo(u) # NoTrans
                   /\ source' = [source EXCEPT ![ChargedTo(u)] =
                                      source[ChargedTo(u)] + (n - k)]
            <4>1. ChargedTo(u) \in Trans
                BY <3>2, ChargedType
            <4>2. source[ChargedTo(u)] \in Int
                BY <1>3, <4>1 DEF OutType
            <4>3. source[ChargedTo(u)] + (n - k) \in Int
                BY <4>2, <2>2, <1>n
            <4> QED BY <1>3, <3>2, <4>3 DEF OutType
        <3> QED BY <1>5, <3>1, <3>2
    <2>6. wait_s' \in [Trans -> Seq(Item)] /\ QueueOK'
        <3>1. CASE n - k < 1
            BY <1>3, <1>5, <3>1 DEF OutType, QueueOK
        <3>2. CASE ~(n - k < 1)
            <4> DEFINE h == [lo |-> Top.lo + k, hi |-> Top.hi, src |-> ChargedTo(u)]
            <4>1. h \in Item
                BY <1>2, <2>2, ChargedType DEF Item
            <4>2. h.lo = Top.lo + k /\ h.hi = Top.hi
                OBVIOUS
            <4>3. wait_s' = [wait_s EXCEPT ![u] = Append(wait_s[u], h)]
                BY <1>5, <3>2
            <4> HIDE DEF h
            <4>4. 1 <= h.lo /\ h.lo <= h.hi /\ h.hi <= written[u]
                BY <1>2, <2>2, <3>2, <4>2
            <4>5. \A i \in 1 .. Len(wait_s[u]) : wait_s[u][i].hi < h.lo
                BY <1>2, <2>2, <4>2, ItemFacts
            <4> QED BY <1>2, <1>5, <4>1, <4>3, <4>4, <4>5, AppendOK
        <3> QED BY <3>1, <3>2
    <2>7. OutType'
        BY <1>3, <1>5, <2>3, <2>4, <2>5, <2>6 DEF OutType
    <2> QED BY <1>3, <2>1, <2>6, <2>7 DEF TypeOK, OutType, InType
<1> QED BY <1>4, <1>5 DEF CopyNew

LEMMA Inv1ForceSend ==
    ASSUME Inv1, ForceSend
    PROVE  Inv1'
<1> USE DEF Inv1
<1> DEFINE u == Top.dst
<1>1. stack # <<>> /\ Top.pc = "force"
    BY DEF ForceSend, At
<1>2. /\ Top \in Frame /\ u \in Trans /\ Top.lo \in Nat /\ Top.hi \in Nat
      /\ status[u] = "UP" /\ Top.hi = written[u]
      /\ 1 <= Top.lo /\ Top.lo <= Top.hi + 1
      /\ \A k \in 1 .. Len(wait_s[u]) : wait_s[u][k].hi < Top.lo
    BY <1>1, OpFacts
<1>3. OutType /\ InType /\ InType' /\ UNCHANGED <<status, cur_source, closed, doomed, term>>
    BY TypeParts, InUnchanged DEF ForceSend
<1>4. CASE SendWaiting(u) /\ UNCHANGED stack
    <2>1. /\ OutType' /\ QueueOK' /\ written' = written
          /\ \A i \in 1 .. Len(wait_s'[u]) :
                \E j \in 1 .. Len(wait_s[u]) : wait_s'[u][i].hi = wait_s[u][j].hi
        BY <1>2, <1>4, SendWaitingOK
    <2>2. Top' = Top /\ StackOK'
        BY <1>4 DEF Top, StackOK
    <2>3. OpOK'
        <3>1. \A i \in 1 .. Len(wait_s'[u]) : wait_s'[u][i].hi < Top.lo
            BY <1>2, <2>1
        <3> QED BY <1>2, <1>3, <2>1, <2>2, <3>1 DEF OpOK, Writing
    <2> QED BY <1>3, <1>4, <2>1, <2>2, <2>3 DEF TypeOK, OutType, InType
<1>5. ASSUME wait_s[u] = <<>>, Top.lo <= Top.hi,
             NEW k \in Takes(u, Top.hi - Top.lo + 1),
             wire' = [wire EXCEPT ![u] = wire[u] \o Bytes(Top.lo, Top.lo + k - 1)],
             room' = [room EXCEPT ![u] = room[u] - k],
             stack' = SetTop([Top EXCEPT !.lo = Top.lo + k]),
             UNCHANGED <<wait_s, written, source, lost>>
      PROVE  Inv1'
    <2> DEFINE f == [Top EXCEPT !.lo = Top.lo + k]
    <2>1. Top.hi - Top.lo + 1 \in Nat /\ room[u] \in Nat
        BY <1>2, <1>3, <1>5 DEF OutType
    <2>2. k \in Nat /\ k <= Top.hi - Top.lo + 1 /\ k <= room[u]
        BY <1>2, <2>1, TakesBound
    <2>3. f \in Frame
        BY <1>2, <2>2 DEF Frame
    <2>4. f.t = Top.t /\ f.pc = "force" /\ f.dst = u /\ f.lo = Top.lo + k /\ f.hi = Top.hi
        BY <1>1, <1>2 DEF Frame
    <2>5. stack' = SetTop(f)
        BY <1>5
    <2> HIDE DEF f
    <2>6. StackOK' /\ stack' \in Seq(Frame) /\ stack' # <<>> /\ Top' = f
        BY <1>1, <2>3, <2>4, <2>5, SetTopOK
    <2>7. wire' \in [Trans -> Seq(Nat)]
        BY <1>2, <1>3, <1>5, <2>2, WireType DEF OutType
    <2>8. room' \in [Trans -> Nat]
        <3>1. room[u] - k \in Nat
            BY <2>1, <2>2
        <3> QED BY <1>3, <1>5, <3>1 DEF OutType
    <2>9. QueueOK'
        BY <1>5 DEF QueueOK
    <2>10. OpOK'
        BY <1>2, <1>3, <1>5, <2>2, <2>4, <2>6, SMTT(40) DEF OpOK, Writing
    <2> QED BY <1>3, <1>5, <2>6, <2>7, <2>8, <2>9, <2>10 DEF TypeOK, OutType, InType
<1> QED BY <1>4, <1>5 DEF ForceSend, SendWaiting

LEMMA Inv1ForceEnd ==
    ASSUME Inv1, ForceEnd
    PROVE  Inv1'
<1> USE DEF Inv1
<1>1. stack # <<>> /\ stack' = WriteDone("run") /\ UNCHANGED outVars
      /\ UNCHANGED <<inVars, cur_source, closed, doomed, term>>
    BY DEF ForceEnd, At
<1>2. StackOK' /\ stack' \in Seq(Frame) /\ OpOK'
    BY <1>1, WriteDoneOK
<1>3. OutType' /\ QueueOK' /\ InType'
    BY <1>1, TypeParts, OutUnchanged, InUnchanged
<1>4. status' \in [Trans -> {"UP", "DOWN", "GONE"}]
    BY DownType DEF ForceEnd, TypeOK
<1> QED BY <1>1, <1>2, <1>3, <1>4 DEF TypeOK, OutType, InType

\* A call of trans_check_wait_objs begins on top of the stack s.
LEMMA NewFrameType ==
    ASSUME NEW t \in Trans
    PROVE  /\ NewFrame(t, "check") \in Frame
           /\ NewFrame(t, "check").t = t /\ NewFrame(t, "check").pc = "check"
    BY TransAssumption DEF NewFrame, Frame, PCs

LEMMA Inv1Poll ==
    ASSUME Inv1, NEW t \in Trans, Poll(t)
    PROVE  Inv1'
<1> USE DEF Inv1
<1>1. /\ stack # <<>> /\ Top.pc = "run" /\ Len(stack) = 1
      /\ stack' = Append(stack, NewFrame(t, "check"))
      /\ UNCHANGED <<status, outVars, cur_source, inVars, closed, doomed, term>>
    BY DEF Poll, At
<1> DEFINE f == NewFrame(t, "check")
<1>2. f \in Frame /\ f.t = t /\ f.pc = "check"
    BY NewFrameType
<1>3. stack \in Seq(Frame)
    BY DEF TypeOK
<1>h. stack' = Append(stack, f)
    BY <1>1
<1> HIDE DEF f
<1>4. /\ stack' \in Seq(Frame) /\ stack' # <<>> /\ Len(stack') = 2
      /\ stack'[1] = stack[1] /\ stack'[2] = f
    <2>1. /\ stack' \in Seq(Frame) /\ stack' # <<>>
          /\ Len(stack') = Len(stack) + 1 /\ stack'[Len(stack) + 1] = f
          /\ \A i \in 1 .. Len(stack) : stack'[i] = stack[i]
        BY <1>2, <1>3, <1>h, PushLemma
    <2>2. Len(stack) = 1
        BY <1>1
    <2> QED BY <2>1, <2>2
<1>5. stack[1].t = NoTrans /\ stack[1].pc = "run"
    BY <1>1 DEF StackOK, Top
<1>6. StackOK'
    BY <1>2, <1>4, <1>5 DEF StackOK
<1>7. OpOK'
    BY <1>2, <1>4, NoWriteOK DEF Top
<1>8. OutType' /\ QueueOK' /\ InType'
    BY <1>1, TypeParts, OutUnchanged, InUnchanged
<1> QED BY <1>1, <1>4, <1>6, <1>7, <1>8 DEF TypeOK, OutType, InType

LEMMA Inv1CheckChan ==
    ASSUME Inv1, CheckChan
    PROVE  Inv1'
<1> USE DEF Inv1
<1>1. /\ stack # <<>> /\ Top.pc = "poll"
      /\ UNCHANGED <<status, outVars, cur_source, inVars, closed, doomed, term>>
    BY DEF CheckChan, At
<1>2. OutType' /\ QueueOK' /\ InType'
    BY <1>1, TypeParts, OutUnchanged, InUnchanged
<1>3. Top.t \in Draws /\ Top = stack[Len(stack)] /\ Len(stack) \in Nat \ {0}
    BY <1>1, TopFacts DEF StackOK
<1>4. CASE stack' = Goto("run")
    <2>1. StackOK' /\ stack' \in Seq(Frame) /\ Top'.pc = "run"
        BY <1>1, <1>4, GotoOK DEF PCs
    <2>2. OpOK'
        BY <2>1, NoWriteOK
    <2> QED BY <1>1, <1>2, <2>1, <2>2 DEF TypeOK, OutType, InType
<1>5. CASE stack' = Append(Goto("ckdel"), NewFrame(Chan, "check"))
    <2> DEFINE g == [Top EXCEPT !.pc = "ckdel"]
               s == Goto("ckdel")
               f == NewFrame(Chan, "check")
    <2>1. g \in Frame /\ g.t = Top.t /\ g.pc = "ckdel"
        <3>1. Top \in Frame
            BY <1>1, TopFacts
        <3> QED BY <3>1 DEF Frame, PCs
    <2>2. s = SetTop(g)
        BY DEF Goto
    <2>3. f \in Frame /\ f.t \in Trans /\ f.pc = "check"
        BY NewFrameType, TransAssumption
    <2>h. stack' = Append(s, f)
        BY <1>5
    <2> HIDE DEF g, s, f
    <2>4. /\ s \in Seq(Frame) /\ Len(s) = Len(stack) /\ s[Len(stack)] = g
          /\ \A i \in 1 .. (Len(stack) - 1) : s[i] = stack[i]
        BY <1>1, <2>1, <2>2, SetTopLemma
    <2>5. /\ stack' \in Seq(Frame) /\ stack' # <<>> /\ Len(stack') = Len(stack) + 1
          /\ stack'[Len(stack) + 1] = f /\ stack'[Len(stack)] = g
          /\ \A i \in 1 .. (Len(stack) - 1) : stack'[i] = stack[i]
        BY <1>3, <2>3, <2>4, <2>h, PushLemma
    <2>6. stack'[1].t = NoTrans /\ stack'[1].pc \notin {"check", "flush"}
        BY <1>1, <1>3, <2>1, <2>5 DEF StackOK
    <2>7. \A i \in 2 .. Len(stack') : stack'[i].t \in Trans
        BY <1>1, <1>3, <2>1, <2>3, <2>5 DEF StackOK
    <2>8. \A i \in 1 .. Len(stack') :
              /\ stack'[i].pc \in {"poll", "ckdel"} => stack'[i].t \in Draws
              /\ i < Len(stack') => stack'[i].pc \in {"run", "ckdel"}
              /\ (i < Len(stack') /\ i > 1) => stack'[i].pc = "ckdel"
        BY <1>1, <1>3, <2>1, <2>3, <2>5 DEF StackOK
    <2>9. StackOK'
        BY <2>6, <2>7, <2>8 DEF StackOK
    <2>10. OpOK'
        BY <2>3, <2>5, NoWriteOK DEF Top
    <2> QED BY <1>1, <1>2, <2>5, <2>9, <2>10 DEF TypeOK, OutType, InType
<1> QED BY <1>4, <1>5 DEF CheckChan

\* A call in its polling part works on a transport.
LEMMA CheckerFacts ==
    ASSUME Inv1, stack # <<>>, Top.pc \in {"check", "flush"}
    PROVE  Top.t \in Trans /\ Top \in Frame
<1>1. Top \in Frame /\ Len(stack) \in Nat \ {0} /\ Top = stack[Len(stack)]
    BY TopFacts DEF Inv1
<1> QED BY <1>1 DEF Inv1, StackOK

\* The end of a call of trans_check_wait_objs.
LEMMA ReturnOK ==
    ASSUME Inv1, stack # <<>>, Top.pc \in {"check", "flush"}, NEW rv, Return(rv)
    PROVE  StackOK' /\ stack' \in Seq(Frame) /\ OpOK' /\ doomed' \subseteq Trans
<1>1. Top.t \in Trans
    BY CheckerFacts
<1>2. StackOK' /\ stack' \in Seq(Frame) /\ Top'.pc \in {"run", "ckdel"}
    BY <1>1, PopOK DEF Inv1, Return
<1>3. OpOK'
    BY <1>2, NoWriteOK
<1>4. doomed' \subseteq Trans
    BY <1>1 DEF Inv1, TypeOK, Return
<1> QED BY <1>2, <1>3, <1>4

LEMMA Inv1CheckDown ==
    ASSUME Inv1, CheckDown
    PROVE  Inv1'
<1> USE DEF Inv1
<1>1. /\ stack # <<>> /\ Top.pc = "check" /\ Return(TRUE)
      /\ UNCHANGED <<status, outVars, cur_source, inVars, closed, term>>
    BY DEF CheckDown, At
<1>2. StackOK' /\ stack' \in Seq(Frame) /\ OpOK' /\ doomed' \subseteq Trans
    BY <1>1, ReturnOK
<1>3. OutType' /\ QueueOK' /\ InType'
    BY <1>1, TypeParts, OutUnchanged, InUnchanged
<1> QED BY <1>1, <1>2, <1>3 DEF TypeOK, OutType, InType

LEMMA Inv1CheckNoRead ==
    ASSUME Inv1, CheckNoRead
    PROVE  Inv1'
<1> USE DEF Inv1
<1>1. /\ stack # <<>> /\ Top.pc = "check" /\ stack' = Goto("flush")
      /\ UNCHANGED <<status, outVars, cur_source, inVars, closed, doomed, term>>
    BY DEF CheckNoRead, At
<1>2. StackOK' /\ stack' \in Seq(Frame) /\ Top'.pc = "flush"
    BY <1>1, CheckerFacts, GotoOK DEF PCs
<1>3. OutType' /\ QueueOK' /\ InType' /\ OpOK'
    BY <1>1, <1>2, TypeParts, OutUnchanged, InUnchanged, NoWriteOK
<1> QED BY <1>1, <1>2, <1>3 DEF TypeOK, OutType, InType

LEMMA Inv1CheckEof ==
    ASSUME Inv1, CheckEof
    PROVE  Inv1'
<1> USE DEF Inv1
<1>1. /\ stack # <<>> /\ Top.pc = "check" /\ Return(TRUE) /\ GoDown(Top.t)
      /\ UNCHANGED <<outVars, cur_source, inVars, closed, term>>
    BY DEF CheckEof, At
<1>2. StackOK' /\ stack' \in Seq(Frame) /\ OpOK' /\ doomed' \subseteq Trans
    BY <1>1, ReturnOK
<1>3. OutType' /\ QueueOK' /\ InType'
    BY <1>1, TypeParts, OutUnchanged, InUnchanged
<1>4. status' \in [Trans -> {"UP", "DOWN", "GONE"}]
    BY <1>1, DownType DEF TypeOK
<1> QED BY <1>1, <1>2, <1>3, <1>4 DEF TypeOK, OutType, InType

\* Reading moves k bytes from the socket to the input stream.
LEMMA RecvOK ==
    ASSUME TypeOK, NEW t \in Trans, NEW k \in 0 .. avail[t], Recv(t, k)
    PROVE  in_s' \in [Trans -> Nat] /\ avail' \in [Trans -> Nat]
<1>1. in_s \in [Trans -> Nat] /\ avail \in [Trans -> Nat]
    BY DEF TypeOK
<1>2. /\ in_s' = [in_s EXCEPT ![t] = in_s[t] + k]
      /\ avail' = [avail EXCEPT ![t] = avail[t] - k]
    BY DEF Recv
<1>3. in_s[t] + k \in Nat /\ avail[t] - k \in Nat
    BY <1>1
<1> QED BY <1>1, <1>2, <1>3

LEMMA Inv1CheckReadPart ==
    ASSUME Inv1, CheckReadPart
    PROVE  Inv1'
<1> USE DEF Inv1
<1> DEFINE t == Top.t
<1>1. /\ stack # <<>> /\ Top.pc = "check" /\ stack' = Goto("flush")
      /\ UNCHANGED <<status, outVars, cur_source, closed, doomed, term>>
    BY DEF CheckReadPart, At
<1>2. t \in Trans
    BY <1>1, CheckerFacts
<1>3. StackOK' /\ stack' \in Seq(Frame) /\ Top'.pc = "flush"
    BY <1>1, <1>2, GotoOK DEF PCs
<1>4. OutType' /\ QueueOK' /\ OpOK'
    BY <1>1, <1>3, TypeParts, OutUnchanged, NoWriteOK
<1>5. InType'
    <2>1. PICK k \in 0 .. avail[t] :
              /\ Recv(t, k)
              /\ IF k < ToRead(t)
                 THEN UNCHANGED <<header_size, extra_flags>>
                 ELSE /\ extra_flags[t] = 0
                      /\ header_size' = [header_size EXCEPT ![t] =
                                             header_size[t] + BodySize]
                      /\ extra_flags' = [extra_flags EXCEPT ![t] = 1]
        BY DEF CheckReadPart
    <2>2. in_s' \in [Trans -> Nat] /\ avail' \in [Trans -> Nat]
        BY <1>2, <2>1, RecvOK
    <2>3. InType
        BY TypeParts
    <2>4. header_size' \in [Trans -> Nat]
        <3>1. header_size[t] + BodySize \in Nat
            BY <1>2, <2>3, TransAssumption DEF InType
        <3> QED BY <2>1, <2>3, <3>1 DEF InType
    <2>5. extra_flags' \in [Trans -> {0, 1}]
        BY <2>1, <2>3 DEF InType
    <2> QED BY <2>2, <2>4, <2>5 DEF InType
<1> QED BY <1>1, <1>3, <1>4, <1>5 DEF TypeOK, OutType, InType

LEMMA Inv1CheckDataIn ==
    ASSUME Inv1, CheckDataIn
    PROVE  Inv1'
<1> USE DEF Inv1
<1> DEFINE t == Top.t
           f == [Top EXCEPT !.pc = "run", !.saved = cur_source]
<1>1. /\ stack # <<>> /\ Top.pc = "check" /\ stack' = SetTop(f) /\ cur_source' = t
      /\ UNCHANGED <<status, outVars, header_size, extra_flags, closed, doomed, term>>
    BY DEF CheckDataIn, At
<1>2. t \in Trans /\ Top \in Frame /\ cur_source \in Trans \cup {NoTrans}
    BY <1>1, CheckerFacts DEF TypeOK
<1>3. f \in Frame /\ f.t = t /\ f.pc = "run"
    BY <1>2 DEF Frame, PCs
<1> HIDE DEF f
<1>4. StackOK' /\ stack' \in Seq(Frame) /\ Top' = f
    BY <1>1, <1>3, SetTopOK
<1>5. OutType' /\ QueueOK' /\ OpOK'
    BY <1>1, <1>3, <1>4, TypeParts, OutUnchanged, NoWriteOK
<1>6. InType'
    <2>1. in_s' \in [Trans -> Nat] /\ avail' \in [Trans -> Nat]
        BY <1>2, RecvOK DEF CheckDataIn
    <2> QED BY <1>1, <2>1, TypeParts DEF InType
<1> QED BY <1>1, <1>2, <1>4, <1>5, <1>6 DEF TypeOK, OutType, InType

LEMMA Inv1DataInReturns ==
    ASSUME Inv1, DataInReturns
    PROVE  Inv1'
<1> USE DEF Inv1
<1> DEFINE t == Top.t
<1>1. /\ stack # <<>> /\ Top.pc = "run" /\ t # NoTrans
      /\ UNCHANGED <<status, outVars, avail, closed, doomed, term>>
    BY DEF DataInReturns, At
<1>2. Top \in Frame /\ t \in Trans /\ Top.saved \in Trans \cup {NoTrans}
    <2>1. Top \in Frame
        BY <1>1, TopFacts
    <2> QED BY <1>1, <2>1 DEF Frame
<1>3. StackOK' /\ stack' \in Seq(Frame) /\ Top'.pc = "flush"
    <2>1. PICK err \in BOOLEAN : stack' = SetTop([Top EXCEPT !.pc = "flush", !.err = err])
        BY DEF DataInReturns
    <2> DEFINE f == [Top EXCEPT !.pc = "flush", !.err = err]
    <2>2. f \in Frame /\ f.t = t /\ f.pc = "flush"
        BY <1>2 DEF Frame, PCs
    <2>3. stack' = SetTop(f)
        BY <2>1
    <2> HIDE DEF f
    <2> QED BY <1>1, <1>2, <2>2, <2>3, SetTopOK
<1>4. OutType' /\ QueueOK' /\ OpOK'
    BY <1>1, <1>3, TypeParts, OutUnchanged, NoWriteOK
<1>5. InType'
    <2>1. /\ in_s' = [in_s EXCEPT ![t] = 0]
          /\ header_size' = [header_size EXCEPT ![t] = HeaderSize]
          /\ extra_flags' = [extra_flags EXCEPT ![t] = 0]
        BY DEF DataInReturns
    <2> QED BY <1>1, <2>1, TypeParts, TransAssumption DEF InType
<1>6. cur_source' \in Trans \cup {NoTrans}
    BY <1>2 DEF DataInReturns
<1> QED BY <1>1, <1>3, <1>4, <1>5, <1>6 DEF TypeOK, OutType, InType

LEMMA Inv1Flush ==
    ASSUME Inv1, Flush
    PROVE  Inv1'
<1> USE DEF Inv1
<1>1. stack # <<>> /\ Top.pc = "flush" /\ UNCHANGED <<cur_source, inVars, closed, term>>
    BY DEF Flush, At
<1>2. Top.t \in Trans /\ Top \in Frame
    BY <1>1, CheckerFacts
<1>3. StackOK' /\ stack' \in Seq(Frame) /\ OpOK' /\ doomed' \subseteq Trans
    BY <1>1, ReturnOK DEF Flush
<1>4. OutType' /\ QueueOK'
    BY <1>2, SendWaitingOK, TypeParts, OutUnchanged DEF Flush
<1>5. InType'
    BY <1>1, TypeParts, InUnchanged
<1>6. status' \in [Trans -> {"UP", "DOWN", "GONE"}]
    BY DownType DEF Flush, TypeOK
<1> QED BY <1>1, <1>3, <1>4, <1>5, <1>6 DEF TypeOK, OutType, InType

\* The bytes of t that wait for a source are finitely many.
LEMMA OwedFinite ==
    ASSUME TypeOK, NEW t \in Trans, NEW s
    PROVE  IsFiniteSet(Owed(t, s)) /\ Cardinality(Owed(t, s)) \in Nat
<1>1. written[t] \in Int /\ 1 \in Int
    BY DEF TypeOK
<1>2. IsFiniteSet(1 .. written[t])
    BY <1>1, FS_Interval
<1>3. Owed(t, s) \subseteq 1 .. written[t]
    BY DEF Owed
<1>4. IsFiniteSet(Owed(t, s))
    BY <1>2, <1>3, FS_Subset
<1> QED BY <1>4, FS_CardinalityType

LEMMA DeleteOK ==
    ASSUME TypeOK, QueueOK, NEW t \in Trans, trans_delete(t)
    PROVE  /\ OutType' /\ QueueOK' /\ doomed' \subseteq Trans
           /\ status' \in [Trans -> {"UP", "DOWN", "GONE"}]
<1>1. OutType /\ UNCHANGED <<written, wire, source, room>>
    BY TypeParts DEF trans_delete
<1>2. lost' \in [Trans -> Nat]
    <2>1. lost' = [s \in Trans |-> lost[s] + Cardinality(Owed(t, s))]
        BY DEF trans_delete
    <2>2. \A s \in Trans : Cardinality(Owed(t, s)) \in Nat
        BY OwedFinite
    <2>3. \A s \in Trans : lost[s] \in Nat
        BY <1>1 DEF OutType
    <2>4. \A s \in Trans : lost[s] + Cardinality(Owed(t, s)) \in Nat
        BY <2>2, <2>3
    <2> QED BY <2>1, <2>4
<1>3. /\ wait_s' \in [Trans -> Seq(Item)]
      /\ \A u \in Trans : wait_s'[u] = <<>> \/ wait_s'[u] = wait_s[u]
    BY <1>1 DEF trans_delete, OutType
<1>4. QueueOK'
    <2> SUFFICES ASSUME NEW u \in Trans
                 PROVE  /\ written'[u] <= MaxBytes
                        /\ \A k \in 1 .. Len(wait_s'[u]) :
                              /\ 1 <= wait_s'[u][k].lo
                              /\ wait_s'[u][k].lo <= wait_s'[u][k].hi
                              /\ wait_s'[u][k].hi <= written'[u]
                        /\ \A j, k \in 1 .. Len(wait_s'[u]) :
                              j < k => wait_s'[u][j].hi < wait_s'[u][k].lo
        BY DEF QueueOK
    <2>1. CASE wait_s'[u] = <<>>
        BY <1>1, <2>1 DEF QueueOK
    <2>2. CASE wait_s'[u] = wait_s[u]
        BY <1>1, <2>2 DEF QueueOK
    <2> QED BY <1>3, <2>1, <2>2
<1>5. OutType'
    BY <1>1, <1>2, <1>3 DEF OutType
<1>6. doomed' \subseteq Trans /\ status' \in [Trans -> {"UP", "DOWN", "GONE"}]
    BY DEF trans_delete, TypeOK
<1> QED BY <1>4, <1>5, <1>6

LEMMA Inv1CheckChanEnds ==
    ASSUME Inv1, CheckChanEnds
    PROVE  Inv1'
<1> USE DEF Inv1
<1>1. /\ stack # <<>> /\ Top.pc = "ckdel" /\ stack' = Goto("run")
      /\ UNCHANGED <<cur_source, inVars, closed, term>>
    BY DEF CheckChanEnds, At
<1>2. StackOK' /\ stack' \in Seq(Frame) /\ OpOK'
    BY <1>1, GotoOK, NoWriteOK DEF PCs
<1>3. /\ OutType' /\ QueueOK' /\ doomed' \subseteq Trans
      /\ status' \in [Trans -> {"UP", "DOWN", "GONE"}]
    <2>1. CASE trans_delete(Chan)
        BY <2>1, DeleteOK, TransAssumption
    <2>2. CASE UNCHANGED <<status, outVars, doomed>>
        BY <2>2, TypeParts, OutUnchanged
    <2> QED BY <2>1, <2>2 DEF CheckChanEnds
<1>4. InType'
    BY <1>1, TypeParts, InUnchanged
<1> QED BY <1>1, <1>2, <1>3, <1>4 DEF TypeOK, OutType, InType

LEMMA Inv1DeleteChan ==
    ASSUME Inv1, DeleteChan
    PROVE  Inv1'
<1> USE DEF Inv1
<1>1. /\ stack # <<>> /\ Top.pc = "run" /\ trans_delete(Chan)
      /\ UNCHANGED <<cur_source, inVars, closed, stack, term>>
    BY DEF DeleteChan, At
<1>2. StackOK' /\ stack' \in Seq(Frame) /\ OpOK'
    BY <1>1, NoWriteOK DEF StackOK, Top, TypeOK
<1>3. /\ OutType' /\ QueueOK' /\ doomed' \subseteq Trans
      /\ status' \in [Trans -> {"UP", "DOWN", "GONE"}]
    BY <1>1, DeleteOK, TransAssumption
<1>4. InType'
    BY <1>1, TypeParts, InUnchanged
<1> QED BY <1>1, <1>2, <1>3, <1>4 DEF TypeOK, OutType, InType

LEMMA Inv1LoopBreaks ==
    ASSUME Inv1, LoopBreaks \/ HandlerDies
    PROVE  Inv1'
<1> USE DEF Inv1
<1>1. /\ stack' = <<>>
      /\ UNCHANGED <<status, outVars, cur_source, inVars, closed, doomed, term>>
    BY DEF LoopBreaks, HandlerDies
<1>2. StackOK' /\ stack' \in Seq(Frame) /\ OpOK'
    BY <1>1 DEF StackOK, OpOK, Writing
<1>3. OutType' /\ QueueOK' /\ InType'
    BY <1>1, TypeParts, OutUnchanged, InUnchanged
<1> QED BY <1>1, <1>2, <1>3 DEF TypeOK, OutType, InType

LEMMA Inv1Stutter ==
    ASSUME Inv1, UNCHANGED vars
    PROVE  Inv1'
    BY DEF Inv1, TypeOK, StackOK, QueueOK, OpOK, Writing, Top, vars

LEMMA Inv1Next ==
    ASSUME Inv1, [Next]_vars
    PROVE  Inv1'
<1>1. CASE Write
    <2>1. PICK u \in Trans, n \in 0 .. MaxWrite : StartCopy(u, n) \/ StartForce(u, n)
        BY <1>1 DEF Write
    <2>2. n \in Nat
        BY TransAssumption
    <2> QED BY <2>1, <2>2, Inv1StartWrite DEF StartCopy, StartForce
<1>2. CASE Peer \/ SignalTerm
    BY <1>2, Inv1Peer
<1>3. CASE WriteStep
    BY <1>3, Inv1CopyLeftOver, Inv1CopyNew, Inv1ForceSend, Inv1ForceEnd DEF WriteStep
<1>4. CASE \E t \in Trans : Poll(t)
    BY <1>4, Inv1Poll
<1>5. CASE CheckStep
    BY <1>5, Inv1CheckChan, Inv1CheckDown, Inv1CheckNoRead, Inv1CheckEof,
       Inv1CheckReadPart, Inv1CheckDataIn, Inv1DataInReturns, Inv1Flush,
       Inv1CheckChanEnds, Inv1DeleteChan, Inv1LoopBreaks DEF CheckStep
<1>6. CASE UNCHANGED vars
    BY <1>6, Inv1Stutter
<1> QED BY <1>1, <1>2, <1>3, <1>4, <1>5, <1>6 DEF Next, Stopped

\* The streams of wait_s, the running calls and the write in progress stay
\* consistent with each other on every path of trans.c.
THEOREM Inv1Always == Spec => []Inv1
<1>1. Init => Inv1
    BY Inv1Init
<1>2. Inv1 /\ [Next]_vars => Inv1'
    BY Inv1Next
<1> QED BY <1>1, <1>2, PTL DEF Spec

\* Every variable of the transport layer keeps its type, whatever the peers, the
\* handlers and the nested polls do (struct trans and struct source_info).
THEOREM TypeCorrect == Spec => []TypeOK
<1>1. Inv1 => TypeOK
    BY DEF Inv1
<1> QED BY <1>1, Inv1Always, PTL
=============================================================================

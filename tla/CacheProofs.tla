---------------------------- MODULE CacheProofs ----------------------------
(***************************************************************************)
(* What holds of the caches for any number of classes, entries and         *)
(* bitmaps: the linked list of each class runs once through all entries    *)
(* the client has, the crc16 lists find exactly what is cached, and every  *)
(* entry holds at the client what the server takes it to hold.             *)
(***************************************************************************)
EXTENDS Cache, TLAPS, FiniteSetTheorems, WellFoundedInduction

-----------------------------------------------------------------------------
(* The inductive invariant *)

LruType == [next : [Idx -> Idx \cup {-1}], prev : [Idx -> Idx \cup {-1}], head : Idx, tail : Idx]

\* l runs through the entries 0 .. n - 1 in the order p, and back.
InOrder(l, p, n) ==
    /\ \A k, m \in 1 .. n : p[k] = p[m] => k = m
    /\ \A i \in 0 .. n - 1 : \E k \in 1 .. n : p[k] = i
    /\ l.head = p[1] /\ l.tail = p[n]
    /\ \A k \in 1 .. n - 1 : l.next[p[k]] = p[k + 1] /\ l.prev[p[k + 1]] = p[k]

Orders(n) == [1 .. n -> 0 .. n - 1]

Ordered(l, n) == \E p \in Orders(n) : InOrder(l, p, n)

\* A class after a reset, and one that has been used.
Fresh(id) ==
    /\ Lru(id) = [next |-> ResetNext, prev |-> ResetPrev, head |-> 0, tail |-> MaxIdx - 1]
    /\ bitmap_items[id] = [i \in Idx |-> None]

Listed(id) == ~ lru_reset[id] => Ordered(Lru(id), Entries[id])

\* s lists the entries of S, each once.
Lists(s, S) ==
    /\ \A k, m \in 1 .. Len(s) : s[k] = s[m] => k = m
    /\ \A i \in Idx : i \in S <=> \E k \in 1 .. Len(s) : s[k] = i

Holding(held, c) == {i \in Idx : held[i] # None /\ Crc16[held[i]] = c}

CrcOK(id) == \A c \in Crcs : Lists(crc16[id][c], Holding(bitmap_items[id], c))

\* What an entry of a cache with stamps may hold.
Held == StampedItems \cup {None, Blank, Static[0], Static[1]}

StampTyped ==
    /\ items = [k \in Stamped |-> items[k]]
    /\ client_items = [k \in Stamped |-> client_items[k]]
    /\ \A k \in Stamped :
          items[k] \in [0 .. HighIdx[k] -> Held] /\ client_items[k] \in [0 .. HighIdx[k] -> Held]

Typed ==
    /\ TypeOK /\ lru_reset \in [Ids -> BOOLEAN]
    /\ client \in [Ids -> [Idx -> Bitmaps \cup {None}]]

CacheInv ==
    /\ Typed /\ StampTyped /\ ClientAgrees
    /\ \A id \in Ids : (lru_reset[id] => Fresh(id)) /\ Listed(id) /\ CrcOK(id)

-----------------------------------------------------------------------------
(* Sequences and lists *)

LEMMA LeastElement ==
    ASSUME NEW S \in SUBSET Nat, S # {}
    PROVE  \E x \in S : \A y \in S : x <= y
<1> DEFINE R == {ss \in Nat \X Nat : ss[1] < ss[2]}
<1>1. IsWellFoundedOn(R, Nat)
    BY NatLessThanWellFounded DEF OpToRel
<1>2. PICK x \in S : \A y \in S : <<y, x>> \notin R
    <2> HIDE DEF R
    <2> QED BY <1>1, WFMin
<1>3. ASSUME NEW y \in S PROVE x <= y
    <2>1. <<y, x>> \in Nat \X Nat /\ <<y, x>>[1] = y /\ <<y, x>>[2] = x
        OBVIOUS
    <2>2. ~(y < x)
        BY <1>2, <2>1
    <2> QED BY <2>2
<1> QED BY <1>3

LEMMA MinIsLeast ==
    ASSUME NEW S \in SUBSET Nat, S # {}
    PROVE  Min(S) \in S
    BY LeastElement DEF Min

\* RemoveFirst drops one occurrence and keeps the others in order.
LEMMA Removed ==
    ASSUME NEW s \in Seq(Idx), NEW S, Lists(s, S), NEW i \in Idx, i \in S
    PROVE  RemoveFirst(s, i) \in Seq(Idx) /\ Lists(RemoveFirst(s, i), S \ {i})
<1>1. PICK m \in 1 .. Len(s) : s[m] = i
    BY DEF Lists
<1>2. {k \in 1 .. Len(s) : s[k] = i} = {m}
    BY <1>1 DEF Lists
<1>3. Min({m}) = m
    BY DEF Min
<1> DEFINE r == RemoveFirst(s, i)
<1>4. r = SubSeq(s, 1, m - 1) \o SubSeq(s, m + 1, Len(s))
    BY <1>1, <1>2, <1>3 DEF RemoveFirst, RemoveAt, SelectInSeq
<1>5. r \in Seq(Idx) /\ Len(r) = Len(s) - 1
      /\ \A k \in 1 .. Len(r) : r[k] = IF k < m THEN s[k] ELSE s[k + 1]
    <2> DEFINE a == SubSeq(s, 1, m - 1)
               b == SubSeq(s, m + 1, Len(s))
    <2>1. a \in Seq(Idx) /\ Len(a) = m - 1 /\ \A k \in 1 .. m - 1 : a[k] = s[k]
        BY <1>1
    <2>2. b \in Seq(Idx) /\ Len(b) = Len(s) - m /\ \A k \in 1 .. Len(s) - m : b[k] = s[m + k]
        BY <1>1
    <2> HIDE DEF a, b
    <2>3. r = a \o b
        BY <1>4 DEF a, b
    <2> HIDE DEF r
    <2>4. r \in Seq(Idx) /\ Len(r) = Len(s) - 1
        BY <2>1, <2>2, <2>3, <1>1
    <2>5. ASSUME NEW k \in 1 .. Len(r) PROVE r[k] = IF k < m THEN s[k] ELSE s[k + 1]
        <3>1. CASE k < m
            BY <3>1, <2>1, <2>2, <2>3, <1>1
        <3>2. CASE k >= m
            <4>1. r[k] = b[k - (m - 1)]
                BY <3>2, <2>1, <2>2, <2>3, <2>4, <1>1
            <4> QED BY <3>2, <4>1, <2>2, <2>4, <1>1, SMTT(40)
        <3> QED BY <3>1, <3>2, <1>1
    <2> QED BY <2>4, <2>5
<1> HIDE DEF r
<1>6. \A k, l \in 1 .. Len(r) : r[k] = r[l] => k = l
    BY <1>1, <1>5 DEF Lists
<1>7. ASSUME NEW j \in Idx PROVE j \in S \ {i} <=> \E k \in 1 .. Len(r) : r[k] = j
    <2>1. ASSUME j \in S \ {i} PROVE \E k \in 1 .. Len(r) : r[k] = j
        <3>1. PICK k \in 1 .. Len(s) : s[k] = j
            BY <2>1 DEF Lists
        <3>2. k # m
            BY <3>1, <2>1, <1>1
        <3>3. CASE k < m
            BY <3>1, <3>3, <1>1, <1>5
        <3>4. CASE k > m
            <4>1. k - 1 \in 1 .. Len(r) /\ r[k - 1] = s[(k - 1) + 1]
                BY <3>4, <1>1, <1>5
            <4> QED BY <3>1, <4>1
        <3> QED BY <3>2, <3>3, <3>4, <1>1
    <2>2. ASSUME NEW k \in 1 .. Len(r), r[k] = j PROVE j \in S \ {i}
        <3>1. CASE k < m
            BY <2>2, <3>1, <1>1, <1>5 DEF Lists
        <3>2. CASE k >= m
            BY <2>2, <3>2, <1>1, <1>5 DEF Lists
        <3> QED BY <3>1, <3>2, <1>1
    <2> QED BY <2>1, <2>2
<1> QED BY <1>5, <1>6, <1>7 DEF Lists, r

LEMMA Appended ==
    ASSUME NEW s \in Seq(Idx), NEW S, Lists(s, S), NEW i \in Idx, i \notin S
    PROVE  Append(s, i) \in Seq(Idx) /\ Lists(Append(s, i), S \cup {i})
<1> DEFINE r == Append(s, i)
<1>1. r \in Seq(Idx) /\ Len(r) = Len(s) + 1
      /\ \A k \in 1 .. Len(r) : r[k] = IF k <= Len(s) THEN s[k] ELSE i
    OBVIOUS
<1>2. \A k \in 1 .. Len(s) : s[k] # i
    BY DEF Lists
<1> HIDE DEF r
<1>3. \A k, l \in 1 .. Len(r) : r[k] = r[l] => k = l
    BY <1>1, <1>2 DEF Lists
<1>4. ASSUME NEW j \in Idx PROVE j \in S \cup {i} <=> \E k \in 1 .. Len(r) : r[k] = j
    <2>1. ASSUME j \in S PROVE \E k \in 1 .. Len(r) : r[k] = j
        <3>1. PICK k \in 1 .. Len(s) : s[k] = j
            BY <2>1 DEF Lists
        <3> QED BY <3>1, <1>1
    <2>2. r[Len(r)] = i /\ Len(r) \in 1 .. Len(r)
        BY <1>1
    <2>3. ASSUME NEW k \in 1 .. Len(r), r[k] = j PROVE j \in S \cup {i}
        BY <2>3, <1>1 DEF Lists
    <2> QED BY <2>1, <2>2, <2>3
<1> QED BY <1>1, <1>3, <1>4 DEF Lists, r

LEMMA Sizes ==
    ASSUME NEW id \in Ids
    PROVE  MaxIdx \in Nat /\ Entries[id] \in 1 .. MaxIdx /\ 0 \in Idx /\ MaxIdx - 1 \in Idx
    BY CacheAssumption DEF Idx

-----------------------------------------------------------------------------
(* The linked list *)

LEMMA CutIsOrdered ==
    ASSUME NEW l, NEW n \in 1 .. MaxIdx, MaxIdx \in Nat,
           l = [next |-> ResetNext, prev |-> ResetPrev, head |-> 0, tail |-> MaxIdx - 1]
    PROVE  Cut(l, n) \in LruType /\ Ordered(Cut(l, n), n)
<1> DEFINE c == Cut(l, n)
           p == [k \in 1 .. n |-> k - 1]
<1>1. c = [next |-> [i \in Idx |-> IF i = n - 1 \/ i = MaxIdx - 1 THEN -1 ELSE i + 1],
           prev |-> ResetPrev, head |-> 0, tail |-> n - 1]
    <2>1. c = [next |-> [ResetNext EXCEPT ![n - 1] = -1], prev |-> ResetPrev,
               head |-> 0, tail |-> n - 1]
        <3>1. l \in LruType
            BY DEF LruType, ResetNext, ResetPrev, Idx
        <3>2. l.next = ResetNext /\ l.prev = ResetPrev /\ l.head = 0
            OBVIOUS
        <3>3. c = [l EXCEPT !.tail = n - 1, !.next = [@ EXCEPT ![n - 1] = -1]]
            BY <3>1, <3>2 DEF Cut, LruType
        <3> HIDE DEF c
        <3> QED BY <3>1, <3>2, <3>3 DEF LruType
    <2>2. [ResetNext EXCEPT ![n - 1] = -1] =
             [i \in Idx |-> IF i = n - 1 \/ i = MaxIdx - 1 THEN -1 ELSE i + 1]
        BY DEF ResetNext, Idx
    <2> QED BY <2>1, <2>2
<1> HIDE DEF c
<1>2. c \in LruType
    BY <1>1 DEF LruType, ResetPrev, Idx
<1>3. p \in Orders(n)
    BY DEF Orders
<1>4. InOrder(c, p, n)
    <2>1. \A i \in 0 .. n - 1 : i + 1 \in 1 .. n /\ p[i + 1] = i
        OBVIOUS
    <2>2. \A k \in 1 .. n - 1 : c.next[p[k]] = p[k + 1] /\ c.prev[p[k + 1]] = p[k]
        BY <1>1 DEF Idx, ResetPrev
    <2>3. c.head = p[1] /\ c.tail = p[n]
        BY <1>1
    <2>4. \A k, m \in 1 .. n : p[k] = p[m] => k = m
        OBVIOUS
    <2> HIDE DEF p
    <2> QED BY <2>1, <2>2, <2>3, <2>4 DEF InOrder
<1> QED BY <1>2, <1>3, <1>4 DEF Ordered, c

\* The order in which an entry used becomes the last.
MovedToEnd(p, k0, n) ==
    [k \in 1 .. n |-> IF k < k0 THEN p[k] ELSE IF k < n THEN p[k + 1] ELSE p[k0]]

LEMMA MovedIsOrder ==
    ASSUME NEW n \in Nat \ {0}, NEW p \in Orders(n), NEW k0 \in 1 .. n,
           \A k, m \in 1 .. n : p[k] = p[m] => k = m,
           \A i \in 0 .. n - 1 : \E k \in 1 .. n : p[k] = i
    PROVE  LET q == MovedToEnd(p, k0, n)
           IN  /\ q \in Orders(n)
               /\ \A k, m \in 1 .. n : q[k] = q[m] => k = m
               /\ \A i \in 0 .. n - 1 : \E k \in 1 .. n : q[k] = i
<1> DEFINE q == MovedToEnd(p, k0, n)
           at(k) == IF k < k0 THEN k ELSE IF k < n THEN k + 1 ELSE k0
<1>1. \A k \in 1 .. n : at(k) \in 1 .. n
    OBVIOUS
<1>2. \A k, m \in 1 .. n : at(k) = at(m) => k = m
    OBVIOUS
<1>3. ASSUME NEW m \in 1 .. n PROVE \E k \in 1 .. n : at(k) = m
    <2>1. CASE m < k0
        BY <2>1
    <2>2. CASE m = k0
        BY <2>2
    <2>3. CASE m > k0
        <3>1. m - 1 \in 1 .. n /\ at(m - 1) = m
            BY <2>3
        <3> QED BY <3>1
    <2> QED BY <2>1, <2>2, <2>3
<1>4. \A k \in 1 .. n : q[k] = p[at(k)]
    BY DEF MovedToEnd
<1>5. q \in Orders(n)
    <2>1. \A k \in 1 .. n : q[k] \in 0 .. n - 1
        <3> HIDE DEF q, at
        <3> QED BY <1>1, <1>4, ZenonT(40) DEF Orders
    <2>2. q = [k \in 1 .. n |-> q[k]]
        BY DEF MovedToEnd
    <2> HIDE DEF q
    <2> QED BY <2>1, <2>2 DEF Orders
<1> HIDE DEF q, at
<1>6. \A k, m \in 1 .. n : q[k] = q[m] => k = m
    BY <1>1, <1>2, <1>4
<1>7. ASSUME NEW i \in 0 .. n - 1 PROVE \E k \in 1 .. n : q[k] = i
    <2>1. PICK m \in 1 .. n : p[m] = i
        OBVIOUS
    <2>2. PICK k \in 1 .. n : at(k) = m
        BY <1>3
    <2> QED BY <2>1, <2>2, <1>4
<1> QED BY <1>5, <1>6, <1>7 DEF q

\* The fields of a list after an entry that is not the last became the last.
LEMMA HookedFields ==
    ASSUME NEW l \in LruType, NEW i \in Idx, NEW e \in Idx, NEW a \in Idx, NEW b \in Idx,
           l.tail = e, i # e, l.next[i] = a, a # i,
           l.head # i => l.prev[i] = b /\ b # i /\ b # e
    PROVE  LET h == HookAtTail(Unhook(l, i), i)
           IN  /\ h \in LruType /\ h.tail = i
               /\ h.head = IF l.head = i THEN a ELSE l.head
               /\ \A j \in Idx :
                     /\ h.next[j] = IF j = i THEN -1 ELSE IF j = e THEN i
                                    ELSE IF l.head # i /\ j = b THEN a ELSE l.next[j]
                     /\ h.prev[j] = IF j = i THEN e
                                    ELSE IF j = a THEN (IF l.head = i THEN -1 ELSE b)
                                    ELSE l.prev[j]
<1> DEFINE u == Unhook(l, i)
           h == HookAtTail(u, i)
<1>1. /\ u \in LruType /\ u.tail = e
      /\ u.head = IF l.head = i THEN a ELSE l.head
      /\ \A j \in Idx :
            /\ u.next[j] = IF l.head # i /\ j = b THEN a ELSE l.next[j]
            /\ u.prev[j] = IF j = a THEN (IF l.head = i THEN -1 ELSE b) ELSE l.prev[j]
    <2>1. CASE l.head = i
        <3>1. u = [l EXCEPT !.head = a, !.prev[a] = -1]
            BY <2>1 DEF Unhook
        <3>2. u = [next |-> l.next, prev |-> [l.prev EXCEPT ![a] = -1], head |-> a, tail |-> e]
            BY <3>1 DEF LruType
        <3> QED BY <2>1, <3>2 DEF LruType
    <2>2. CASE l.head # i
        <3>1. u = [l EXCEPT !.next[b] = a, !.prev[a] = b]
            BY <2>2 DEF Unhook
        <3>2. u = [next |-> [l.next EXCEPT ![b] = a], prev |-> [l.prev EXCEPT ![a] = b],
                   head |-> l.head, tail |-> e]
            BY <3>1 DEF LruType
        <3> QED BY <2>2, <3>2 DEF LruType
    <2> QED BY <2>1, <2>2
<1> HIDE DEF u
<1>2. h = [u EXCEPT !.next = [@ EXCEPT ![e] = i, ![i] = -1], !.prev[i] = e, !.tail = i]
    BY <1>1 DEF HookAtTail
<1>3. h = [next |-> [[u.next EXCEPT ![e] = i] EXCEPT ![i] = -1], prev |-> [u.prev EXCEPT ![i] = e],
           head |-> u.head, tail |-> i]
    BY <1>1, <1>2 DEF LruType
<1> HIDE DEF h
<1>4. h \in LruType
    BY <1>1, <1>3 DEF LruType
<1>5. ASSUME NEW j \in Idx
      PROVE  /\ h.next[j] = IF j = i THEN -1 ELSE IF j = e THEN i ELSE u.next[j]
             /\ h.prev[j] = IF j = i THEN e ELSE u.prev[j]
    BY <1>1, <1>3 DEF LruType
<1> QED BY <1>1, <1>3, <1>4, <1>5 DEF h, u

LEMMA UpdatedOrder ==
    ASSUME MaxIdx \in Nat, NEW n \in 1 .. MaxIdx, NEW l \in LruType, NEW p \in Orders(n),
           InOrder(l, p, n), NEW k0 \in 1 .. n
    PROVE  /\ UpdateLru(l, p[k0]) \in LruType
           /\ MovedToEnd(p, k0, n) \in Orders(n)
           /\ InOrder(UpdateLru(l, p[k0]), MovedToEnd(p, k0, n), n)
<1> DEFINE i == p[k0]
           q == MovedToEnd(p, k0, n)
           h == UpdateLru(l, i)
<1>1. \A k, m \in 1 .. n : p[k] = p[m] => k = m
    BY DEF InOrder
<1>2. /\ q \in Orders(n)
      /\ \A k, m \in 1 .. n : q[k] = q[m] => k = m
      /\ \A j \in 0 .. n - 1 : \E k \in 1 .. n : q[k] = j
    <2>1. \A j \in 0 .. n - 1 : \E k \in 1 .. n : p[k] = j
        BY DEF InOrder
    <2>2. n \in Nat \ {0}
        OBVIOUS
    <2> QED BY ONLY <1>1, <2>1, <2>2, p \in Orders(n), k0 \in 1 .. n, MovedIsOrder
<1>3. \A k \in 1 .. n : p[k] \in Idx
    BY DEF Orders, Idx
<1>4. \A k \in 1 .. n : q[k] = IF k < k0 THEN p[k] ELSE IF k < n THEN p[k + 1] ELSE p[k0]
    BY DEF MovedToEnd
<1>5. CASE k0 = n
    <2>1. h = l
        BY <1>5 DEF UpdateLru, InOrder
    <2>2. \A k \in 1 .. n : q[k] = p[k]
        BY <1>4, <1>5
    <2> HIDE DEF q, h
    <2>3. InOrder(h, q, n)
        BY <2>1, <2>2, <1>2 DEF InOrder
    <2> QED BY <2>1, <2>3, <1>2 DEF q, h
<1>6. CASE k0 < n
    <2> DEFINE e == p[n]
               a == p[k0 + 1]
               b == IF k0 = 1 THEN p[1] ELSE p[k0 - 1]
    <2>1. i \in Idx /\ e \in Idx /\ a \in Idx /\ b \in Idx
        BY <1>3, <1>6
    <2>2. l.tail = e /\ i # e /\ l.next[i] = a /\ a # i
        BY <1>1, <1>6 DEF InOrder
    <2>3. l.head = i <=> k0 = 1
        BY <1>1 DEF InOrder
    <2>4. k0 # 1 => l.prev[i] = b /\ b # i /\ b # e
        <3> SUFFICES ASSUME k0 # 1 PROVE l.prev[i] = b /\ b # i /\ b # e
            OBVIOUS
        <3>1. k0 - 1 \in 1 .. n - 1 /\ (k0 - 1) + 1 = k0 /\ b = p[k0 - 1]
            OBVIOUS
        <3> QED BY <3>1, <1>1, <1>6 DEF InOrder
    <2>5. h = HookAtTail(Unhook(l, i), i)
        BY <2>2 DEF UpdateLru
    <2>6. /\ h \in LruType /\ h.tail = i
          /\ h.head = IF k0 = 1 THEN a ELSE l.head
          /\ \A j \in Idx :
                /\ h.next[j] = IF j = i THEN -1 ELSE IF j = e THEN i
                               ELSE IF k0 # 1 /\ j = b THEN a ELSE l.next[j]
                /\ h.prev[j] = IF j = i THEN e
                               ELSE IF j = a THEN (IF k0 = 1 THEN -1 ELSE b)
                               ELSE l.prev[j]
        <3> HIDE DEF i, e, a, b, h
        <3> QED BY <2>1, <2>2, <2>3, <2>4, <2>5, HookedFields
    <2> HIDE DEF h
    <2>7. \A k \in 1 .. n - 1 : l.next[p[k]] = p[k + 1] /\ l.prev[p[k + 1]] = p[k]
        BY DEF InOrder
    <2>8. h.head = q[1] /\ h.tail = q[n]
        BY <2>6, <1>4, <1>6 DEF InOrder
    <2>9. ASSUME NEW k \in 1 .. n - 1
          PROVE  h.next[q[k]] = q[k + 1] /\ h.prev[q[k + 1]] = q[k]
        <3>1. CASE k < k0 - 1
            <4>1. q[k] = p[k] /\ q[k + 1] = p[k + 1]
                BY <3>1, <1>4
            <4>2. p[k] # i /\ p[k] # e /\ (k0 # 1 => p[k] # b)
                BY <3>1, <1>1, <1>6
            <4>3. p[k + 1] # i /\ p[k + 1] # a
                BY <3>1, <1>1, <1>6
            <4> HIDE DEF q, i, e, a, b
            <4> QED BY <4>1, <4>2, <4>3, <2>6, <2>7, <1>3
        <3>2. CASE k = k0 - 1
            <4>1. q[k] = b /\ q[k + 1] = a /\ k0 # 1
                BY <3>2, <1>4, <1>6
            <4>2. b # i /\ b # e /\ a # i
                BY <4>1, <2>4, <2>2
            <4> HIDE DEF q, i, e, a, b
            <4> QED BY <4>1, <4>2, <2>1, <2>6
        <3>3. CASE k >= k0 /\ k < n - 1
            <4>1. q[k] = p[k + 1] /\ q[k + 1] = p[(k + 1) + 1] /\ k + 1 \in 1 .. n - 1
                BY <3>3, <1>4
            <4>2. p[k + 1] # i /\ p[k + 1] # e /\ (k0 # 1 => p[k + 1] # b)
                BY <3>3, <1>1, <1>6
            <4>3. p[(k + 1) + 1] # i /\ p[(k + 1) + 1] # a
                BY <3>3, <1>1, <1>6
            <4>4. p[k + 1] \in Idx /\ p[(k + 1) + 1] \in Idx
                BY <4>1, <1>3
            <4>5. l.next[p[k + 1]] = p[(k + 1) + 1] /\ l.prev[p[(k + 1) + 1]] = p[k + 1]
                BY <4>1, <2>7
            <4> HIDE DEF q, i, e, a, b
            <4> QED BY <4>1, <4>2, <4>3, <4>4, <4>5, <2>6
        <3>4. CASE k = n - 1
            <4>1. q[k] = e /\ q[k + 1] = i
                BY <3>4, <1>4, <1>6
            <4> HIDE DEF q, i, e, a, b
            <4> QED BY <4>1, <2>1, <2>2, <2>6
        <3> QED BY <3>1, <3>2, <3>3, <3>4
    <2> HIDE DEF q
    <2>10. InOrder(h, q, n)
        BY <1>2, <2>8, <2>9 DEF InOrder
    <2> QED BY <1>2, <2>6, <2>10 DEF q, h
<1> QED BY <1>5, <1>6

LEMMA UpdatedIsOrdered ==
    ASSUME MaxIdx \in Nat, NEW n \in 1 .. MaxIdx, NEW l \in LruType, Ordered(l, n),
           NEW i \in 0 .. n - 1
    PROVE  UpdateLru(l, i) \in LruType /\ Ordered(UpdateLru(l, i), n)
<1>1. PICK p \in Orders(n) : InOrder(l, p, n)
    BY DEF Ordered
<1>2. PICK k0 \in 1 .. n : p[k0] = i
    BY <1>1 DEF InOrder
<1> QED BY <1>1, <1>2, UpdatedOrder DEF Ordered

-----------------------------------------------------------------------------
(* The initial state, and a reset *)

LEMMA InitOK == Init => CacheInv
<1> SUFFICES ASSUME Init PROVE CacheInv
    OBVIOUS
<1> USE DEF Init
<1>1. \A id \in Ids : 0 \in Idx /\ MaxIdx - 1 \in Idx /\ MaxIdx \in Nat
    BY Sizes
<1>2. Typed
    <2>1. \A id \in Ids : lru_next[id] \in [Idx -> Idx \cup {-1}] /\ lru_prev[id] \in [Idx -> Idx \cup {-1}]
        BY <1>1 DEF ResetNext, ResetPrev, Idx
    <2>2. /\ lru_next \in [Ids -> [Idx -> Idx \cup {-1}]]
          /\ lru_prev \in [Ids -> [Idx -> Idx \cup {-1}]]
        BY <2>1
    <2>3. lru_head \in [Ids -> Idx] /\ lru_tail \in [Ids -> Idx] /\ lru_reset \in [Ids -> BOOLEAN]
        BY <1>1
    <2>4. NoBitmaps \in [Ids -> [Idx -> Bitmaps \cup {None}]] /\ NoCrc \in [Ids -> [Crcs -> Seq(Idx)]]
        BY DEF NoBitmaps, NoCrc
    <2> QED BY <2>2, <2>3, <2>4 DEF Typed, TypeOK
<1>3. ASSUME NEW k \in Stamped, NEW empty \in {None, Blank}
      PROVE  AllLoaded(empty)[k] \in [0 .. HighIdx[k] -> Held]
    <2>1. \A j \in 0 .. HighIdx[k] : j < 2 => j \in {0, 1}
        BY CacheAssumption
    <2>2. \A j \in 0 .. HighIdx[k] : Loaded(k, j, empty) \in Held
        BY <2>1 DEF Loaded, Held
    <2> QED BY <2>2 DEF AllLoaded
<1>4. StampTyped
    <2>1. items = [k \in Stamped |-> items[k]] /\ client_items = [k \in Stamped |-> client_items[k]]
        BY DEF AllLoaded
    <2> QED BY <1>3, <2>1 DEF StampTyped
<1>5. ClientAgrees
    BY DEF ClientAgrees, NoBitmaps, AllLoaded, Loaded
<1>6. ASSUME NEW id \in Ids
      PROVE  (lru_reset[id] => Fresh(id)) /\ Listed(id) /\ CrcOK(id)
    <2>1. lru_reset[id] /\ Fresh(id)
        BY DEF Fresh, Lru, NoBitmaps
    <2>2. CrcOK(id)
        <3>1. \A c \in Crcs : crc16[id][c] = <<>> /\ Holding(bitmap_items[id], c) = {}
            BY DEF NoCrc, NoBitmaps, Holding
        <3>2. Lists(<<>>, {})
            BY DEF Lists
        <3> QED BY <3>1, <3>2 DEF CrcOK
    <2> QED BY <2>1, <2>2 DEF Listed
<1> QED BY <1>2, <1>4, <1>5, <1>6 DEF CacheInv

LEMMA ResetOK == Reset => CacheInv'
<1>1. Init => CacheInv
    BY InitOK
<1>2. Reset => Init'
    BY DEF Reset, Init
<1> QED BY <1>1, <1>2, PTL

-----------------------------------------------------------------------------
(* A bitmap is added *)

LEMMA Sets ==
    ASSUME TypeOK, NEW id \in Ids, NEW l \in LruType, SetLru(id, l)
    PROVE  /\ lru_next' \in [Ids -> [Idx -> Idx \cup {-1}]]
           /\ lru_prev' \in [Ids -> [Idx -> Idx \cup {-1}]]
           /\ lru_head' \in [Ids -> Idx] /\ lru_tail' \in [Ids -> Idx]
           /\ \A d \in Ids : Lru(d)' = IF d = id THEN l ELSE Lru(d)
<1>1. l.next \in [Idx -> Idx \cup {-1}] /\ l.prev \in [Idx -> Idx \cup {-1}]
      /\ l.head \in Idx /\ l.tail \in Idx
      /\ l = [next |-> l.next, prev |-> l.prev, head |-> l.head, tail |-> l.tail]
    BY DEF LruType
<1>2. \A d \in Ids : Lru(d)' = IF d = id THEN l ELSE Lru(d)
    BY <1>1 DEF SetLru, Lru, TypeOK
<1> QED BY <1>1, <1>2 DEF SetLru, TypeOK

LEMMA LruTyped ==
    ASSUME TypeOK, NEW id \in Ids
    PROVE  Lru(id) \in LruType
    BY DEF TypeOK, Lru, LruType

LEMMA FoundIsInUse ==
    ASSUME CacheInv, NEW b \in Bitmaps, NEW id \in Ids, NEW i \in FoundAt(id, b)
    PROVE  i \in Idx /\ bitmap_items[id][i] = b /\ i \in 0 .. Entries[id] - 1 /\ ~ lru_reset[id]
<1>1. i \in Range(crc16[id][Crc16[b]]) /\ bitmap_items[id][i] = b
    BY DEF FoundAt
<1>2. Crc16[b] \in Crcs
    BY DEF Crcs
<1>3. crc16[id][Crc16[b]] \in Seq(Idx)
    BY <1>2 DEF CacheInv, Typed, TypeOK
<1>4. i \in Idx
    BY <1>1, <1>3 DEF Range
<1>5. b # None
    BY CacheAssumption
<1>6. i < Entries[id]
    BY <1>1, <1>4, <1>5 DEF CacheInv, ClientAgrees
<1>7. ~ lru_reset[id]
    BY <1>1, <1>4, <1>5 DEF CacheInv, Fresh
<1> QED BY <1>1, <1>4, <1>6, <1>7, Sizes DEF Idx

LEMMA HitOK ==
    ASSUME CacheInv, NEW b \in Bitmaps, AddBitmapHit(b)
    PROVE  CacheInv'
<1> DEFINE id == ClassOf[b]
<1>1. id \in Ids
    BY CacheAssumption DEF AddBitmapHit
<1>2. PICK i \in FoundAt(id, b) : SetLru(id, UpdateLru(Lru(id), i))
    BY DEF AddBitmapHit
<1>3. UNCHANGED <<bitmap_items, lru_reset, crc16, client, stamp, items, stamps, client_items, client_drawn>>
    BY DEF AddBitmapHit, stampVars
<1> HIDE DEF id
<1>4. i \in 0 .. Entries[id] - 1 /\ ~ lru_reset[id]
    BY <1>1, <1>2, FoundIsInUse
<1>5. Lru(id) \in LruType /\ Ordered(Lru(id), Entries[id])
    BY <1>1, <1>4, LruTyped DEF CacheInv, Typed, Listed
<1> DEFINE l == UpdateLru(Lru(id), i)
<1>6. l \in LruType /\ Ordered(l, Entries[id])
    BY <1>1, <1>4, <1>5, UpdatedIsOrdered, Sizes
<1> HIDE DEF l
<1>7. /\ lru_next' \in [Ids -> [Idx -> Idx \cup {-1}]]
      /\ lru_prev' \in [Ids -> [Idx -> Idx \cup {-1}]]
      /\ lru_head' \in [Ids -> Idx] /\ lru_tail' \in [Ids -> Idx]
      /\ \A d \in Ids : Lru(d)' = IF d = id THEN l ELSE Lru(d)
    <2>1. SetLru(id, l)
        BY <1>2 DEF l
    <2> QED BY <2>1, <1>1, <1>6, Sets DEF CacheInv, Typed
<1>8. Typed' /\ StampTyped' /\ ClientAgrees'
    BY <1>3, <1>7 DEF CacheInv, Typed, TypeOK, StampTyped, ClientAgrees
<1>9. ASSUME NEW d \in Ids
      PROVE  (lru_reset'[d] => Fresh(d)') /\ Listed(d)' /\ CrcOK(d)'
    <2>1. CrcOK(d)'
        BY <1>3 DEF CacheInv, CrcOK
    <2>2. CASE d = id
        <3>1. ~ lru_reset'[d] /\ Lru(d)' = l
            BY <2>2, <1>3, <1>4, <1>7
        <3>2. Listed(d)'
            BY <3>1, <1>6, <2>2 DEF Listed
        <3> QED BY <2>1, <3>1, <3>2
    <2>3. CASE d # id
        <3>1. Lru(d)' = Lru(d) /\ lru_reset'[d] = lru_reset[d]
            BY <2>3, <1>3, <1>7
        <3> QED BY <3>1, <2>1, <1>3 DEF CacheInv, Listed, Fresh
    <2> QED BY <2>2, <2>3
<1> QED BY <1>8, <1>9 DEF CacheInv

LEMMA MovedCrc ==
    ASSUME CacheInv, NEW id \in Ids, NEW i \in Idx, NEW b \in Bitmaps
    PROVE  LET held == [bitmap_items[id] EXCEPT ![i] = b]
           IN  /\ MoveCrc(id, i, b) \in [Crcs -> Seq(Idx)]
               /\ \A c \in Crcs : Lists(MoveCrc(id, i, b)[c], Holding(held, c))
<1> DEFINE was == bitmap_items[id]
           held == [was EXCEPT ![i] = b]
           old == was[i]
           left == IF old = None THEN crc16[id]
                   ELSE [crc16[id] EXCEPT ![Crc16[old]] = RemoveFirst(@, i)]
<1>1. /\ was \in [Idx -> Bitmaps \cup {None}] /\ crc16[id] \in [Crcs -> Seq(Idx)]
      /\ \A c \in Crcs : Lists(crc16[id][c], Holding(was, c))
    BY DEF CacheInv, Typed, TypeOK, CrcOK
<1>2. b # None /\ Crc16[b] \in Crcs /\ (old # None => Crc16[old] \in Crcs)
    BY <1>1, CacheAssumption DEF Crcs
<1>3. left \in [Crcs -> Seq(Idx)] /\ \A c \in Crcs : Lists(left[c], Holding(was, c) \ {i})
    <2>1. CASE old = None
        <3>1. \A c \in Crcs : Holding(was, c) \ {i} = Holding(was, c)
            BY <2>1 DEF Holding
        <3> HIDE DEF was
        <3> QED BY <1>1, <2>1, <3>1
    <2>2. CASE old # None
        <3> DEFINE o == Crc16[old]
        <3>1. i \in Holding(was, o)
            BY <2>2 DEF Holding
        <3>2. \A c \in Crcs : c # o => Holding(was, c) \ {i} = Holding(was, c)
            BY DEF Holding
        <3>3. left = [crc16[id] EXCEPT ![o] = RemoveFirst(@, i)]
            BY <2>2
        <3> HIDE DEF was, left, o
        <3>4. RemoveFirst(crc16[id][o], i) \in Seq(Idx)
              /\ Lists(RemoveFirst(crc16[id][o], i), Holding(was, o) \ {i})
            BY <1>1, <1>2, <2>2, <3>1, Removed DEF o
        <3>5. left \in [Crcs -> Seq(Idx)]
            BY <1>1, <3>3, <3>4
        <3>6. \A c \in Crcs : left[c] = IF c = o THEN RemoveFirst(crc16[id][o], i) ELSE crc16[id][c]
            BY <1>1, <3>3
        <3> QED BY <1>1, <3>2, <3>4, <3>5, <3>6
    <2> QED BY <2>1, <2>2
<1>4. \A c \in Crcs : Holding(held, c) = IF c = Crc16[b] THEN (Holding(was, c) \ {i}) \cup {i}
                                         ELSE Holding(was, c) \ {i}
    BY <1>1, <1>2 DEF Holding
<1>5. MoveCrc(id, i, b) = [left EXCEPT ![Crc16[b]] = Append(@, i)]
    BY DEF MoveCrc
<1> HIDE DEF was, left, held
<1>6. Append(left[Crc16[b]], i) \in Seq(Idx)
      /\ Lists(Append(left[Crc16[b]], i), (Holding(was, Crc16[b]) \ {i}) \cup {i})
    BY <1>2, <1>3, Appended
<1>7. MoveCrc(id, i, b) \in [Crcs -> Seq(Idx)]
    BY <1>3, <1>5, <1>6
<1>8. \A c \in Crcs : MoveCrc(id, i, b)[c] = IF c = Crc16[b] THEN Append(left[c], i) ELSE left[c]
    BY <1>3, <1>5
<1>9. \A c \in Crcs : Lists(MoveCrc(id, i, b)[c], Holding(held, c))
    BY <1>3, <1>4, <1>6, <1>8
<1> QED BY <1>7, <1>9 DEF held, was

LEMMA MissOK ==
    ASSUME CacheInv, NEW b \in Bitmaps, AddBitmapMiss(b)
    PROVE  CacheInv'
<1> DEFINE id == ClassOf[b]
           n == Entries[id]
           l == IF lru_reset[id] THEN Cut(Lru(id), n) ELSE Lru(id)
           i == l.head
           u == UpdateLru(l, i)
           held == [bitmap_items[id] EXCEPT ![i] = b]
           moved == MoveCrc(id, i, b)
<1>1. id \in Ids
    BY CacheAssumption DEF AddBitmapMiss
<1>2. /\ lru_reset' = [lru_reset EXCEPT ![id] = FALSE]
      /\ SetLru(id, u)
      /\ crc16' = [crc16 EXCEPT ![id] = moved]
      /\ bitmap_items' = [bitmap_items EXCEPT ![id] = held]
      /\ client' = [client EXCEPT ![id] = [@ EXCEPT ![i] = b]]
      /\ UNCHANGED <<stamp, items, stamps, client_items, client_drawn>>
    BY DEF AddBitmapMiss, stampVars
<1> HIDE DEF id
<1>3. MaxIdx \in Nat /\ n \in 1 .. MaxIdx
    BY <1>1, Sizes
<1>4. l \in LruType /\ Ordered(l, n)
    <2>1. CASE lru_reset[id]
        <3>1. Lru(id) = [next |-> ResetNext, prev |-> ResetPrev, head |-> 0, tail |-> MaxIdx - 1]
            BY <2>1, <1>1 DEF CacheInv, Fresh
        <3> QED BY <2>1, <3>1, <1>3, CutIsOrdered
    <2>2. CASE ~ lru_reset[id]
        BY <2>2, <1>1, LruTyped DEF CacheInv, Typed, Listed
    <2> QED BY <2>1, <2>2
<1> HIDE DEF l, n
<1>5. i \in 0 .. n - 1 /\ i \in Idx
    <2>1. PICK p \in Orders(n) : InOrder(l, p, n)
        BY <1>4 DEF Ordered
    <2>2. i = p[1] /\ p[1] \in 0 .. n - 1
        BY <2>1, <1>3 DEF InOrder, Orders
    <2> QED BY <2>2, <1>3 DEF Idx
<1> HIDE DEF i
<1>6. u \in LruType /\ Ordered(u, n)
    BY <1>3, <1>4, <1>5, UpdatedIsOrdered
<1> HIDE DEF u
<1>7. /\ lru_next' \in [Ids -> [Idx -> Idx \cup {-1}]]
      /\ lru_prev' \in [Ids -> [Idx -> Idx \cup {-1}]]
      /\ lru_head' \in [Ids -> Idx] /\ lru_tail' \in [Ids -> Idx]
      /\ \A d \in Ids : Lru(d)' = IF d = id THEN u ELSE Lru(d)
    BY <1>1, <1>2, <1>6, Sets DEF CacheInv, Typed
<1>8. /\ moved \in [Crcs -> Seq(Idx)]
      /\ \A c \in Crcs : Lists(moved[c], Holding(held, c))
    BY <1>1, <1>5, MovedCrc
<1>9. /\ held \in [Idx -> Bitmaps \cup {None}]
      /\ \A j \in Idx : held[j] = IF j = i THEN b ELSE bitmap_items[id][j]
    BY <1>1, <1>5 DEF CacheInv, Typed, TypeOK
<1> HIDE DEF moved, held
<1>10. \A d \in Ids : /\ bitmap_items'[d] = IF d = id THEN held ELSE bitmap_items[d]
                      /\ crc16'[d] = IF d = id THEN moved ELSE crc16[d]
                      /\ lru_reset'[d] = IF d = id THEN FALSE ELSE lru_reset[d]
    BY <1>2 DEF CacheInv, Typed, TypeOK
<1>11. /\ bitmap_items' \in [Ids -> [Idx -> Bitmaps \cup {None}]]
       /\ crc16' \in [Ids -> [Crcs -> Seq(Idx)]]
       /\ lru_reset' \in [Ids -> BOOLEAN]
       /\ client' \in [Ids -> [Idx -> Bitmaps \cup {None}]]
       /\ \A d \in Ids, j \in Idx :
             client'[d][j] = IF d = id /\ j = i THEN b ELSE client[d][j]
    BY <1>1, <1>2, <1>5, <1>8, <1>9 DEF CacheInv, Typed, TypeOK
<1>12. Typed'
    BY <1>7, <1>11 DEF Typed, TypeOK
<1>13. StampTyped'
    BY <1>2 DEF CacheInv, StampTyped
<1>14. ClientAgrees'
    <2>1. ASSUME NEW d \in Ids, NEW j \in Idx
          PROVE  /\ bitmap_items'[d][j] = client'[d][j]
                 /\ bitmap_items'[d][j] # None => j < Entries[d]
        <3>1. CASE d = id /\ j = i
            <4>1. bitmap_items'[d][j] = b /\ client'[d][j] = b
                BY <3>1, <1>9, <1>10, <1>11
            <4>2. j < Entries[d]
                BY <3>1, <1>3, <1>5 DEF n
            <4> QED BY <4>1, <4>2
        <3>2. CASE ~ (d = id /\ j = i)
            <4>1. bitmap_items'[d][j] = bitmap_items[d][j] /\ client'[d][j] = client[d][j]
                BY <3>2, <1>9, <1>10, <1>11
            <4> QED BY <4>1 DEF CacheInv, ClientAgrees
        <3> QED BY <3>1, <3>2
    <2> QED BY <2>1, <1>2 DEF CacheInv, ClientAgrees
<1>15. ASSUME NEW d \in Ids
       PROVE  (lru_reset'[d] => Fresh(d)') /\ Listed(d)' /\ CrcOK(d)'
    <2>1. CASE d = id
        <3>1. Lru(d)' = u /\ ~ lru_reset'[d] /\ Entries[d] = n
            BY <2>1, <1>7, <1>10 DEF n
        <3>2. CrcOK(d)'
            BY <2>1, <1>8, <1>10 DEF CrcOK
        <3> QED BY <3>1, <3>2, <1>6 DEF Listed
    <2>2. CASE d # id
        <3>1. /\ Lru(d)' = Lru(d) /\ lru_reset'[d] = lru_reset[d]
              /\ bitmap_items'[d] = bitmap_items[d] /\ crc16'[d] = crc16[d]
            BY <2>2, <1>7, <1>10
        <3> QED BY <3>1 DEF CacheInv, Listed, Fresh, CrcOK
    <2> QED BY <2>1, <2>2
<1> QED BY <1>12, <1>13, <1>14, <1>15 DEF CacheInv

-----------------------------------------------------------------------------
(* A glyph, pointer or brush is added *)

LEMMA MatchIsThere ==
    ASSUME NEW k \in Stamped, NEW x, Match(k, x) # {}
    PROVE  Min(Match(k, x)) \in 0 .. HighIdx[k] /\ items[k][Min(Match(k, x))] = x
<1>1. Match(k, x) \in SUBSET Nat /\ Match(k, x) \subseteq 0 .. HighIdx[k]
    BY CacheAssumption DEF Match, Searched
<1>2. Min(Match(k, x)) \in Match(k, x)
    BY <1>1, MinIsLeast
<1> QED BY <1>1, <1>2 DEF Match

LEMMA StampedOK ==
    ASSUME CacheInv, NEW k \in Stamped, NEW x \in StampedItems, AddStamped(k, x)
    PROVE  CacheInv'
<1> DEFINE found == Match(k, x)
           i == IF found # {} THEN Min(found) ELSE Oldest(k)
           y == IF found # {} THEN client_items[k][i] ELSE x
<1>1. /\ items' = [items EXCEPT ![k] = [@ EXCEPT ![i] = x]]
      /\ client_items' = [client_items EXCEPT ![k] = [@ EXCEPT ![i] = y]]
      /\ UNCHANGED <<bitmap_items, lru_next, lru_prev, lru_head, lru_tail, lru_reset, crc16, client>>
    BY DEF AddStamped, bitmapVars, lruVars
<1>2. found # {} => i \in 0 .. HighIdx[k] /\ items[k][i] = x
    BY MatchIsThere
<1>3. found # {} => y = client_items[k][i]
    OBVIOUS
<1>4. found = {} => y = x
    OBVIOUS
<1>5. x \in Held /\ (i \in 0 .. HighIdx[k] => y \in Held)
    <2>1. \A j \in 0 .. HighIdx[k] : client_items[k][j] \in Held
        BY DEF CacheInv, StampTyped
    <2> HIDE DEF found, i, y
    <2> QED BY <2>1, <1>3, <1>4 DEF Held
<1> HIDE DEF found, i, y
<1>6. items[k] \in [0 .. HighIdx[k] -> Held] /\ client_items[k] \in [0 .. HighIdx[k] -> Held]
    BY DEF CacheInv, StampTyped
<1> DEFINE its == [items[k] EXCEPT ![i] = x]
           cits == [client_items[k] EXCEPT ![i] = y]
<1>7. /\ its \in [0 .. HighIdx[k] -> Held] /\ cits \in [0 .. HighIdx[k] -> Held]
      /\ \A j \in 0 .. HighIdx[k] : /\ its[j] = IF j = i THEN x ELSE items[k][j]
                                   /\ cits[j] = IF j = i THEN y ELSE client_items[k][j]
    BY <1>5, <1>6
<1>8. items' = [items EXCEPT ![k] = its] /\ client_items' = [client_items EXCEPT ![k] = cits]
    BY <1>1
<1> HIDE DEF its, cits
<1>9. DOMAIN items = Stamped /\ DOMAIN client_items = Stamped
    <2>1. StampTyped
        BY DEF CacheInv
    <2>2. /\ items = [d \in Stamped |-> items[d]]
          /\ client_items = [d \in Stamped |-> client_items[d]]
        BY <2>1 DEF StampTyped
    <2> QED BY ONLY <2>2
<1>10. \A d \in Stamped : /\ items'[d] = IF d = k THEN its ELSE items[d]
                         /\ client_items'[d] = IF d = k THEN cits ELSE client_items[d]
    BY <1>8, <1>9
<1>11. StampTyped'
    <2>1. /\ items' = [d \in Stamped |-> items'[d]]
          /\ client_items' = [d \in Stamped |-> client_items'[d]]
        BY <1>8, <1>9
    <2>2. ASSUME NEW d \in Stamped
          PROVE  /\ items'[d] \in [0 .. HighIdx[d] -> Held]
                 /\ client_items'[d] \in [0 .. HighIdx[d] -> Held]
        BY <1>7, <1>10 DEF CacheInv, StampTyped
    <2> QED BY <2>1, <2>2 DEF StampTyped
<1>12. ASSUME NEW d \in Stamped, NEW j \in 0 .. HighIdx[d], items'[d][j] # Blank
       PROVE  items'[d][j] = client_items'[d][j]
    <2>1. CASE d = k /\ j = i
        <3>1. items'[d][j] = x /\ client_items'[d][j] = y
            BY <2>1, <1>7, <1>10
        <3>2. CASE found = {}
            BY <3>1, <3>2, <1>4
        <3>3. CASE found # {}
            <4>1. items[k][i] = x /\ x # Blank /\ i \in 0 .. HighIdx[k]
                BY <3>1, <3>3, <1>2, <1>12
            <4>2. items[k][i] = client_items[k][i]
                BY <4>1 DEF CacheInv, ClientAgrees
            <4> QED BY <3>1, <3>3, <4>1, <4>2, <1>3
        <3> QED BY <3>2, <3>3
    <2>2. CASE ~ (d = k /\ j = i)
        <3>1. items'[d][j] = items[d][j] /\ client_items'[d][j] = client_items[d][j]
            BY <2>2, <1>7, <1>10
        <3> QED BY <3>1, <1>12 DEF CacheInv, ClientAgrees
    <2> QED BY <2>1, <2>2
<1>13. Typed' /\ ClientAgrees'
    BY <1>1, <1>12 DEF CacheInv, Typed, TypeOK, ClientAgrees
<1>14. \A d \in Ids : (lru_reset'[d] => Fresh(d)') /\ Listed(d)' /\ CrcOK(d)'
    BY <1>1 DEF CacheInv, Fresh, Listed, CrcOK, Lru
<1> QED BY <1>11, <1>13, <1>14 DEF CacheInv

LEMMA UnchangedOK ==
    ASSUME CacheInv, UNCHANGED vars
    PROVE  CacheInv'
    BY DEF vars, bitmapVars, lruVars, stampVars, CacheInv, Typed, TypeOK, StampTyped, ClientAgrees,
           Fresh, Listed, CrcOK, Lru

-----------------------------------------------------------------------------
(* Theorems *)

\* The linked lists, the crc16 lists and the client's copies stay as
\* xrdp_cache_add_bitmap and its siblings suppose them to be.
THEOREM CacheInvHolds == Spec => []CacheInv
<1>1. Init => CacheInv
    BY InitOK
<1>2. CacheInv /\ [Next]_vars => CacheInv'
    <2> SUFFICES ASSUME CacheInv, [Next]_vars PROVE CacheInv'
        OBVIOUS
    <2>1. CASE UNCHANGED vars
        BY <2>1, UnchangedOK
    <2>2. ASSUME NEW b \in Bitmaps, AddBitmapHit(b) PROVE CacheInv'
        BY <2>2, HitOK
    <2>3. ASSUME NEW b \in Bitmaps, AddBitmapMiss(b) PROVE CacheInv'
        BY <2>3, MissOK
    <2>4. ASSUME NEW b \in Bitmaps, AddBitmapTooBig(b) PROVE CacheInv'
        BY <2>4, UnchangedOK DEF AddBitmapTooBig
    <2>5. ASSUME NEW k \in Stamped, NEW x \in StampedItems, AddStamped(k, x) PROVE CacheInv'
        BY <2>5, StampedOK
    <2>6. CASE Reset
        BY <2>6, ResetOK
    <2> QED BY <2>1, <2>2, <2>3, <2>4, <2>5, <2>6 DEF Next
<1> QED BY <1>1, <1>2, PTL DEF Spec

\* Every array index that xrdp_cache_update_lru follows is one of the array.
THEOREM CacheTypeOK == Spec => []TypeOK
<1>1. CacheInv => TypeOK
    BY DEF CacheInv, Typed
<1> QED BY <1>1, CacheInvHolds, PTL

\* A bitmap is found by its crc16 exactly while it is cached, once.
THEOREM CrcListsExactHolds == Spec => []CrcListsExact
<1>1. CacheInv => CrcListsExact
    <2> SUFFICES ASSUME CacheInv, NEW id \in Ids, NEW c \in Crcs
                 PROVE  /\ Range(crc16[id][c]) = Holding(bitmap_items[id], c)
                        /\ Cardinality(Range(crc16[id][c])) = Len(crc16[id][c])
        BY DEF CrcListsExact, Holding
    <2> DEFINE s == crc16[id][c]
    <2>1. s \in Seq(Idx) /\ Lists(s, Holding(bitmap_items[id], c))
        BY DEF CacheInv, Typed, TypeOK, CrcOK
    <2> HIDE DEF s
    <2>2. Range(s) = Holding(bitmap_items[id], c)
        BY <2>1 DEF Lists, Range, Holding
    <2>3. s \in Bijection(1 .. Len(s), Range(s))
        BY <2>1 DEF Lists, Range, Bijection, Injection, Surjection, IsInjective
    <2>4. Cardinality(Range(s)) = Len(s)
        <3>1. IsFiniteSet(1 .. Len(s)) /\ Cardinality(1 .. Len(s)) = Len(s)
            <4>1. Len(s) \in Nat
                BY <2>1
            <4> DEFINE m == Len(s)
            <4>2. m \in Nat
                BY <4>1
            <4> HIDE DEF m
            <4>3. IsFiniteSet(1 .. m) /\ Cardinality(1 .. m) = m
                BY <4>2, FS_Interval
            <4> QED BY <4>3 DEF m
        <3> QED BY <2>3, <3>1, FS_Bijection DEF ExistsBijection
    <2> QED BY <2>2, <2>4 DEF s
<1> QED BY <1>1, CacheInvHolds, PTL

\* An index names the same bitmap, glyph, pointer or brush on both sides.
THEOREM ClientAgreesHolds == Spec => []ClientAgrees
<1>1. CacheInv => ClientAgrees
    BY DEF CacheInv
<1> QED BY <1>1, CacheInvHolds, PTL

-----------------------------------------------------------------------------
(* The order of use *)

\* A sequence whose k-th item is used again, or whose first makes room.
ToEnd(s, k, b) == [m \in 1 .. Len(s) |-> IF m < k THEN s[m] ELSE IF m < Len(s) THEN s[m + 1] ELSE b]

LEMMA UsedAgain ==
    ASSUME NEW S, NEW s \in Seq(S), NEW b \in S, NEW k \in 1 .. Len(s)
    PROVE  Append(BitmapLru!RemoveAt(s, k), b) = ToEnd(s, k, b)
<1> DEFINE n == Len(s)
           x == SubSeq(s, 1, k - 1)
           y == SubSeq(s, k + 1, n)
           r == x \o y
           t == Append(r, b)
<1>1. n \in Nat /\ k \in 1 .. n
    OBVIOUS
<1>2. x \in Seq(S) /\ Len(x) = k - 1 /\ \A m \in 1 .. k - 1 : x[m] = s[m]
    OBVIOUS
<1>3. y \in Seq(S) /\ Len(y) = n - k /\ \A m \in 1 .. n - k : y[m] = s[k + m]
    OBVIOUS
<1> HIDE DEF n, x, y
<1>4. r \in Seq(S) /\ Len(r) = n - 1
    BY <1>1, <1>2, <1>3
<1>5. ASSUME NEW m \in 1 .. n - 1 PROVE r[m] = IF m < k THEN s[m] ELSE s[m + 1]
    <2>1. ASSUME m < k PROVE r[m] = s[m]
        BY <2>1, <1>1, <1>2, <1>3
    <2>2. ASSUME m >= k PROVE r[m] = s[m + 1]
        <3>1. r[m] = y[m - (k - 1)]
            BY <2>2, <1>1, <1>2, <1>3
        <3> QED BY <3>1, <2>2, <1>1, <1>3
    <2>3. m \in Int /\ k \in Int
        BY <1>1
    <2> HIDE DEF r
    <2> QED BY <2>1, <2>2, <2>3
<1>6. BitmapLru!RemoveAt(s, k) = r
    BY DEF BitmapLru!RemoveAt, x, y, n
<1> HIDE DEF r
<1>7. t \in Seq(S) /\ Len(t) = n /\ \A m \in 1 .. n : t[m] = IF m < n THEN r[m] ELSE b
    BY <1>1, <1>4
<1> HIDE DEF t
<1>8. t = [m \in 1 .. n |-> t[m]]
    BY <1>7
<1>9. ASSUME NEW m \in 1 .. n
      PROVE  t[m] = IF m < k THEN s[m] ELSE IF m < n THEN s[m + 1] ELSE b
    <2>1. CASE m < n
        <3>1. m \in 1 .. n - 1 /\ t[m] = r[m]
            BY <2>1, <1>1, <1>7
        <3> QED BY <3>1, <2>1, <1>5
    <2>2. CASE m = n
        BY <2>2, <1>1, <1>7
    <2> QED BY <2>1, <2>2, <1>1
<1> QED BY <1>6, <1>8, <1>9 DEF n, t, ToEnd

LEMMA UsedAnew ==
    ASSUME NEW S, NEW s \in Seq(S), NEW b \in S, Len(s) > 0
    PROVE  Append(Tail(s), b) = ToEnd(s, 1, b)
<1> DEFINE t == Append(Tail(s), b)
<1>1. t \in Seq(S) /\ Len(t) = Len(s)
      /\ \A m \in 1 .. Len(s) : t[m] = IF m < Len(s) THEN s[m + 1] ELSE b
    OBVIOUS
<1> HIDE DEF t
<1>2. t = [m \in 1 .. Len(s) |-> t[m]]
    BY <1>1
<1>3. \A m \in 1 .. Len(s) : ~ m < 1
    OBVIOUS
<1> QED BY <1>1, <1>2, <1>3 DEF t, ToEnd

\* The list in the order p, of which the first d entries hold nothing yet.
Ranked(id, p, d) ==
    /\ ~ lru_reset[id] /\ InOrder(Lru(id), p, Entries[id])
    /\ \A k \in 1 .. Entries[id] : bitmap_items[id][p[k]] # None <=> k > d
    /\ \A i \in Idx : bitmap_items[id][i] # None => i < Entries[id]

\* No bitmap is cached twice.
CachedOnce(id) ==
    \A i, j \in Idx : bitmap_items[id][i] = bitmap_items[id][j] /\ bitmap_items[id][i] # None => i = j

InUse(id) ==
    IF lru_reset[id] THEN Fresh(id)
    ELSE \E p \in Orders(Entries[id]), d \in 0 .. Entries[id] : Ranked(id, p, d)

UseInv == CacheInv /\ \A id \in Ids : InUse(id) /\ CachedOnce(id)

\* The walk along lru_next finds the order.
Along(n, head, next, at) == [k \in 1 .. n |-> IF k = 1 THEN head ELSE next[at[k - 1]]]

LEMMA WalkIsOrder ==
    ASSUME NEW n \in Nat \ {0}, NEW p \in Orders(n), NEW head, NEW next, head = p[1],
           \A k \in 1 .. n - 1 : next[p[k]] = p[k + 1]
    PROVE  /\ p = Along(n, head, next, p)
           /\ \A f : f = Along(n, head, next, f) => f = p
<1> DEFINE G(at) == [k \in 1 .. n |-> IF k = 1 THEN head ELSE next[at[k - 1]]]
<1>1. p = G(p)
    <2>1. ASSUME NEW k \in 1 .. n PROVE p[k] = G(p)[k]
        <3>1. CASE k = 1
            BY <3>1
        <3>2. CASE k # 1
            <4>1. k - 1 \in 1 .. n - 1 /\ (k - 1) + 1 = k
                BY <3>2
            <4>2. next[p[k - 1]] = p[k]
                BY <4>1
            <4> QED BY <4>2, <3>2
        <3> QED BY <3>1, <3>2
    <2>2. p = [k \in 1 .. n |-> p[k]]
        BY DEF Orders
    <2> QED BY <2>1, <2>2
<1>2. ASSUME NEW f, f = G(f) PROVE f = p
    <2>1. \A k \in 1 .. n : f[k] = IF k = 1 THEN head ELSE next[f[k - 1]]
        BY <1>2
    <2>2. f = [k \in 1 .. n |-> f[k]]
        BY <1>2
    <2>3. \A k \in 1 .. n : f[k] = p[k]
        <3> DEFINE bad == {k \in 1 .. n : f[k] # p[k]}
        <3>1. SUFFICES ASSUME bad # {} PROVE FALSE
            OBVIOUS
        <3>2. bad \in SUBSET Nat
            OBVIOUS
        <3>3. PICK k \in bad : \A j \in bad : k <= j
            BY <3>1, <3>2, LeastElement
        <3>4. k \in 1 .. n /\ f[k] # p[k]
            BY <3>3
        <3>5. k # 1
            BY <3>4, <2>1
        <3>6. k - 1 \in 1 .. n /\ k - 1 \notin bad /\ k - 1 \in 1 .. n - 1 /\ (k - 1) + 1 = k
            BY <3>3, <3>4, <3>5
        <3>7. f[k - 1] = p[k - 1]
            BY <3>6
        <3>8. f[k] = next[p[k - 1]] /\ next[p[k - 1]] = p[k]
            BY <3>4, <3>5, <3>6, <3>7, <2>1
        <3> QED BY <3>4, <3>8
    <2>4. p = [k \in 1 .. n |-> p[k]]
        BY DEF Orders
    <2> QED BY <2>2, <2>3, <2>4
<1> QED BY <1>1, <1>2 DEF Along

\* What the places after d hold.
After(x, p, d, n) == [m \in 1 .. n - d |-> x[p[d + m]]]

LEMMA ByUse ==
    \A id \in Ids : \A p \in Orders(Entries[id]), d \in 0 .. Entries[id] :
        Ranked(id, p, d) =>
            BitmapsByUse(id) = After(bitmap_items[id], p, d, Entries[id])
<1> SUFFICES ASSUME NEW id \in Ids, NEW p \in Orders(Entries[id]), NEW d \in 0 .. Entries[id],
                    Ranked(id, p, d)
             PROVE  BitmapsByUse(id) = After(bitmap_items[id], p, d, Entries[id])
    OBVIOUS
<1> DEFINE n == Entries[id]
<1>1. MaxIdx \in Nat /\ n \in 1 .. MaxIdx /\ n \in Nat \ {0} /\ d \in 0 .. n /\ p \in Orders(n)
    BY Sizes
<1>2. /\ Listing(id) = n /\ InOrder(Lru(id), p, n)
      /\ \A k \in 1 .. n : bitmap_items[id][p[k]] # None <=> k > d
      /\ \A i \in Idx : bitmap_items[id][i] # None => i < n
    BY DEF Ranked, Listing
<1> HIDE DEF n
<1>3. Walk(id) = p
    <2>1. lru_head[id] = p[1] /\ \A k \in 1 .. n - 1 : lru_next[id][p[k]] = p[k + 1]
        BY <1>2 DEF InOrder, Lru
    <2> DEFINE head == lru_head[id]
               next == lru_next[id]
    <2>2. Walk(id) = CHOOSE at : at = Along(n, head, next, at)
        BY <1>2 DEF Walk, Along
    <2>3. head = p[1] /\ \A k \in 1 .. n - 1 : next[p[k]] = p[k + 1]
        BY <2>1
    <2> HIDE DEF head, next
    <2>4. /\ p = Along(n, head, next, p)
          /\ \A f : f = Along(n, head, next, f) => f = p
        BY <1>1, <2>3, WalkIsOrder
    <2> QED BY <2>2, <2>4
<1>4. \A k \in 1 .. n : p[k] \in Idx /\ p[k] \in 0 .. n - 1
    <2>1. \A k \in 1 .. n : p[k] \in 0 .. n - 1
        BY <1>1 DEF Orders
    <2>2. \A i \in 0 .. n - 1 : i \in Idx
        BY <1>1 DEF Idx
    <2> QED BY <2>1, <2>2
<1>5. Cardinality(Taken(id)) = n - d
    <2> DEFINE f == [k \in d + 1 .. n |-> p[k]]
    <2>1. \A k \in d + 1 .. n : k \in 1 .. n /\ k > d
        BY <1>1
    <2>2. ASSUME NEW k \in d + 1 .. n PROVE p[k] \in Taken(id)
        <3>1. p[k] \in Idx
            BY <1>4, <2>1
        <3>2. bitmap_items[id][p[k]] # None
            BY <1>2, <2>1
        <3> QED BY <3>1, <3>2 DEF Taken
    <2>3. \A k, m \in d + 1 .. n : p[k] = p[m] => k = m
        BY <1>2, <2>1 DEF InOrder
    <2>4. ASSUME NEW i \in Taken(id) PROVE \E k \in d + 1 .. n : p[k] = i
        <3>1. i \in Idx /\ bitmap_items[id][i] # None /\ i < n
            <4>1. i \in Idx /\ bitmap_items[id][i] # None
                BY <2>4 DEF Taken
            <4> QED BY <4>1, <1>2
        <3>2. i \in 0 .. n - 1
            BY <3>1, <1>1 DEF Idx
        <3>3. PICK k \in 1 .. n : p[k] = i
            BY <3>2, <1>2 DEF InOrder
        <3>4. k > d
            BY <3>1, <3>3, <1>2
        <3> QED BY <3>3, <3>4, <1>1
    <2>5. f \in Bijection(d + 1 .. n, Taken(id))
        BY <2>2, <2>3, <2>4 DEF Bijection, Injection, Surjection, IsInjective
    <2>6. d + 1 \in Int /\ n \in Int
        BY <1>1
    <2>7. IsFiniteSet(d + 1 .. n)
          /\ Cardinality(d + 1 .. n) = IF d + 1 > n THEN 0 ELSE n - (d + 1) + 1
        BY <2>6, FS_Interval
    <2>8. Cardinality(d + 1 .. n) = n - d
        BY <2>7, <1>1
    <2>9. ExistsBijection(d + 1 .. n, Taken(id))
        BY <2>5 DEF ExistsBijection
    <2> QED BY <2>7, <2>8, <2>9, FS_Bijection
<1>6. \A m \in 1 .. n - d : n - (n - d) + m = d + m
    BY <1>1
<1> QED BY <1>2, <1>3, <1>5, <1>6 DEF BitmapsByUse, After, n

LEMMA FreshByUse == \A id \in Ids : Fresh(id) => BitmapsByUse(id) = <<>>
<1> SUFFICES ASSUME NEW id \in Ids, Fresh(id) PROVE BitmapsByUse(id) = <<>>
    OBVIOUS
<1>1. Taken(id) = {}
    BY DEF Taken, Fresh
<1>2. Cardinality(Taken(id)) = 0
    BY <1>1, FS_EmptySet
<1> QED BY <1>2 DEF BitmapsByUse

LEMMA ByUseNext ==
    /\ (\A id \in Ids : \A p \in Orders(Entries[id]), d \in 0 .. Entries[id] :
          Ranked(id, p, d) =>
            BitmapsByUse(id) = After(bitmap_items[id], p, d, Entries[id]))'
    /\ (\A id \in Ids : Fresh(id) => BitmapsByUse(id) = <<>>)'
    BY ByUse, FreshByUse, PTL

\* What the classes that a step does not use show.
SameClass(e) ==
    /\ Lru(e)' = Lru(e) /\ lru_reset'[e] = lru_reset[e] /\ bitmap_items'[e] = bitmap_items[e]

LEMMA SameByUse ==
    ASSUME NEW e \in Ids, InUse(e), CachedOnce(e), SameClass(e)
    PROVE  InUse(e)' /\ CachedOnce(e)' /\ BitmapsByUse(e)' = BitmapsByUse(e)
<1>1. CachedOnce(e)'
    BY DEF SameClass, CachedOnce
<1>2. CASE lru_reset[e]
    <2>1. Fresh(e) /\ Fresh(e)'
        BY <1>2 DEF InUse, Fresh, SameClass
    <2>2. InUse(e)'
        BY <1>2, <2>1 DEF InUse, SameClass
    <2> QED BY <1>1, <2>1, <2>2, FreshByUse, ByUseNext
<1>3. CASE ~ lru_reset[e]
    <2>1. PICK p \in Orders(Entries[e]), d \in 0 .. Entries[e] : Ranked(e, p, d)
        BY <1>3 DEF InUse
    <2>2. Ranked(e, p, d)'
        BY <2>1 DEF Ranked, SameClass
    <2>3. ~ lru_reset'[e]
        BY <1>3 DEF SameClass
    <2>4. InUse(e)'
        BY <2>2, <2>3 DEF InUse
    <2>5. BitmapsByUse(e) = After(bitmap_items[e], p, d, Entries[e])
        BY <2>1, ByUse
    <2>6. BitmapsByUse(e)' = After(bitmap_items'[e], p, d, Entries[e])
        BY <2>2, ByUseNext
    <2> QED BY <1>1, <2>4, <2>5, <2>6 DEF SameClass
<1> QED BY <1>2, <1>3

\* A step that uses b again, or puts it in anew, in the terms of LruCache.
LEMMA StepAgain ==
    ASSUME NEW b \in Bitmaps, NEW id \in Ids, ClassOf[b] = id,
           drawn' = [drawn EXCEPT ![id] = b],
           NEW k \in 1 .. Len(BitmapsByUse(id)), BitmapsByUse(id)[k] = b,
           BitmapsByUse(id)' = Append(BitmapLru!RemoveAt(BitmapsByUse(id), k), b),
           \A e \in Ids : e # id => BitmapsByUse(e)' = BitmapsByUse(e)
    PROVE  BitmapLru!Next
<1> DEFINE view == [e \in Ids |-> BitmapsByUse(e)]
           new == Append(BitmapLru!RemoveAt(BitmapsByUse(id), k), b)
<1>1. view' = [view EXCEPT ![id] = new]
    OBVIOUS
<1>2. view[id] = BitmapsByUse(id)
    OBVIOUS
<1> HIDE DEF view, new
<1>3. view' = [view EXCEPT ![id] = Append(BitmapLru!RemoveAt(@, k), b)]
    BY <1>1, <1>2 DEF new
<1>4. BitmapLru!Again(id, b)
    BY <1>2, <1>3 DEF BitmapLru!Again, view
<1>5. b \in [e \in Ids |-> {x \in Bitmaps : ClassOf[x] = e}][id]
    OBVIOUS
<1> QED BY <1>4, <1>5 DEF BitmapLru!Next, BitmapLru!Use

LEMMA StepAnew ==
    ASSUME NEW b \in Bitmaps, NEW id \in Ids, ClassOf[b] = id,
           drawn' = [drawn EXCEPT ![id] = b],
           \A k \in 1 .. Len(BitmapsByUse(id)) : BitmapsByUse(id)[k] # b,
           BitmapsByUse(id)' = Append(IF Len(BitmapsByUse(id)) = Entries[id]
                                      THEN Tail(BitmapsByUse(id)) ELSE BitmapsByUse(id), b),
           \A e \in Ids : e # id => BitmapsByUse(e)' = BitmapsByUse(e)
    PROVE  BitmapLru!Next
<1> DEFINE view == [e \in Ids |-> BitmapsByUse(e)]
           new == Append(IF Len(BitmapsByUse(id)) = Entries[id]
                         THEN Tail(BitmapsByUse(id)) ELSE BitmapsByUse(id), b)
<1>1. view' = [view EXCEPT ![id] = new]
    OBVIOUS
<1>2. view[id] = BitmapsByUse(id)
    OBVIOUS
<1> HIDE DEF view, new
<1>3. view' = [view EXCEPT ![id] = Append(IF Len(@) = Entries[id] THEN Tail(@) ELSE @, b)]
    BY <1>1, <1>2 DEF new
<1>4. BitmapLru!Anew(id, b)
    BY <1>2, <1>3 DEF BitmapLru!Anew, view
<1>5. b \in [e \in Ids |-> {x \in Bitmaps : ClassOf[x] = e}][id]
    OBVIOUS
<1> QED BY <1>4, <1>5 DEF BitmapLru!Next, BitmapLru!Use

\* The entry at place k0 becomes the last: what the list shows then.
Hold(x, p, d, n, S) == \A k \in d + 1 .. n : x[p[k]] \in S

LEMMA MovedShown ==
    ASSUME NEW n \in Nat \ {0}, NEW p, NEW d \in 0 .. n - 1, NEW k0 \in d + 1 .. n,
           NEW S, NEW x, Hold(x, p, d, n, S)
    PROVE  /\ After(x, p, d, n) \in Seq(S) /\ Len(After(x, p, d, n)) = n - d
           /\ k0 - d \in 1 .. n - d /\ After(x, p, d, n)[k0 - d] = x[p[k0]]
           /\ After(x, MovedToEnd(p, k0, n), d, n) = ToEnd(After(x, p, d, n), k0 - d, x[p[k0]])
<1> DEFINE s == [m \in 1 .. n - d |-> x[p[d + m]]]
           q == MovedToEnd(p, k0, n)
           b == x[p[k0]]
           t == [m \in 1 .. n - d |-> x[q[d + m]]]
<1>1. n - d \in Nat /\ \A m \in 1 .. n - d : d + m \in d + 1 .. n
    OBVIOUS
<1>2. s \in Seq(S) /\ Len(s) = n - d
    BY <1>1 DEF Hold
<1>3. k0 - d \in 1 .. Len(s) /\ d + (k0 - d) = k0
    BY <1>2
<1>4. s[k0 - d] = b
    BY <1>2, <1>3
<1>5. b \in S
    BY DEF Hold
<1>6. \A k \in 1 .. n : q[k] = IF k < k0 THEN p[k] ELSE IF k < n THEN p[k + 1] ELSE p[k0]
    BY DEF MovedToEnd
<1>7. \A m \in 1 .. n - d : s[m] = x[p[d + m]]
    OBVIOUS
<1>8. \A m \in 1 .. n - d : t[m] = x[q[d + m]]
    OBVIOUS
<1>9. t = [m \in 1 .. n - d |-> t[m]]
    OBVIOUS
<1> HIDE DEF s, q, b, t
<1>10. ASSUME NEW m \in 1 .. n - d
       PROVE  t[m] = IF m < k0 - d THEN s[m] ELSE IF m < n - d THEN s[m + 1] ELSE b
    <2>1. d + m \in 1 .. n /\ m \in Int
        BY <1>1
    <2>2. CASE m < k0 - d
        <3>1. q[d + m] = p[d + m]
            BY <2>1, <2>2, <1>6
        <3> QED BY <2>2, <3>1, <1>7, <1>8
    <2>3. CASE m >= k0 - d /\ m < n - d
        <3>1. q[d + m] = p[d + m + 1] /\ m + 1 \in 1 .. n - d /\ d + (m + 1) = d + m + 1
            BY <2>1, <2>3, <1>6
        <3>2. s[m + 1] = x[p[d + m + 1]]
            BY <3>1, <1>7
        <3> QED BY <2>1, <2>3, <3>1, <3>2, <1>8
    <2>4. CASE m >= k0 - d /\ m = n - d
        <3>1. q[d + m] = p[k0]
            BY <2>1, <2>4, <1>6
        <3> QED BY <2>1, <2>4, <3>1, <1>8 DEF b
    <2> QED BY <2>1, <2>2, <2>3, <2>4
<1>11. t = [m \in 1 .. n - d |->
               IF m < k0 - d THEN s[m] ELSE IF m < n - d THEN s[m + 1] ELSE b]
    BY <1>9, <1>10
<1>12. t = ToEnd(s, k0 - d, b)
    BY <1>2, <1>11 DEF ToEnd
<1> QED BY <1>2, <1>3, <1>4, <1>12 DEF s, q, b, t, After

LEMMA HitUse ==
    ASSUME UseInv, NEW b \in Bitmaps, AddBitmapHit(b)
    PROVE  UseInv' /\ BitmapLru!Next
<1> DEFINE id == ClassOf[b]
           n == Entries[id]
<1>1. id \in Ids
    BY CacheAssumption DEF AddBitmapHit
<1>2. PICK i \in FoundAt(id, b) : /\ SetLru(id, UpdateLru(Lru(id), i))
                                  /\ drawn' = [drawn EXCEPT ![id] = client[id][i]]
    BY DEF AddBitmapHit
<1>3. UNCHANGED <<bitmap_items, lru_reset, crc16, client>>
    BY DEF AddBitmapHit
<1>4. CacheInv /\ CacheInv'
    BY HitOK DEF UseInv
<1>5. ClassOf[b] = id
    OBVIOUS
<1> HIDE DEF id
<1>6. i \in Idx /\ bitmap_items[id][i] = b /\ i \in 0 .. n - 1 /\ ~ lru_reset[id] /\ b # None
    BY <1>1, <1>2, <1>4, FoundIsInUse, CacheAssumption
<1>7. PICK p \in Orders(n), d \in 0 .. n : Ranked(id, p, d)
    BY <1>1, <1>6 DEF UseInv, InUse
<1>8. MaxIdx \in Nat /\ n \in 1 .. MaxIdx /\ n \in Nat \ {0}
    BY <1>1, Sizes
<1>9. PICK k0 \in 1 .. n : p[k0] = i
    BY <1>6, <1>7 DEF Ranked, InOrder
<1>10. /\ \A k \in 1 .. n : bitmap_items[id][p[k]] # None <=> k > d
       /\ \A j \in Idx : bitmap_items[id][j] # None => j < n
    BY <1>7 DEF Ranked
<1>11. k0 > d /\ d \in 0 .. n - 1 /\ k0 \in d + 1 .. n
    BY <1>6, <1>7, <1>8, <1>9, <1>10
<1> DEFINE q == MovedToEnd(p, k0, n)
           l == UpdateLru(Lru(id), i)
<1>12. l \in LruType /\ q \in Orders(n) /\ InOrder(l, q, n)
    <2>1. Lru(id) \in LruType /\ InOrder(Lru(id), p, n)
        BY <1>1, <1>4, <1>7, LruTyped DEF CacheInv, Typed, Ranked
    <2> QED BY <2>1, <1>7, <1>8, <1>9, UpdatedOrder
<1> HIDE DEF l
<1>13. \A e \in Ids : Lru(e)' = IF e = id THEN l ELSE Lru(e)
    BY <1>1, <1>2, <1>4, <1>12, Sets DEF CacheInv, Typed, l
<1>14. \A k \in 1 .. n : q[k] = IF k < k0 THEN p[k] ELSE IF k < n THEN p[k + 1] ELSE p[k0]
    BY DEF MovedToEnd
<1> DEFINE x == bitmap_items[id]
<1>15. ASSUME NEW k \in 1 .. n PROVE x[q[k]] # None <=> k > d
    <2>1. CASE k < k0
        BY <2>1, <1>10, <1>14
    <2>2. CASE k >= k0 /\ k < n
        <3>1. k + 1 \in 1 .. n /\ q[k] = p[k + 1]
            <4>1. k + 1 \in 1 .. n /\ ~ k < k0
                BY <2>2, <1>8
            <4> QED BY <4>1, <2>2, <1>14
        <3> QED BY <2>2, <3>1, <1>10, <1>11
    <2>3. CASE k = n
        BY <2>3, <1>10, <1>11, <1>14
    <2> QED BY <2>1, <2>2, <2>3, <1>8
<1>16. Ranked(id, q, d)'
    BY <1>1, <1>3, <1>6, <1>10, <1>12, <1>13, <1>15 DEF Ranked, n
<1>17. ASSUME NEW e \in Ids, e # id
       PROVE  InUse(e)' /\ CachedOnce(e)' /\ BitmapsByUse(e)' = BitmapsByUse(e)
    BY <1>3, <1>13, <1>17, SameByUse DEF UseInv, SameClass
<1>18. InUse(id)' /\ CachedOnce(id)'
    <2>1. InUse(id)'
        BY <1>3, <1>6, <1>7, <1>12, <1>16 DEF InUse, n
    <2>2. CachedOnce(id)'
        BY <1>1, <1>3 DEF UseInv, CachedOnce
    <2> QED BY <2>1, <2>2
<1>19. UseInv'
    BY <1>4, <1>17, <1>18 DEF UseInv
<1> DEFINE s == After(x, p, d, n)
<1>20. BitmapsByUse(id) = s
    BY <1>1, <1>7, ByUse DEF n
<1>21. BitmapsByUse(id)' = After(x, q, d, n)
    <2>1. BitmapsByUse(id)' = After(bitmap_items'[id], q, d, n)
        BY <1>1, <1>7, <1>12, <1>16, ByUseNext DEF n
    <2> QED BY <2>1, <1>3
<1>22. /\ s \in Seq(Bitmaps \cup {None}) /\ Len(s) = n - d
       /\ k0 - d \in 1 .. n - d /\ s[k0 - d] = x[p[k0]]
       /\ After(x, q, d, n) = ToEnd(s, k0 - d, x[p[k0]])
    <2>1. \A k \in d + 1 .. n : x[p[k]] \in Bitmaps \cup {None}
        <3>1. \A k \in 1 .. n : p[k] \in 0 .. n - 1
            BY <1>7 DEF Orders
        <3>2. \A j \in 0 .. n - 1 : j \in Idx
            BY <1>8 DEF Idx
        <3>3. \A j \in Idx : x[j] \in Bitmaps \cup {None}
            BY <1>1, <1>4 DEF CacheInv, Typed, TypeOK
        <3> QED BY <3>1, <3>2, <3>3, <1>7, <1>8
    <2> DEFINE S == Bitmaps \cup {None}
    <2>3. Hold(x, p, d, n, S)
        BY <2>1 DEF Hold
    <2> HIDE DEF x, n, q, s, S
    <2>2. /\ n \in Nat \ {0} /\ p \in Orders(n) /\ d \in 0 .. n - 1 /\ k0 \in d + 1 .. n
          /\ s = After(x, p, d, n) /\ q = MovedToEnd(p, k0, n)
        BY <1>7, <1>8, <1>11 DEF s, q
    <2>4. /\ s \in Seq(S) /\ Len(s) = n - d
          /\ k0 - d \in 1 .. n - d /\ s[k0 - d] = x[p[k0]]
          /\ After(x, q, d, n) = ToEnd(s, k0 - d, x[p[k0]])
        BY ONLY <2>2, <2>3, MovedShown
    <2> QED BY <2>4 DEF S
<1>23. drawn' = [drawn EXCEPT ![id] = b]
    BY <1>1, <1>2, <1>4, <1>6 DEF CacheInv, ClientAgrees
<1> HIDE DEF x, s, q, n
<1>24. BitmapLru!Next
    <2> DEFINE k == k0 - d
    <2>1. k \in 1 .. Len(BitmapsByUse(id)) /\ BitmapsByUse(id)[k] = b
          /\ BitmapsByUse(id)' = Append(BitmapLru!RemoveAt(BitmapsByUse(id), k), b)
        <3>1. k \in 1 .. Len(s) /\ s[k] = b /\ BitmapsByUse(id)' = ToEnd(s, k, b)
            BY <1>6, <1>9, <1>21, <1>22 DEF x
        <3> HIDE DEF k
        <3>2. ToEnd(s, k, b) = Append(BitmapLru!RemoveAt(s, k), b)
            BY <3>1, <1>22, UsedAgain
        <3> QED BY <3>1, <3>2, <1>20
    <2> HIDE DEF k
    <2> QED BY <2>1, <1>1, <1>5, <1>17, <1>23, StepAgain
<1> QED BY <1>19, <1>24

\* The first place is given to b and becomes the last: what the list shows then.
Given(x, y, p, b, n) ==
    /\ \A k, m \in 1 .. n : p[k] = p[m] => k = m
    /\ \A k \in 1 .. n : y[p[k]] = IF k = 1 THEN b ELSE x[p[k]]

LEMMA GivenShown ==
    ASSUME NEW n \in Nat \ {0}, NEW p, NEW d \in 0 .. n, NEW b, NEW x, NEW y, NEW S,
           b \in S, Hold(x, p, d, n, S), Given(x, y, p, b, n)
    PROVE  LET s == After(x, p, d, n)
               e == IF d = 0 THEN 0 ELSE d - 1
           IN  After(y, MovedToEnd(p, 1, n), e, n) = Append(IF Len(s) = n THEN Tail(s) ELSE s, b)
<1> DEFINE s == After(x, p, d, n)
           q == MovedToEnd(p, 1, n)
           e == IF d = 0 THEN 0 ELSE d - 1
           t == After(y, q, e, n)
<1>1. n - d \in Nat /\ \A m \in 1 .. n - d : d + m \in d + 1 .. n /\ d + m \in 1 .. n
    OBVIOUS
<1>2. s \in Seq(S) /\ Len(s) = n - d /\ \A m \in 1 .. n - d : s[m] = x[p[d + m]]
    BY <1>1 DEF Hold, After
<1>3. \A k \in 1 .. n : q[k] = IF k < n THEN p[k + 1] ELSE p[1]
    BY DEF MovedToEnd
<1>4. t = [m \in 1 .. n - e |-> t[m]] /\ \A m \in 1 .. n - e : t[m] = y[q[e + m]]
    BY DEF After
<1> HIDE DEF q, s, t
<1>5. \A k \in 1 .. n : y[q[k]] = IF k < n THEN x[p[k + 1]] ELSE b
    <2> SUFFICES ASSUME NEW k \in 1 .. n PROVE y[q[k]] = IF k < n THEN x[p[k + 1]] ELSE b
        OBVIOUS
    <2>1. CASE k < n
        <3>1. k + 1 \in 1 .. n /\ k + 1 # 1 /\ q[k] = p[k + 1]
            BY <2>1, <1>3
        <3> QED BY <2>1, <3>1 DEF Given
    <2>2. CASE k = n
        <3>1. q[k] = p[1] /\ 1 \in 1 .. n
            BY <2>2, <1>3
        <3> QED BY <2>2, <3>1 DEF Given
    <2> QED BY <2>1, <2>2
<1>6. CASE d = 0
    <2>1. e = 0 /\ n - e = n /\ Len(s) = n /\ n > 0
        BY <1>2, <1>6
    <2>2. Append(Tail(s), b) = ToEnd(s, 1, b)
        BY <1>2, <2>1, UsedAnew
    <2>3. ASSUME NEW m \in 1 .. n PROVE t[m] = IF m < 1 THEN s[m] ELSE IF m < n THEN s[m + 1] ELSE b
        <3>1. t[m] = y[q[m]] /\ ~ m < 1
            <4>1. e + m = m /\ m \in 1 .. n - e /\ ~ m < 1
                BY <2>1
            <4>2. t[m] = y[q[e + m]]
                BY <4>1, <1>4
            <4> QED BY <4>1, <4>2
        <3>2. m < n => s[m + 1] = x[p[m + 1]]
            <4>1. m < n => m + 1 \in 1 .. n - d /\ d + (m + 1) = m + 1
                BY <1>6
            <4> QED BY <4>1, <1>2
        <3> QED BY <3>1, <3>2, <1>5
    <2>4. t = ToEnd(s, 1, b)
        BY <1>4, <2>1, <2>3 DEF ToEnd
    <2> QED BY <2>1, <2>2, <2>4 DEF t, q, s
<1>7. CASE d > 0
    <2>1. e = d - 1 /\ n - e = (n - d) + 1 /\ Len(s) = n - d /\ Len(s) # n
        BY <1>2, <1>7
    <2> DEFINE r == Append(s, b)
               c == n - d
    <2>2. c \in Nat /\ s \in Seq(S) /\ Len(s) = c
        BY <1>1, <2>1, <1>2
    <2>3. n - e = c + 1 /\ \A m \in 1 .. c + 1 : e + m \in 1 .. n /\ (m <= c <=> e + m < n)
        BY <1>7, <2>1
    <2>4. \A m \in 1 .. c : s[m] = x[p[d + m]] /\ e + m < n /\ (e + m) + 1 = d + m
        BY <1>2, <2>1, <2>3
    <2> HIDE DEF c, e
    <2>5. Len(r) = c + 1 /\ r \in Seq(S) /\ \A m \in 1 .. c + 1 : r[m] = IF m <= c THEN s[m] ELSE b
        BY <2>2
    <2> HIDE DEF r
    <2>6. r = [m \in 1 .. c + 1 |-> r[m]]
        BY <2>5
    <2>7. ASSUME NEW m \in 1 .. c + 1 PROVE t[m] = r[m]
        <3>1. t[m] = y[q[e + m]] /\ e + m \in 1 .. n
            BY <1>4, <2>3
        <3>2. CASE m <= c
            <4>1. m \in 1 .. c
                BY <3>2
            <4>2. y[q[e + m]] = x[p[d + m]]
                BY <3>1, <4>1, <2>4, <1>5
            <4> QED BY <3>1, <3>2, <4>1, <4>2, <2>4, <2>5
        <3>3. CASE ~ m <= c
            <4>1. y[q[e + m]] = b
                BY <3>1, <3>3, <2>3, <1>5
            <4> QED BY <3>1, <3>3, <4>1, <2>5
        <3> QED BY <3>2, <3>3
    <2>8. t = r
        BY <1>4, <2>3, <2>6, <2>7
    <2> QED BY <2>1, <2>8 DEF t, q, s, r, e
<1> QED BY <1>6, <1>7

\* What each class shows, and the order of its list, before a bitmap is added.
LEMMA ShownInOrder ==
    ASSUME UseInv, NEW id \in Ids
    PROVE  LET l == IF lru_reset[id] THEN Cut(Lru(id), Entries[id]) ELSE Lru(id)
           IN  /\ l \in LruType
               /\ \E p \in Orders(Entries[id]), d \in 0 .. Entries[id] :
                     /\ InOrder(l, p, Entries[id])
                     /\ \A k \in 1 .. Entries[id] : bitmap_items[id][p[k]] # None <=> k > d
                     /\ BitmapsByUse(id) = After(bitmap_items[id], p, d, Entries[id])
<1> DEFINE n == Entries[id]
           l == IF lru_reset[id] THEN Cut(Lru(id), n) ELSE Lru(id)
<1>1. MaxIdx \in Nat /\ n \in 1 .. MaxIdx
    BY Sizes
<1>2. CASE lru_reset[id]
    <2>1. /\ Lru(id) = [next |-> ResetNext, prev |-> ResetPrev, head |-> 0, tail |-> MaxIdx - 1]
          /\ Fresh(id) /\ l = Cut(Lru(id), n)
        BY <1>2 DEF UseInv, CacheInv, Fresh
    <2>2. l \in LruType /\ Ordered(l, n)
        BY <1>1, <2>1, CutIsOrdered
    <2>3. PICK p \in Orders(n) : InOrder(l, p, n)
        BY <2>2 DEF Ordered
    <2>4. \A k \in 1 .. n : p[k] \in Idx
        <3>1. \A k \in 1 .. n : p[k] \in 0 .. n - 1
            BY <2>3 DEF Orders
        <3> QED BY <3>1, <1>1 DEF Idx
    <2>5. \A k \in 1 .. n : bitmap_items[id][p[k]] # None <=> k > n
        <3>1. \A j \in Idx : bitmap_items[id][j] = None
            BY <2>1 DEF Fresh
        <3> QED BY <3>1, <2>4, <1>1
    <2>6. BitmapsByUse(id) = After(bitmap_items[id], p, n, n)
        <3>1. BitmapsByUse(id) = <<>>
            BY <2>1, FreshByUse
        <3>2. 1 .. n - n = 1 .. 0
            BY <1>1
        <3> HIDE DEF n
        <3>3. After(bitmap_items[id], p, n, n) = [m \in 1 .. 0 |-> bitmap_items[id][p[n + m]]]
            BY <3>2 DEF After
        <3> QED BY <3>1, <3>3
    <2>7. n \in 0 .. n
        BY <1>1
    <2> QED BY <2>2, <2>3, <2>5, <2>6, <2>7
<1>3. CASE ~ lru_reset[id]
    <2>1. PICK p \in Orders(n), d \in 0 .. n : Ranked(id, p, d)
        BY <1>3 DEF UseInv, InUse
    <2>2. BitmapsByUse(id) = After(bitmap_items[id], p, d, n)
        BY <2>1, ByUse
    <2>3. l = Lru(id) /\ l \in LruType
        BY <1>3, LruTyped DEF UseInv, CacheInv, Typed
    <2> QED BY <2>1, <2>2, <2>3 DEF Ranked
<1> QED BY <1>2, <1>3

\* A bitmap that its crc16 list does not find is not cached.
LEMMA NotCached ==
    ASSUME CacheInv, NEW b \in Bitmaps, NEW id \in Ids, FoundAt(id, b) = {}
    PROVE  \A j \in Idx : bitmap_items[id][j] # b
<1> SUFFICES ASSUME NEW j \in Idx, bitmap_items[id][j] = b PROVE FALSE
    OBVIOUS
<1>1. b # None /\ Crc16[b] \in Crcs
    BY CacheAssumption DEF Crcs
<1>2. j \in Holding(bitmap_items[id], Crc16[b])
    BY <1>1 DEF Holding
<1> DEFINE s == crc16[id][Crc16[b]]
<1>3. PICK k \in 1 .. Len(s) : s[k] = j
    BY <1>1, <1>2 DEF CacheInv, CrcOK, Lists
<1>4. s \in Seq(Idx)
    BY <1>1 DEF CacheInv, Typed, TypeOK
<1>5. j \in Range(s)
    BY <1>3, <1>4 DEF Range
<1> QED BY <1>5 DEF FoundAt

LEMMA MissUse ==
    ASSUME UseInv, NEW b \in Bitmaps, AddBitmapMiss(b)
    PROVE  UseInv' /\ BitmapLru!Next
<1> DEFINE id == ClassOf[b]
           n == Entries[id]
           l == IF lru_reset[id] THEN Cut(Lru(id), n) ELSE Lru(id)
           i == l.head
           u == UpdateLru(l, i)
           x == bitmap_items[id]
           y == [x EXCEPT ![i] = b]
<1>1. id \in Ids
    BY CacheAssumption DEF AddBitmapMiss
<1>2. /\ lru_reset' = [lru_reset EXCEPT ![id] = FALSE]
      /\ SetLru(id, u)
      /\ bitmap_items' = [bitmap_items EXCEPT ![id] = y]
      /\ drawn' = [drawn EXCEPT ![id] = b]
      /\ FoundAt(id, b) = {}
    BY DEF AddBitmapMiss
<1>3. CacheInv /\ CacheInv'
    BY MissOK DEF UseInv
<1>4. ClassOf[b] = id
    OBVIOUS
<1> HIDE DEF id
<1>5. MaxIdx \in Nat /\ n \in 1 .. MaxIdx /\ n \in Nat \ {0} /\ 1 \in 1 .. n
    BY <1>1, Sizes
<1>6. /\ l \in LruType
      /\ \E p \in Orders(n), d \in 0 .. n :
            /\ InOrder(l, p, n)
            /\ \A k \in 1 .. n : x[p[k]] # None <=> k > d
            /\ BitmapsByUse(id) = After(x, p, d, n)
    BY <1>1, ShownInOrder
<1> HIDE DEF l, n
<1>7. PICK p \in Orders(n), d \in 0 .. n :
            /\ InOrder(l, p, n)
            /\ \A k \in 1 .. n : x[p[k]] # None <=> k > d
            /\ BitmapsByUse(id) = After(x, p, d, n)
    BY <1>6
<1>8. \A k \in 1 .. n : p[k] \in Idx
    <2>1. \A k \in 1 .. n : p[k] \in 0 .. n - 1
        BY <1>7 DEF Orders
    <2> QED BY <2>1, <1>5 DEF Idx
<1>9. i = p[1] /\ i \in Idx
    BY <1>5, <1>7, <1>8 DEF InOrder
<1> HIDE DEF i
<1> DEFINE q == MovedToEnd(p, 1, n)
           e == IF d = 0 THEN 0 ELSE d - 1
<1>10. u \in LruType /\ q \in Orders(n) /\ InOrder(u, q, n)
    BY <1>5, <1>6, <1>7, <1>9, UpdatedOrder
<1> HIDE DEF u
<1>11. x \in [Idx -> Bitmaps \cup {None}] /\ b # None /\ \A j \in Idx : x[j] # b
    BY <1>1, <1>2, <1>3, NotCached, CacheAssumption DEF CacheInv, Typed, TypeOK
<1>12. /\ \A c \in Ids : Lru(c)' = IF c = id THEN u ELSE Lru(c)
       /\ \A c \in Ids : /\ lru_reset'[c] = IF c = id THEN FALSE ELSE lru_reset[c]
                         /\ bitmap_items'[c] = IF c = id THEN y ELSE bitmap_items[c]
    <2>1. \A c \in Ids : Lru(c)' = IF c = id THEN u ELSE Lru(c)
        BY <1>1, <1>2, <1>3, <1>10, Sets DEF CacheInv, Typed
    <2> QED BY <2>1, <1>2, <1>3 DEF CacheInv, Typed, TypeOK
<1> HIDE DEF x
<1>13. /\ y \in [Idx -> Bitmaps \cup {None}]
       /\ \A j \in Idx : y[j] = IF j = i THEN b ELSE x[j]
    BY <1>9, <1>11
<1> HIDE DEF y
<1>14. Given(x, y, p, b, n)
    <2>1. \A k, m \in 1 .. n : p[k] = p[m] => k = m
        BY <1>7 DEF InOrder
    <2>2. \A k \in 1 .. n : y[p[k]] = IF k = 1 THEN b ELSE x[p[k]]
        BY <2>1, <1>5, <1>8, <1>9, <1>13
    <2> QED BY <2>1, <2>2 DEF Given
<1>15. e \in 0 .. n
    BY <1>5
<1>16. \A k \in 1 .. n : y[q[k]] # None <=> k > e
    <2> SUFFICES ASSUME NEW k \in 1 .. n PROVE y[q[k]] # None <=> k > e
        OBVIOUS
    <2>1. q[k] = IF k < n THEN p[k + 1] ELSE p[1]
        BY DEF MovedToEnd
    <2>2. CASE k < n
        <3>1. k + 1 \in 1 .. n /\ k + 1 # 1 /\ q[k] = p[k + 1]
            BY <2>1, <2>2, <1>5
        <3>2. y[q[k]] = x[p[k + 1]]
            BY <3>1, <1>14 DEF Given
        <3>3. k + 1 > d <=> k > e
            OBVIOUS
        <3> QED BY <3>1, <3>2, <3>3, <1>7
    <2>3. CASE k = n
        <3>1. y[q[k]] = b
            BY <2>1, <2>3, <1>5, <1>14 DEF Given
        <3>2. k > e
            BY <2>3, <1>5
        <3> QED BY <3>1, <3>2, <1>11
    <2> QED BY <2>2, <2>3, <1>5
<1>17. Ranked(id, q, e)'
    <2>1. \A j \in Idx : y[j] # None => j < n
        BY <1>1, <1>3, <1>12 DEF CacheInv, ClientAgrees, n
    <2>2. Lru(id)' = u /\ ~ lru_reset'[id] /\ bitmap_items'[id] = y
        BY <1>1, <1>12
    <2> HIDE DEF q, e
    <2> QED BY <2>1, <2>2, <1>10, <1>16 DEF Ranked, n
<1>18. ASSUME NEW c \in Ids, c # id
       PROVE  InUse(c)' /\ CachedOnce(c)' /\ BitmapsByUse(c)' = BitmapsByUse(c)
    BY <1>12, <1>18, SameByUse DEF UseInv, SameClass
<1>19. InUse(id)' /\ CachedOnce(id)'
    <2>1. InUse(id)'
        <3> HIDE DEF q, e
        <3> QED BY <1>1, <1>10, <1>12, <1>15, <1>17 DEF InUse, n
    <2>2. CachedOnce(id)'
        <3>1. \A j, k \in Idx : x[j] = x[k] /\ x[j] # None => j = k
            BY <1>1 DEF UseInv, CachedOnce, x
        <3>2. \A j, k \in Idx : y[j] = y[k] /\ y[j] # None => j = k
            BY <3>1, <1>11, <1>13
        <3> QED BY <3>2, <1>1, <1>12 DEF CachedOnce
    <2> QED BY <2>1, <2>2
<1>20. UseInv'
    BY <1>3, <1>18, <1>19 DEF UseInv
<1> DEFINE s == BitmapsByUse(id)
           S == Bitmaps \cup {None}
<1>21. Hold(x, p, d, n, S)
    <2>1. \A k \in d + 1 .. n : k \in 1 .. n
        BY <1>5, <1>7
    <2> QED BY <2>1, <1>8, <1>11 DEF Hold
<1>22. b \in S
    OBVIOUS
<1> HIDE DEF q, e, S
<1>23. BitmapsByUse(id)' = After(y, q, e, n)
    <2>1. BitmapsByUse(id)' = After(bitmap_items'[id], q, e, n)
        BY <1>1, <1>10, <1>15, <1>17, ByUseNext DEF n
    <2> QED BY <2>1, <1>1, <1>12
<1>24. After(y, q, e, n) = Append(IF Len(After(x, p, d, n)) = n THEN Tail(After(x, p, d, n))
                                  ELSE After(x, p, d, n), b)
    BY ONLY <1>5, p \in Orders(n), d \in 0 .. n, <1>14, <1>21, <1>22, GivenShown DEF q, e
<1>25. BitmapsByUse(id)' = Append(IF Len(BitmapsByUse(id)) = Entries[id]
                                  THEN Tail(BitmapsByUse(id)) ELSE BitmapsByUse(id), b)
    BY <1>7, <1>23, <1>24 DEF n
<1>26. ASSUME NEW k \in 1 .. Len(BitmapsByUse(id)) PROVE BitmapsByUse(id)[k] # b
    <2>1. After(x, p, d, n) = [m \in 1 .. n - d |-> x[p[d + m]]] /\ n - d \in Nat
        BY <1>5, <1>7 DEF After
    <2>2. k \in 1 .. n - d /\ BitmapsByUse(id)[k] = x[p[d + k]]
        BY <2>1, <1>7
    <2>3. d + k \in 1 .. n
        BY <2>2, <1>5, <1>7
    <2> QED BY <2>2, <2>3, <1>8, <1>11
<1>27. BitmapLru!Next
    BY <1>1, <1>2, <1>4, <1>18, <1>25, <1>26, StepAnew
<1> QED BY <1>20, <1>27

\* Before the first bitmap, at the start and after a reset.
LEMMA EmptyUse == Init => UseInv /\ BitmapLru!Empty
<1> SUFFICES ASSUME Init PROVE UseInv /\ BitmapLru!Empty
    OBVIOUS
<1>1. CacheInv
    BY InitOK
<1>2. ASSUME NEW id \in Ids PROVE InUse(id) /\ CachedOnce(id) /\ BitmapsByUse(id) = <<>>
    <2>1. lru_reset[id] /\ bitmap_items[id] = [i \in Idx |-> None]
        BY DEF Init, NoBitmaps
    <2>2. Fresh(id)
        BY <1>1, <2>1 DEF CacheInv
    <2> QED BY <2>1, <2>2, FreshByUse DEF InUse, CachedOnce
<1>3. UseInv
    BY <1>1, <1>2 DEF UseInv
<1>4. BitmapLru!Empty
    BY <1>2 DEF Init, BitmapLru!Empty
<1> QED BY <1>3, <1>4

LEMMA ResetUse == Reset => UseInv' /\ BitmapLru!Next
<1>1. Init => UseInv /\ BitmapLru!Empty
    BY EmptyUse
<1>2. Reset => Init'
    BY DEF Reset, Init
<1>3. Reset => UseInv' /\ BitmapLru!Empty'
    BY <1>1, <1>2, PTL
<1> QED BY <1>3 DEF BitmapLru!Next, BitmapLru!Clear

\* A step that leaves the bitmaps alone does not show in their order of use.
LEMMA OtherUse ==
    ASSUME UseInv, CacheInv', UNCHANGED bitmapVars
    PROVE  UseInv' /\ UNCHANGED <<[id \in Ids |-> BitmapsByUse(id)], drawn>>
<1>1. UNCHANGED <<bitmap_items, lru_next, lru_prev, lru_head, lru_tail, lru_reset, drawn>>
    BY DEF bitmapVars, lruVars
<1>2. ASSUME NEW id \in Ids
      PROVE  InUse(id)' /\ CachedOnce(id)' /\ BitmapsByUse(id)' = BitmapsByUse(id)
    BY <1>1, SameByUse DEF UseInv, SameClass, Lru
<1> QED BY <1>1, <1>2 DEF UseInv

\* The linked list, the crc16 lists and the client's copy of each class together
\* are a cache that draws the bitmap xrdp_cache_add_bitmap was asked for and
\* gives up the one used longest ago, never another.
THEOREM BitmapsAreLruHolds == Spec => BitmapsAreLru
<1>1. Init => UseInv /\ BitmapLru!Init
    BY EmptyUse DEF BitmapLru!Init
<1>2. UseInv /\ [Next]_vars
      => UseInv' /\ [BitmapLru!Next]_<<[id \in Ids |-> BitmapsByUse(id)], drawn>>
    <2> SUFFICES ASSUME UseInv, [Next]_vars
                 PROVE  UseInv' /\ [BitmapLru!Next]_<<[id \in Ids |-> BitmapsByUse(id)], drawn>>
        OBVIOUS
    <2>1. CASE UNCHANGED vars
        <3>1. CacheInv'
            BY <2>1, UnchangedOK DEF UseInv
        <3> QED BY <2>1, <3>1, OtherUse DEF vars
    <2>2. ASSUME NEW b \in Bitmaps, AddBitmapHit(b) PROVE UseInv' /\ BitmapLru!Next
        BY <2>2, HitUse
    <2>3. ASSUME NEW b \in Bitmaps, AddBitmapMiss(b) PROVE UseInv' /\ BitmapLru!Next
        BY <2>3, MissUse
    <2>4. ASSUME NEW b \in Bitmaps, AddBitmapTooBig(b) PROVE UNCHANGED vars
        BY <2>4 DEF AddBitmapTooBig
    <2>5. ASSUME NEW k \in Stamped, NEW x \in StampedItems, AddStamped(k, x)
          PROVE  UseInv' /\ UNCHANGED <<[id \in Ids |-> BitmapsByUse(id)], drawn>>
        <3>1. CacheInv'
            BY <2>5, StampedOK DEF UseInv
        <3>2. UNCHANGED bitmapVars
            BY <2>5 DEF AddStamped
        <3> QED BY <3>1, <3>2, OtherUse
    <2>6. CASE Reset
        BY <2>6, ResetUse
    <2> QED BY <2>1, <2>2, <2>3, <2>4, <2>5, <2>6 DEF Next
<1> QED BY <1>1, <1>2, PTL DEF Spec, BitmapsAreLru, BitmapLru!Spec

-----------------------------------------------------------------------------
(* The stamps *)

\* w goes through the entries U by growing stamps g.
Grows(w, c, g) == \A m, n \in 1 .. c : m < n => g[w[m]] < g[w[n]]

Ascends(w, c, U, g) ==
    /\ w \in [1 .. c -> U]
    /\ \A u \in U : \E n \in 1 .. c : w[n] = u
    /\ Grows(w, c, g)

\* There is one way to do so.
LEMMA AscendsOnce ==
    ASSUME NEW c \in Nat, NEW U, NEW g, \A u \in U : g[u] \in Nat, NEW w, Ascends(w, c, U, g)
    PROVE  /\ Cardinality(U) = c
           /\ w \in [1 .. c -> U] /\ Grows(w, c, g)
           /\ \A v \in [1 .. c -> U] : Grows(v, c, g) => v = w
<1>1. ASSUME NEW v \in [1 .. c -> U], Grows(v, c, g)
      PROVE  \A m, n \in 1 .. c : v[m] = v[n] => m = n
    <2> SUFFICES ASSUME NEW m \in 1 .. c, NEW n \in 1 .. c, v[m] = v[n], m # n PROVE FALSE
        OBVIOUS
    <2>1. v[m] \in U /\ g[v[m]] \in Nat /\ ~ g[v[m]] < g[v[m]]
        OBVIOUS
    <2>2. m < n \/ n < m
        OBVIOUS
    <2> QED BY <1>1, <2>1, <2>2 DEF Grows
<1>2. IsFiniteSet(1 .. c) /\ Cardinality(1 .. c) = c
    BY FS_Interval
<1>3. IsFiniteSet(U) /\ Cardinality(U) = c
    <2>1. w \in Bijection(1 .. c, U)
        BY <1>1 DEF Ascends, Grows, Bijection, Injection, Surjection, IsInjective
    <2> QED BY <2>1, <1>2, FS_Bijection DEF ExistsBijection
<1>4. ASSUME NEW v \in [1 .. c -> U], Grows(v, c, g)
      PROVE  v = w
    <2>1. v \in Injection(1 .. c, U)
        BY <1>1, <1>4 DEF Injection, IsInjective
    <2>2. v \in Surjection(1 .. c, U)
        BY <2>1, <1>2, <1>3, FS_Injection
    <2>3. \A u \in U : \E n \in 1 .. c : v[n] = u
        BY <2>2 DEF Surjection
    <2> DEFINE bad == {m \in 1 .. c : v[m] # w[m]}
    <2>4. bad = {}
        <3> SUFFICES ASSUME bad # {} PROVE FALSE
            OBVIOUS
        <3>1. bad \in SUBSET Nat
            OBVIOUS
        <3>2. PICK m \in bad : \A j \in bad : m <= j
            BY <3>1, LeastElement
        <3>3. m \in 1 .. c /\ v[m] # w[m] /\ \A j \in 1 .. c : j < m => v[j] = w[j]
            BY <3>2
        <3> HIDE DEF bad
        <3>4. v[m] \in U /\ w[m] \in U /\ g[v[m]] \in Nat /\ g[w[m]] \in Nat
            BY <3>3 DEF Ascends, Grows
        <3>5. PICK j \in 1 .. c : v[j] = w[m]
            BY <2>3, <3>4
        <3>6. PICK k \in 1 .. c : w[k] = v[m]
            BY <3>4 DEF Ascends, Grows
        <3>7. j > m
            <4>1. j # m
                BY <3>3, <3>5
            <4>2. ~ j < m
                <5> SUFFICES ASSUME j < m PROVE FALSE
                    OBVIOUS
                <5>1. w[j] = w[m] /\ g[w[j]] < g[w[m]]
                    BY <3>3, <3>5 DEF Ascends, Grows
                <5> QED BY <5>1, <3>4
            <4> QED BY <4>1, <4>2, <3>3
        <3>8. k > m
            <4>1. k # m
                BY <3>3, <3>6
            <4>2. ~ k < m
                <5> SUFFICES ASSUME k < m PROVE FALSE
                    OBVIOUS
                <5>1. v[k] = v[m] /\ g[v[k]] < g[v[m]]
                    BY <3>3, <3>6, <1>4 DEF Grows
                <5> QED BY <5>1, <3>4
            <4> QED BY <4>1, <4>2, <3>3
        <3>9. g[v[m]] < g[w[m]] /\ g[w[m]] < g[v[m]]
            BY <3>3, <3>5, <3>6, <3>7, <3>8, <1>4 DEF Ascends, Grows
        <3> QED BY <3>4, <3>9
    <2>5. \A m \in 1 .. c : v[m] = w[m]
        BY <2>4
    <2> QED BY <2>5 DEF Ascends, Grows
<1> QED BY <1>3, <1>4 DEF Ascends

\* A new stamp for the entry at place k0.
LEMMA AscendsMoved ==
    ASSUME NEW c \in Nat, NEW U, NEW g, \A u \in U : g[u] \in Nat, NEW w, Ascends(w, c, U, g),
           NEW k0 \in 1 .. c, NEW h, \A u \in U : u # w[k0] => h[u] = g[u],
           \A u \in U : g[u] < h[w[k0]]
    PROVE  Ascends(MovedToEnd(w, k0, c), c, U, h)
<1> DEFINE q == MovedToEnd(w, k0, c)
<1>1. \A k \in 1 .. c : q[k] = IF k < k0 THEN w[k] ELSE IF k < c THEN w[k + 1] ELSE w[k0]
    BY DEF MovedToEnd
<1>2. \A k \in 1 .. c : w[k] \in U
    BY DEF Ascends, Grows
<1>3. q \in [1 .. c -> U]
    <2>1. \A k \in 1 .. c : k < c => k + 1 \in 1 .. c
        OBVIOUS
    <2>2. \A k \in 1 .. c : q[k] \in U
        BY <1>1, <1>2, <2>1
    <2>3. q = [k \in 1 .. c |-> q[k]]
        BY DEF MovedToEnd
    <2> HIDE DEF q
    <2> QED BY <2>2, <2>3
<1> HIDE DEF q
<1>4. ASSUME NEW u \in U PROVE \E n \in 1 .. c : q[n] = u
    <2>1. PICK m \in 1 .. c : w[m] = u
        BY DEF Ascends, Grows
    <2>2. CASE m < k0
        BY <2>1, <2>2, <1>1
    <2>3. CASE m = k0
        <3>1. c \in 1 .. c /\ q[c] = w[k0]
            BY <1>1
        <3> QED BY <2>1, <2>3, <3>1
    <2>4. CASE m > k0
        <3>1. m - 1 \in 1 .. c /\ ~ m - 1 < k0 /\ m - 1 < c /\ (m - 1) + 1 = m
            BY <2>4
        <3>2. q[m - 1] = w[m]
            BY <3>1, <1>1
        <3> QED BY <2>1, <3>1, <3>2
    <2> QED BY <2>2, <2>3, <2>4
<1>5. \A k \in 1 .. c : k # k0 => w[k] # w[k0]
    <2> SUFFICES ASSUME NEW k \in 1 .. c, k # k0, w[k] = w[k0] PROVE FALSE
        OBVIOUS
    <2>1. k < k0 \/ k0 < k
        OBVIOUS
    <2>2. g[w[k0]] < g[w[k0]]
        BY <2>1 DEF Ascends, Grows
    <2>3. g[w[k0]] \in Nat
        BY <1>2
    <2> QED BY <2>2, <2>3
<1>6. ASSUME NEW m \in 1 .. c, NEW n \in 1 .. c, m < n PROVE h[q[m]] < h[q[n]]
    <2> DEFINE a == IF m < k0 THEN m ELSE m + 1
    <2>1. a \in 1 .. c /\ a # k0 /\ q[m] = w[a] /\ h[q[m]] = g[w[a]]
        <3>1. a \in 1 .. c /\ a # k0 /\ q[m] = w[a]
            BY <1>6, <1>1
        <3> HIDE DEF a
        <3> QED BY <3>1, <1>2, <1>5
    <2>2. CASE n = c
        <3>1. q[n] = w[k0]
            BY <2>2, <1>1
        <3> HIDE DEF a
        <3> QED BY <2>1, <3>1, <1>2
    <2>3. CASE n < c
        <3> DEFINE b == IF n < k0 THEN n ELSE n + 1
        <3>1. b \in 1 .. c /\ b # k0 /\ q[n] = w[b] /\ a < b
            BY <2>3, <1>6, <1>1
        <3> HIDE DEF a, b
        <3>2. h[q[n]] = g[w[b]]
            BY <3>1, <1>2, <1>5
        <3>3. g[w[a]] < g[w[b]]
            BY <2>1, <3>1 DEF Ascends, Grows
        <3> QED BY <2>1, <3>2, <3>3
    <2> QED BY <2>2, <2>3
<1> QED BY <1>3, <1>4, <1>6 DEF Ascends, Grows, q

\* A first stamp for one more entry.
OneMore(w, c, i) == [n \in 1 .. c + 1 |-> IF n <= c THEN w[n] ELSE i]

LEMMA AscendsMore ==
    ASSUME NEW c \in Nat, NEW U, NEW g, NEW w, Ascends(w, c, U, g), NEW i, i \notin U,
           NEW h, \A u \in U : h[u] = g[u] /\ g[u] < h[i]
    PROVE  Ascends(OneMore(w, c, i), c + 1, U \cup {i}, h)
<1> DEFINE q == OneMore(w, c, i)
<1>1. \A k \in 1 .. c + 1 : q[k] = IF k <= c THEN w[k] ELSE i
    BY DEF OneMore
<1>2. \A k \in 1 .. c : w[k] \in U
    BY DEF Ascends, Grows
<1>3. \A k \in 1 .. c : k \in 1 .. c + 1 /\ q[k] = w[k]
    BY <1>1
<1>4. c + 1 \in 1 .. c + 1 /\ q[c + 1] = i /\ \A k \in 1 .. c + 1 : k \in 1 .. c \/ k = c + 1
    BY <1>1
<1>5. q \in [1 .. c + 1 -> U \cup {i}]
    <2>1. q = [k \in 1 .. c + 1 |-> q[k]]
        BY DEF OneMore
    <2> HIDE DEF q
    <2>2. \A k \in 1 .. c + 1 : q[k] \in U \cup {i}
        BY <1>2, <1>3, <1>4
    <2> QED BY <2>1, <2>2
<1> HIDE DEF q
<1>6. \A u \in U \cup {i} : \E n \in 1 .. c + 1 : q[n] = u
    BY <1>3, <1>4 DEF Ascends, Grows
<1>7. ASSUME NEW m \in 1 .. c + 1, NEW n \in 1 .. c + 1, m < n PROVE h[q[m]] < h[q[n]]
    <2>1. m \in 1 .. c /\ q[m] = w[m] /\ h[q[m]] = g[w[m]]
        <3>1. m \in 1 .. c
            BY <1>7
        <3> QED BY <3>1, <1>2, <1>3
    <2>2. CASE n \in 1 .. c
        BY <2>1, <2>2, <1>2, <1>3, <1>7 DEF Ascends, Grows
    <2>3. CASE n = c + 1
        BY <2>1, <2>3, <1>2, <1>4
    <2> QED BY <2>2, <2>3, <1>4
<1> QED BY <1>5, <1>6, <1>7 DEF Ascends, Grows, q

\* Each call gives the entry it uses a stamp higher than any other.
StampUse(k) ==
    /\ stamp[k] \in Nat /\ stamps[k] \in [0 .. HighIdx[k] -> Nat]
    /\ \A i \in Searched(k) :
          /\ stamps[k][i] <= stamp[k]
          /\ stamps[k][i] = 0 => items[k][i] \notin StampedItems
    /\ \E c \in Nat : \E w \in [1 .. c -> UsedEntries(k)] :
          Ascends(w, c, UsedEntries(k), stamps[k])

StampInv ==
    /\ CacheInv /\ DOMAIN stamps = Stamped /\ DOMAIN stamp = Stamped
    /\ \A k \in Stamped : StampUse(k)

LEMMA Used ==
    ASSUME NEW k \in Stamped, StampUse(k)
    PROVE  /\ LowIdx[k] \in Nat /\ HighIdx[k] \in Nat /\ LowIdx[k] <= HighIdx[k]
           /\ Searched(k) \in SUBSET (0 .. HighIdx[k]) /\ Searched(k) \in SUBSET Nat
           /\ \A i \in Searched(k) : stamps[k][i] \in Nat
           /\ \A i \in UsedEntries(k) : i \in Searched(k) /\ stamps[k][i] \in Nat /\ stamps[k][i] > 0
           /\ \A i \in Searched(k) : i \notin UsedEntries(k) => stamps[k][i] = 0
<1>1. LowIdx[k] \in Nat /\ HighIdx[k] \in Nat /\ LowIdx[k] <= HighIdx[k]
    BY CacheAssumption
<1>2. Searched(k) \in SUBSET (0 .. HighIdx[k]) /\ Searched(k) \in SUBSET Nat
    BY <1>1 DEF Searched
<1>3. \A i \in Searched(k) : stamps[k][i] \in Nat
    BY <1>2 DEF StampUse
<1> QED BY <1>1, <1>2, <1>3 DEF UsedEntries

\* The order of use that the stamps give is what the cache shows.
LEMMA ByStampShown ==
    \A k \in Stamped : \A c \in Nat : \A w \in [1 .. c -> UsedEntries(k)] :
        StampUse(k) /\ Ascends(w, c, UsedEntries(k), stamps[k])
            => ItemsByUse(k) = After(items[k], w, 0, c)
<1> SUFFICES ASSUME NEW k \in Stamped, NEW c \in Nat, NEW w \in [1 .. c -> UsedEntries(k)],
                    StampUse(k), Ascends(w, c, UsedEntries(k), stamps[k])
             PROVE  ItemsByUse(k) = After(items[k], w, 0, c)
    OBVIOUS
<1> DEFINE U == UsedEntries(k)
           g == stamps[k]
<1>1. \A u \in U : g[u] \in Nat
    BY Used
<1>2. Ascends(w, c, U, g)
    OBVIOUS
<1> HIDE DEF U, g
<1>3. /\ Cardinality(U) = c
      /\ w \in [1 .. c -> U] /\ Grows(w, c, g)
      /\ \A v \in [1 .. c -> U] : Grows(v, c, g) => v = w
    BY <1>1, <1>2, AscendsOnce
<1>4. ByStamp(k) = CHOOSE v \in [1 .. c -> U] : Grows(v, c, g)
    <2>1. \A v \in [1 .. c -> U] : DOMAIN v = 1 .. c
        OBVIOUS
    <2> QED BY <1>3, <2>1 DEF ByStamp, Grows, U, g
<1>5. ByStamp(k) = w
    BY <1>3, <1>4
<1>6. \A m \in 1 .. c : 0 + m = m
    OBVIOUS
<1>7. DOMAIN w = 1 .. c /\ c - 0 = c
    OBVIOUS
<1> QED BY <1>5, <1>6, <1>7 DEF ItemsByUse, After

LEMMA ByStampShownNext ==
    (\A k \in Stamped : \A c \in Nat : \A w \in [1 .. c -> UsedEntries(k)] :
        StampUse(k) /\ Ascends(w, c, UsedEntries(k), stamps[k])
            => ItemsByUse(k) = After(items[k], w, 0, c))'
    BY ByStampShown, PTL

\* The search of a full cache ends at the entry used longest ago, of one that
\* is not full at an entry that was never used.
LEMMA OldestIsFirst ==
    ASSUME NEW k \in Stamped, StampUse(k), NEW c \in Nat, NEW w \in [1 .. c -> UsedEntries(k)],
           Ascends(w, c, UsedEntries(k), stamps[k])
    PROVE  /\ Oldest(k) \in Searched(k)
           /\ Oldest(k) \in UsedEntries(k) =>
                 c \in Nat \ {0} /\ Oldest(k) = w[1] /\ c = HighIdx[k] - LowIdx[k] + 1
           /\ Oldest(k) \notin UsedEntries(k) => c # HighIdx[k] - LowIdx[k] + 1
<1> DEFINE U == UsedEntries(k)
           g == stamps[k]
           T == {g[i] : i \in Searched(k)}
           M == {i \in Searched(k) : \A j \in Searched(k) : g[i] <= g[j]}
           o == Oldest(k)
<1>1. /\ LowIdx[k] \in Nat /\ HighIdx[k] \in Nat /\ LowIdx[k] <= HighIdx[k]
      /\ Searched(k) \in SUBSET Nat
      /\ \A i \in Searched(k) : g[i] \in Nat
      /\ \A i \in U : i \in Searched(k) /\ g[i] \in Nat /\ g[i] > 0
      /\ \A i \in Searched(k) : i \notin U => g[i] = 0
    BY Used
<1>2. o \in M
    <2>1. HighIdx[k] \in Searched(k)
        BY <1>1 DEF Searched
    <2>2. T \in SUBSET Nat /\ T # {}
        BY <1>1, <2>1
    <2>3. PICK t \in T : \A y \in T : t <= y
        BY <2>2, LeastElement
    <2>4. PICK i \in Searched(k) : g[i] = t
        BY <2>3
    <2>5. i \in M
        BY <2>3, <2>4
    <2>6. M \in SUBSET Nat /\ M # {}
        BY <2>5, <1>1
    <2>7. o = Min(M)
        BY DEF Oldest
    <2> QED BY <2>6, <2>7, MinIsLeast
<1>3. o \in Searched(k) /\ \A j \in Searched(k) : g[o] <= g[j]
    BY <1>2
<1>4. IsFiniteSet(Searched(k)) /\ Cardinality(Searched(k)) = HighIdx[k] - LowIdx[k] + 1
    <2> DEFINE a == LowIdx[k]
               b == HighIdx[k]
    <2>1. a \in Int /\ b \in Int /\ ~ a > b
        BY <1>1
    <2>2. Searched(k) = a .. b
        BY DEF Searched
    <2> HIDE DEF a, b
    <2>3. IsFiniteSet(a .. b) /\ Cardinality(a .. b) = b - a + 1
        BY <2>1, FS_Interval
    <2> QED BY <2>2, <2>3 DEF a, b
<1>5. Ascends(w, c, U, g)
    OBVIOUS
<1> HIDE DEF U, g, o, M, T
<1>6. Cardinality(U) = c
    BY <1>1, <1>5, AscendsOnce
<1>7. ASSUME o \in U
      PROVE  c \in Nat \ {0} /\ o = w[1] /\ c = HighIdx[k] - LowIdx[k] + 1
    <2>1. PICK j \in 1 .. c : w[j] = o
        BY <1>5, <1>7 DEF Ascends
    <2>2. c \in Nat \ {0} /\ 1 \in 1 .. c /\ w[1] \in U
        BY <2>1, <1>5 DEF Ascends
    <2>3. j = 1
        <3> SUFFICES ASSUME j # 1 PROVE FALSE
            OBVIOUS
        <3>1. 1 < j
            BY <2>1
        <3>2. g[w[1]] < g[o]
            BY <2>1, <2>2, <3>1, <1>5 DEF Ascends, Grows
        <3>3. g[o] <= g[w[1]] /\ g[o] \in Nat /\ g[w[1]] \in Nat
            BY <2>2, <1>1, <1>3
        <3> QED BY <3>2, <3>3
    <2>4. U = Searched(k)
        <3>1. ASSUME NEW i \in Searched(k) PROVE i \in U
            <4>1. g[o] <= g[i] /\ g[o] > 0 /\ g[o] \in Nat /\ g[i] \in Nat
                BY <1>1, <1>3, <1>7
            <4>2. g[i] # 0
                BY <4>1
            <4> QED BY <4>2, <1>1
        <3> QED BY <3>1, <1>1
    <2> QED BY <2>1, <2>2, <2>3, <2>4, <1>4, <1>6
<1>8. ASSUME o \notin U PROVE c # HighIdx[k] - LowIdx[k] + 1
    <2>1. U \in SUBSET Searched(k) /\ U # Searched(k)
        BY <1>1, <1>3, <1>8
    <2>2. Cardinality(U) # Cardinality(Searched(k))
        BY <2>1, <1>4, FS_Subset
    <2> QED BY <2>2, <1>4, <1>6
<1> QED BY <1>3, <1>7, <1>8 DEF o, U

\* One more place: what it shows.
Widens(x, y, w, c, more, i, b) ==
    /\ c \in Nat /\ more = c + 1 /\ y[i] = b
    /\ \A m \in 1 .. c : y[w[m]] = x[w[m]]

Longer(s, b) == Append(s, b)

LEMMA MoreShown ==
    ASSUME NEW c, NEW w, NEW S, NEW x, NEW y, NEW i, NEW b \in S,
           NEW more, Hold(x, w, 0, c, S), Widens(x, y, w, c, more, i, b)
    PROVE  After(y, OneMore(w, c, i), 0, more) = Longer(After(x, w, 0, c), b)
<1> DEFINE s == After(x, w, 0, c)
           q == OneMore(w, c, i)
           t == After(y, q, 0, c + 1)
           r == Append(s, b)
<1>0. c \in Nat
    BY DEF Widens
<1>1. s = [m \in 1 .. c |-> x[w[m]]] /\ t = [m \in 1 .. c + 1 |-> y[q[m]]]
    <2>1. c - 0 = c /\ (c + 1) - 0 = c + 1 /\ \A m \in 1 .. c + 1 : 0 + m = m
        BY <1>0
    <2>2. \A m \in 1 .. c : 0 + m = m
        OBVIOUS
    <2> QED BY <2>1, <2>2 DEF After
<1>2. \A m \in 1 .. c : x[w[m]] \in S
    BY <1>0 DEF Hold
<1>3. \A m \in 1 .. c + 1 : q[m] = IF m <= c THEN w[m] ELSE i
    BY DEF OneMore
<1> HIDE DEF s, q, t
<1>4. s \in Seq(S) /\ Len(s) = c /\ \A m \in 1 .. c : s[m] = x[w[m]]
    BY <1>0, <1>1, <1>2
<1>6. r \in Seq(S) /\ Len(r) = c + 1 /\ \A m \in 1 .. c + 1 : r[m] = IF m <= c THEN s[m] ELSE b
    BY <1>0, <1>4
<1> HIDE DEF r
<1>7. r = [m \in 1 .. c + 1 |-> r[m]]
    BY <1>6
<1>8. ASSUME NEW m \in 1 .. c + 1 PROVE y[q[m]] = r[m]
    <2>1. CASE m <= c
        <3>1. m \in 1 .. c
            BY <1>0, <2>1
        <3> QED BY <2>1, <3>1, <1>3, <1>4, <1>6 DEF Widens
    <2>2. CASE ~ m <= c
        BY <1>0, <2>2, <1>3, <1>6 DEF Widens
    <2> QED BY <2>1, <2>2
<1>9. t = r
    BY <1>1, <1>7, <1>8
<1> QED BY <1>9 DEF s, q, t, r, Widens, Longer

\* A step that uses x again, or puts it in anew, in the terms of LruCache.
LEMMA StampAgain ==
    ASSUME NEW k \in Stamped, NEW x \in StampedItems,
           client_drawn' = [client_drawn EXCEPT ![k] = x],
           NEW m \in 1 .. Len(ItemsByUse(k)), ItemsByUse(k)[m] = x,
           ItemsByUse(k)' = Append(BitmapLru!RemoveAt(ItemsByUse(k), m), x),
           \A e \in Stamped : e # k => ItemsByUse(e)' = ItemsByUse(e)
    PROVE  StampLru!Next
<1> DEFINE view == [e \in Stamped |-> ItemsByUse(e)]
           new == Append(StampLru!RemoveAt(ItemsByUse(k), m), x)
<1>1. view' = [view EXCEPT ![k] = new]
    <2>1. ItemsByUse(k)' = new
        BY DEF BitmapLru!RemoveAt, StampLru!RemoveAt
    <2> HIDE DEF new
    <2> QED BY <2>1
<1>2. view[k] = ItemsByUse(k)
    OBVIOUS
<1> HIDE DEF view, new
<1>3. view' = [view EXCEPT ![k] = Append(StampLru!RemoveAt(@, m), x)]
    BY <1>1, <1>2 DEF new
<1>4. StampLru!Again(k, x)
    BY <1>2, <1>3 DEF StampLru!Again, view
<1>5. x \in [e \in Stamped |-> StampedItems][k]
    OBVIOUS
<1> QED BY <1>4, <1>5 DEF StampLru!Next, StampLru!Use

LEMMA StampAnew ==
    ASSUME NEW k \in Stamped, NEW x \in StampedItems,
           client_drawn' = [client_drawn EXCEPT ![k] = x],
           \A m \in 1 .. Len(ItemsByUse(k)) : ItemsByUse(k)[m] # x,
           ItemsByUse(k)' = Append(IF Len(ItemsByUse(k)) = HighIdx[k] - LowIdx[k] + 1
                                   THEN Tail(ItemsByUse(k)) ELSE ItemsByUse(k), x),
           \A e \in Stamped : e # k => ItemsByUse(e)' = ItemsByUse(e)
    PROVE  StampLru!Next
<1> DEFINE view == [e \in Stamped |-> ItemsByUse(e)]
           size == [e \in Stamped |-> HighIdx[e] - LowIdx[e] + 1]
           new == Append(IF Len(ItemsByUse(k)) = size[k]
                         THEN Tail(ItemsByUse(k)) ELSE ItemsByUse(k), x)
<1>1. size[k] = HighIdx[k] - LowIdx[k] + 1
    OBVIOUS
<1> HIDE DEF size
<1>2. view' = [view EXCEPT ![k] = new]
    <2>1. ItemsByUse(k)' = new
        BY <1>1
    <2> HIDE DEF new
    <2> QED BY <2>1
<1>3. view[k] = ItemsByUse(k)
    OBVIOUS
<1> HIDE DEF view, new
<1>4. view' = [view EXCEPT ![k] = Append(IF Len(@) = size[k] THEN Tail(@) ELSE @, x)]
    BY <1>2, <1>3 DEF new
<1>5. StampLru!Anew(k, x)
    BY <1>3, <1>4 DEF StampLru!Anew, view, size
<1>6. x \in [e \in Stamped |-> StampedItems][k]
    OBVIOUS
<1> QED BY <1>5, <1>6 DEF StampLru!Next, StampLru!Use

LEMMA SameStamps ==
    ASSUME NEW e \in Stamped, StampUse(e), stamp'[e] = stamp[e], stamps'[e] = stamps[e],
           items'[e] = items[e]
    PROVE  StampUse(e)' /\ ItemsByUse(e)' = ItemsByUse(e)
<1>1. UsedEntries(e)' = UsedEntries(e)
    BY DEF UsedEntries, Searched
<1>2. ByStamp(e)' = ByStamp(e)
    BY <1>1 DEF ByStamp
<1>3. ItemsByUse(e)' = ItemsByUse(e)
    BY <1>2 DEF ItemsByUse
<1>4. StampUse(e)'
    BY <1>1 DEF StampUse, Searched
<1> QED BY <1>3, <1>4

LEMMA StampedUse ==
    ASSUME Blank \notin StampedItems, StampInv, NEW k \in Stamped, NEW x \in StampedItems,
           AddStamped(k, x)
    PROVE  StampInv' /\ StampLru!Next
<1> DEFINE U == UsedEntries(k)
           g == stamps[k]
           v == items[k]
           found == Match(k, x)
           i == IF found # {} THEN Min(found) ELSE Oldest(k)
           t == stamp[k] + 1
           h == [g EXCEPT ![i] = t]
           y == [v EXCEPT ![i] = x]
           s == ItemsByUse(k)
<1>1. /\ stamp' = [stamp EXCEPT ![k] = t] /\ stamps' = [stamps EXCEPT ![k] = h]
      /\ items' = [items EXCEPT ![k] = y]
      /\ client_drawn' = [client_drawn EXCEPT ![k] = client_items'[k][i]]
    BY DEF AddStamped
<1>2. CacheInv /\ CacheInv' /\ StampUse(k)
    BY StampedOK DEF StampInv
<1>3. /\ LowIdx[k] \in Nat /\ HighIdx[k] \in Nat /\ LowIdx[k] <= HighIdx[k]
      /\ Searched(k) \in SUBSET (0 .. HighIdx[k]) /\ Searched(k) \in SUBSET Nat
      /\ \A j \in Searched(k) : g[j] \in Nat
      /\ \A j \in U : j \in Searched(k) /\ g[j] \in Nat /\ g[j] > 0
      /\ \A j \in Searched(k) : j \notin U => g[j] = 0
    BY <1>2, Used
<1>4. PICK c \in Nat : \E w \in [1 .. c -> U] : Ascends(w, c, U, g)
    BY <1>2 DEF StampUse
<1>5. PICK w \in [1 .. c -> U] : Ascends(w, c, U, g)
    BY <1>4
<1>6. s = After(v, w, 0, c)
    BY <1>2, <1>5, ByStampShown
<1>7. /\ Oldest(k) \in Searched(k)
      /\ Oldest(k) \in U => c \in Nat \ {0} /\ Oldest(k) = w[1] /\ c = HighIdx[k] - LowIdx[k] + 1
      /\ Oldest(k) \notin U => c # HighIdx[k] - LowIdx[k] + 1
    BY <1>2, <1>5, OldestIsFirst
<1>8. found # {} => i \in Searched(k) /\ v[i] = x /\ i \in U
    <2> SUFFICES ASSUME found # {} PROVE i \in Searched(k) /\ v[i] = x /\ i \in U
        OBVIOUS
    <2>1. found \in SUBSET Nat
        BY <1>3 DEF Match
    <2>2. i \in found
        BY <2>1, MinIsLeast
    <2>3. i \in Searched(k) /\ v[i] = x
        BY <2>2 DEF Match
    <2>4. g[i] # 0
        BY <2>3, <1>2 DEF StampUse
    <2> HIDE DEF i
    <2> QED BY <2>3, <2>4, <1>3
<1>9. found = {} => i = Oldest(k)
    OBVIOUS
<1>10. found = {} => \A j \in Searched(k) : v[j] # x
    BY DEF Match
<1> HIDE DEF found, i
<1>11. i \in Searched(k) /\ i \in 0 .. HighIdx[k]
    BY <1>3, <1>7, <1>8, <1>9
<1>12. v \in [0 .. HighIdx[k] -> Held] /\ x \in Held /\ g \in [0 .. HighIdx[k] -> Nat]
    BY <1>2 DEF CacheInv, StampTyped, StampUse, Held
<1>13. /\ y \in [0 .. HighIdx[k] -> Held]
       /\ \A j \in 0 .. HighIdx[k] : y[j] = IF j = i THEN x ELSE v[j]
    BY <1>11, <1>12
<1>14. t \in Nat /\ t > 0 /\ \A j \in Searched(k) : g[j] < t
    BY <1>2, <1>3 DEF StampUse
<1>15. /\ h \in [0 .. HighIdx[k] -> Nat]
       /\ \A j \in 0 .. HighIdx[k] : h[j] = IF j = i THEN t ELSE g[j]
    <2> HIDE DEF t
    <2> QED BY <1>11, <1>12, <1>14
<1>16. stamp'[k] = t /\ stamps'[k] = h /\ items'[k] = y
    BY <1>1, <1>2 DEF StampInv, CacheInv, StampTyped
<1> HIDE DEF v, y, h, t, g
<1>17. UsedEntries(k)' = U \cup {i}
    <2>1. UsedEntries(k)' = {j \in Searched(k) : h[j] > 0}
        BY <1>16 DEF UsedEntries, Searched
    <2>2. U = {j \in Searched(k) : g[j] > 0}
        BY DEF UsedEntries, g
    <2>3. \A j \in Searched(k) : h[j] = IF j = i THEN t ELSE g[j]
        BY <1>3, <1>15
    <2> HIDE DEF U
    <2> QED BY <2>1, <2>2, <2>3, <1>11, <1>14
<1> HIDE DEF U
<1>18. ASSUME NEW c1 \in Nat, NEW w1, Ascends(w1, c1, U \cup {i}, h)
       PROVE  StampUse(k)' /\ ItemsByUse(k)' = After(y, w1, 0, c1)
    <2>1. w1 \in [1 .. c1 -> UsedEntries(k)'] /\ Ascends(w1, c1, UsedEntries(k)', stamps'[k])
        BY <1>16, <1>17, <1>18 DEF Ascends
    <2>2. ASSUME NEW j \in Searched(k)
          PROVE  h[j] <= t /\ (h[j] = 0 => y[j] \notin StampedItems)
        <3>1. CASE j = i
            BY <3>1, <1>11, <1>14, <1>15
        <3>2. CASE j # i
            <4>1. h[j] = g[j] /\ y[j] = v[j] /\ g[j] < t /\ g[j] \in Nat
                BY <3>2, <1>3, <1>13, <1>14, <1>15
            <4>2. g[j] = 0 => v[j] \notin StampedItems
                BY <1>2 DEF StampUse, g, v
            <4> QED BY <4>1, <4>2, <1>14
        <3> QED BY <3>1, <3>2
    <2>3. StampUse(k)'
        BY <2>1, <2>2, <1>14, <1>15, <1>16 DEF StampUse, Searched
    <2>4. ItemsByUse(k)' = After(items'[k], w1, 0, c1)
        BY <2>1, <2>3, ByStampShownNext
    <2> QED BY <2>3, <2>4, <1>16
<1>19. ASSUME NEW e \in Stamped, e # k PROVE StampUse(e)' /\ ItemsByUse(e)' = ItemsByUse(e)
    <2>1. stamp'[e] = stamp[e] /\ stamps'[e] = stamps[e] /\ items'[e] = items[e]
        BY <1>1, <1>2, <1>19 DEF StampInv, CacheInv, StampTyped
    <2> QED BY <2>1, <1>19, SameStamps DEF StampInv
<1>20. client_drawn' = [client_drawn EXCEPT ![k] = x]
    <2>1. items'[k][i] = x
        BY <1>11, <1>13, <1>16
    <2>2. client_items'[k][i] = x
        BY <2>1, <1>2, <1>11 DEF CacheInv, ClientAgrees
    <2> QED BY <2>2, <1>1
<1>21. /\ \A u \in U : g[u] \in Nat /\ g[u] < h[i] /\ (u # i => h[u] = g[u])
       /\ \A u \in U : u \in 0 .. HighIdx[k] /\ u \in Searched(k)
    BY <1>3, <1>11, <1>14, <1>15
<1>22. (\A m \in 1 .. c : w[m] \in U) /\ \A m, n \in 1 .. c : w[m] = w[n] => m = n
    <2>1. \A m \in 1 .. c : w[m] \in U
        BY <1>5
    <2>2. ASSUME NEW m \in 1 .. c, NEW n \in 1 .. c, w[m] = w[n], m # n PROVE FALSE
        <3>1. m < n \/ n < m
            BY <2>2
        <3>2. g[w[m]] < g[w[m]]
            BY <3>1, <2>2, <1>5 DEF Ascends, Grows
        <3> QED BY <3>2, <2>1, <1>21
    <2> QED BY <2>1, <2>2
<1>23. Hold(v, w, 0, c, Held)
    <2>1. \A m \in 0 + 1 .. c : m \in 1 .. c
        OBVIOUS
    <2> QED BY <2>1, <1>12, <1>21, <1>22 DEF Hold
<1>24. s = [m \in 1 .. c |-> v[w[m]]]
    <2>1. c - 0 = c /\ \A m \in 1 .. c : 0 + m = m
        OBVIOUS
    <2> QED BY <2>1, <1>6 DEF After
<1> HIDE DEF s
<1>25. s \in Seq(Held) /\ Len(s) = c
    <2>1. \A m \in 1 .. c : v[w[m]] \in Held
        BY <1>12, <1>21, <1>22
    <2> QED BY <2>1, <1>24
<1>26. ASSUME found # {} PROVE StampUse(k)' /\ StampLru!Next
    <2>1. i \in U /\ v[i] = x /\ U \cup {i} = U
        BY <1>8, <1>26
    <2>2. PICK k0 \in 1 .. c : w[k0] = i
        BY <2>1, <1>5 DEF Ascends
    <2> DEFINE q == MovedToEnd(w, k0, c)
    <2>3. Ascends(q, c, U, h)
        BY <2>2, <1>5, <1>21, AscendsMoved
    <2>4. y = v
        <3>1. \A j \in 0 .. HighIdx[k] : y[j] = v[j]
            BY <2>1, <1>13
        <3>2. /\ y = [j \in 0 .. HighIdx[k] |-> y[j]]
              /\ v = [j \in 0 .. HighIdx[k] |-> v[j]]
            BY <1>12, <1>13
        <3> QED BY ONLY <3>1, <3>2
    <2> HIDE DEF q
    <2>5. StampUse(k)' /\ ItemsByUse(k)' = After(v, q, 0, c)
        BY <2>1, <2>3, <2>4, <1>18
    <2>6. c \in Nat \ {0} /\ 0 \in 0 .. c - 1 /\ k0 \in 0 + 1 .. c /\ k0 - 0 = k0
        BY <2>2
    <2>7. After(v, q, 0, c) = ToEnd(After(v, w, 0, c), k0 - 0, v[w[k0]])
        BY ONLY <2>6, <1>23, MovedShown DEF q
    <2>8. ItemsByUse(k)' = ToEnd(s, k0, x)
        BY <2>1, <2>2, <2>5, <2>6, <2>7, <1>6
    <2>9. k0 \in 1 .. Len(s) /\ s[k0] = x
        BY <2>1, <2>2, <1>24, <1>25
    <2>10. ToEnd(s, k0, x) = Append(BitmapLru!RemoveAt(s, k0), x)
        BY <2>9, <1>12, <1>25, UsedAgain
    <2>11. StampLru!Next
        BY <2>8, <2>9, <2>10, <1>19, <1>20, StampAgain DEF s
    <2> QED BY <2>5, <2>11
<1>27. ASSUME found = {} PROVE \A m \in 1 .. Len(s) : s[m] # x
    BY <1>10, <1>21, <1>22, <1>24, <1>25, <1>27
<1>28. ASSUME found = {}, i \notin U PROVE StampUse(k)' /\ StampLru!Next
    <2> DEFINE q == OneMore(w, c, i)
    <2>1. Ascends(q, c + 1, U \cup {i}, h)
        BY <1>5, <1>21, <1>28, AscendsMore
    <2>2. y[i] = x /\ \A m \in 1 .. c : y[w[m]] = v[w[m]]
        BY <1>11, <1>13, <1>21, <1>22, <1>28
    <2> DEFINE c1 == c + 1
    <2>3. c1 \in Nat /\ c1 = c + 1 /\ c \in Nat /\ Ascends(q, c1, U \cup {i}, h)
        BY <2>1
    <2> HIDE DEF q, c1
    <2>4. StampUse(k)' /\ ItemsByUse(k)' = Append(s, x)
        <3>1. q = OneMore(w, c, i) /\ Widens(v, y, w, c, c1, i, x)
            BY <2>2, <2>3 DEF q, Widens
        <3>2. After(y, q, 0, c1) = Longer(After(v, w, 0, c), x)
            BY ONLY <3>1, <2>3, <1>12, <1>23, MoreShown
        <3>3. StampUse(k)' /\ ItemsByUse(k)' = After(y, q, 0, c1)
            BY <2>3, <1>18
        <3> QED BY <3>2, <3>3, <1>6 DEF Longer
    <2>5. Len(s) # HighIdx[k] - LowIdx[k] + 1
        BY <1>7, <1>9, <1>25, <1>28
    <2>6. StampLru!Next
        BY <2>4, <2>5, <1>19, <1>20, <1>27, <1>28, StampAnew DEF s
    <2> QED BY <2>4, <2>6
<1>29. ASSUME found = {}, i \in U PROVE StampUse(k)' /\ StampLru!Next
    <2> DEFINE q == MovedToEnd(w, 1, c)
    <2>1. /\ c \in Nat \ {0} /\ 1 \in 1 .. c /\ 0 \in 0 .. c
          /\ w[1] = i /\ c = HighIdx[k] - LowIdx[k] + 1 /\ U \cup {i} = U
        BY <1>7, <1>9, <1>29
    <2>2. Ascends(q, c, U, h)
        BY <2>1, <1>5, <1>21, AscendsMoved
    <2>3. Given(v, y, w, x, c)
        BY <2>1, <1>13, <1>21, <1>22 DEF Given
    <2>4. After(y, q, 0, c) = Append(IF Len(After(v, w, 0, c)) = c THEN Tail(After(v, w, 0, c))
                                     ELSE After(v, w, 0, c), x)
        BY ONLY <2>1, <2>3, <1>12, <1>23, GivenShown DEF q
    <2> HIDE DEF q
    <2>5. StampUse(k)' /\ ItemsByUse(k)' = After(y, q, 0, c)
        BY <2>1, <2>2, <1>18
    <2>6. ItemsByUse(k)' = Append(IF Len(s) = HighIdx[k] - LowIdx[k] + 1 THEN Tail(s) ELSE s, x)
        BY <2>1, <2>4, <2>5, <1>6
    <2>7. StampLru!Next
        BY <2>6, <1>19, <1>20, <1>27, <1>29, StampAnew DEF s
    <2> QED BY <2>5, <2>7
<1>30. StampUse(k)' /\ StampLru!Next
    BY <1>26, <1>28, <1>29
<1>31. DOMAIN stamps' = Stamped /\ DOMAIN stamp' = Stamped
    BY <1>1 DEF StampInv
<1> QED BY <1>2, <1>19, <1>30, <1>31 DEF StampInv

\* Before the first call, at the start and after a reset.
LEMMA EmptyStamps == Blank \notin StampedItems /\ Init => StampInv /\ StampLru!Empty
<1> SUFFICES ASSUME Blank \notin StampedItems, Init PROVE StampInv /\ StampLru!Empty
    OBVIOUS
<1>1. CacheInv
    BY InitOK
<1>2. ASSUME NEW k \in Stamped PROVE StampUse(k) /\ ItemsByUse(k) = <<>>
    <2>1. /\ stamp[k] = 0 /\ stamps[k] = [i \in 0 .. HighIdx[k] |-> 0]
          /\ items[k] = [i \in 0 .. HighIdx[k] |-> Loaded(k, i, Blank)]
        BY DEF Init, AllLoaded
    <2>2. Searched(k) \in SUBSET (0 .. HighIdx[k])
        BY CacheAssumption DEF Searched
    <2>3. UsedEntries(k) = {}
        BY <2>1, <2>2 DEF UsedEntries
    <2>4. ASSUME NEW i \in Searched(k)
          PROVE  items[k][i] \notin StampedItems
        <3>1. i \in 0 .. HighIdx[k] /\ items[k][i] = Loaded(k, i, Blank)
            BY <2>1, <2>2
        <3>2. i < 2 => i \in {0, 1}
            BY <3>1, CacheAssumption
        <3> QED BY <3>1, <3>2, CacheAssumption DEF Loaded
    <2> DEFINE w == [n \in 1 .. 0 |-> n]
    <2>5. w \in [1 .. 0 -> UsedEntries(k)] /\ Ascends(w, 0, UsedEntries(k), stamps[k])
        BY <2>3 DEF Ascends, Grows
    <2> HIDE DEF w
    <2>6. StampUse(k)
        <3>1. \E c \in Nat : \E f \in [1 .. c -> UsedEntries(k)] :
                 Ascends(f, c, UsedEntries(k), stamps[k])
            <4>1. 0 \in Nat
                OBVIOUS
            <4> QED BY <2>5, <4>1
        <3>2. stamp[k] \in Nat /\ stamps[k] \in [0 .. HighIdx[k] -> Nat]
            BY <2>1
        <3>3. \A i \in Searched(k) : stamps[k][i] <= stamp[k]
            BY <2>1, <2>2
        <3> QED BY <3>1, <3>2, <3>3, <2>4 DEF StampUse
    <2>7. ItemsByUse(k) = After(items[k], w, 0, 0)
        BY <2>5, <2>6, ByStampShown
    <2> QED BY <2>6, <2>7 DEF After
<1>3. StampInv
    BY <1>1, <1>2 DEF StampInv, Init
<1>4. StampLru!Empty
    BY <1>2 DEF Init, StampLru!Empty
<1> QED BY <1>3, <1>4

LEMMA ResetStamps == Blank \notin StampedItems /\ Reset => StampInv' /\ StampLru!Next
<1> SUFFICES ASSUME Blank \notin StampedItems
             PROVE  Reset => StampInv' /\ StampLru!Next
    OBVIOUS
<1>1. Init => StampInv /\ StampLru!Empty
    BY EmptyStamps
<1>2. Reset => Init'
    BY DEF Reset, Init
<1>3. Reset => StampInv' /\ StampLru!Empty'
    BY <1>1, <1>2, PTL
<1> QED BY <1>3 DEF StampLru!Next, StampLru!Clear

\* A step that leaves the caches with stamps alone.
LEMMA OtherStamps ==
    ASSUME StampInv, CacheInv', UNCHANGED stampVars
    PROVE  StampInv' /\ UNCHANGED <<[k \in Stamped |-> ItemsByUse(k)], client_drawn>>
<1>1. UNCHANGED <<stamp, items, stamps, client_drawn>>
    BY DEF stampVars
<1>2. ASSUME NEW k \in Stamped PROVE StampUse(k)' /\ ItemsByUse(k)' = ItemsByUse(k)
    BY <1>1, SameStamps DEF StampInv
<1> QED BY <1>1, <1>2 DEF StampInv

\* So is each cache of glyphs, pointers or brushes, by its stamps: the search of
\* xrdp_cache_add_char, xrdp_cache_add_pointer and xrdp_cache_add_brush ends at
\* the entry used longest ago.  An all-zero item would be found in an entry that
\* was never sent, hence the hypothesis.
THEOREM StampedAreLruHolds == Blank \notin StampedItems /\ Spec => StampedAreLru
<1> SUFFICES ASSUME Blank \notin StampedItems PROVE Spec => StampedAreLru
    OBVIOUS
<1>1. Init => StampInv /\ StampLru!Init
    BY EmptyStamps DEF StampLru!Init
<1>2. StampInv /\ [Next]_vars
      => StampInv' /\ [StampLru!Next]_<<[k \in Stamped |-> ItemsByUse(k)], client_drawn>>
    <2> SUFFICES ASSUME StampInv, [Next]_vars
                 PROVE  StampInv'
                        /\ [StampLru!Next]_<<[k \in Stamped |-> ItemsByUse(k)], client_drawn>>
        OBVIOUS
    <2>1. CASE UNCHANGED vars
        <3>1. CacheInv'
            BY <2>1, UnchangedOK DEF StampInv
        <3> QED BY <2>1, <3>1, OtherStamps DEF vars
    <2>2. ASSUME NEW b \in Bitmaps, AddBitmapHit(b) PROVE CacheInv' /\ UNCHANGED stampVars
        BY <2>2, HitOK DEF StampInv, AddBitmapHit
    <2>3. ASSUME NEW b \in Bitmaps, AddBitmapMiss(b) PROVE CacheInv' /\ UNCHANGED stampVars
        BY <2>3, MissOK DEF StampInv, AddBitmapMiss
    <2>4. ASSUME NEW b \in Bitmaps, AddBitmapTooBig(b) PROVE UNCHANGED vars
        BY <2>4 DEF AddBitmapTooBig
    <2>5. ASSUME NEW k \in Stamped, NEW x \in StampedItems, AddStamped(k, x)
          PROVE  StampInv' /\ StampLru!Next
        BY <2>5, StampedUse
    <2>6. CASE Reset
        BY <2>6, ResetStamps
    <2> QED BY <2>1, <2>2, <2>3, <2>4, <2>5, <2>6, OtherStamps DEF Next
<1> QED BY <1>1, <1>2, PTL DEF Spec, StampedAreLru, StampLru!Spec
=============================================================================

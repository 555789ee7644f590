-------------------------- MODULE TransChannelProofs --------------------------
(***************************************************************************)
(* Proofs that the transports keep the order of the bytes, and that each of *)
(* them implements a ByteChannel, for every set of transports and every    *)
(* value of the bounds.                                                    *)
(***************************************************************************)
EXTENDS TransChannel, TransProofs, WellFoundedInduction

-----------------------------------------------------------------------------
(* The inductive invariant. *)

\* What is on the wire is a beginning of what was accepted.
WireOK == \A t \in Trans : wire[t] = Bytes(1, Len(wire[t]))

\* The streams of q follow each other without a gap, from byte a + 1 to byte b.
LastOf(q, a) == IF q = <<>> THEN a ELSE q[Len(q)].hi

Tiles(q, a, b) ==
    /\ \A k \in 1 .. Len(q) : q[k].lo = 1 + IF k = 1 THEN a ELSE q[k - 1].hi
    /\ LastOf(q, a) = b

\* The last byte that is on the wire or waits; those after it are the write in
\* progress.
LastHanded(t) == IF Writing /\ Top.dst = t THEN Top.lo - 1 ELSE written[t]

\* While the connection works, nothing is missing between the wire, the waiting
\* streams and the write in progress.
TiledOK == \A t \in Trans : Up(t) => Tiles(wait_s[t], Len(wire[t]), LastHanded(t))

\* Only chan_trans is polled in the handler of another transport, and only the
\* other handlers write to it with trans_force_write_s: when that write gives up,
\* no call below is about to flush chan_trans.
NestOK ==
    /\ \A i \in 3 .. Len(stack) : stack[i].t = Chan
    /\ At("force") => Top.dst = Chan /\ Top.t # Chan

\* A transport that went down with its socket intact is not flushed any more.
Broken(t) == status[t] = "DOWN" /\ ~closed[t]

DownOK ==
    \A t \in Trans : Broken(t) =>
        \A i \in 1 .. Len(stack) : stack[i].t = t => stack[i].pc = "check"

\* One that was deleted has nothing to send.
GoneOK == \A t \in Trans : status[t] = "GONE" => wait_s[t] = <<>>

BytesInv == WireOK /\ TiledOK
CallsInv == NestOK /\ DownOK /\ GoneOK
OrderInv == BytesInv /\ CallsInv

-----------------------------------------------------------------------------
(* Intervals of bytes. *)

\* Consecutive intervals join.
LEMMA BytesJoin ==
    ASSUME NEW a \in Nat, NEW b \in Int, NEW c \in Int, a - 1 <= b, b <= c
    PROVE  Bytes(a, b) \o Bytes(b + 1, c) = Bytes(a, c)
<1> DEFINE x == Bytes(a, b)
           y == Bytes(b + 1, c)
           z == Bytes(a, c)
<1>1. /\ x \in Seq(Nat) /\ Len(x) = b - a + 1
      /\ \A i \in 1 .. (b - a + 1) : x[i] = a + i - 1
    BY BytesType
<1>2. /\ y \in Seq(Nat) /\ Len(y) = c - b
      /\ \A i \in 1 .. (c - b) : y[i] = b + i
    <2> DEFINE d == b + 1
    <2>1. d \in Nat /\ c >= d - 1
        OBVIOUS
    <2> HIDE DEF d
    <2>2. /\ Bytes(d, c) \in Seq(Nat) /\ Len(Bytes(d, c)) = c - d + 1
          /\ \A i \in 1 .. (c - d + 1) : Bytes(d, c)[i] = d + i - 1
        BY <2>1, BytesType
    <2>3. y = Bytes(d, c) /\ c - d + 1 = c - b
        BY DEF d
    <2> HIDE DEF y
    <2>4. \A i \in 1 .. (c - b) : y[i] = d + i - 1
        BY <2>2, <2>3
    <2>5. \A i \in 1 .. (c - b) : d + i - 1 = b + i
        BY DEF d
    <2> QED BY <2>2, <2>3, <2>4, <2>5
<1>3. /\ z \in Seq(Nat) /\ Len(z) = c - a + 1
      /\ \A i \in 1 .. (c - a + 1) : z[i] = a + i - 1
    <2>1. c >= a - 1
        OBVIOUS
    <2> QED BY <2>1, BytesType
<1> HIDE DEF x, y, z
<1>4. /\ x \o y \in Seq(Nat) /\ Len(x \o y) = Len(x) + Len(y)
      /\ \A i \in 1 .. (Len(x) + Len(y)) :
            (x \o y)[i] = IF i <= Len(x) THEN x[i] ELSE y[i - Len(x)]
    BY <1>1, <1>2, ConcatProperties
<1>5. Len(x \o y) = Len(z)
    BY <1>1, <1>2, <1>3, <1>4
<1>6. ASSUME NEW i \in 1 .. Len(z) PROVE (x \o y)[i] = z[i]
    <2>1. i \in 1 .. (Len(x) + Len(y)) /\ z[i] = a + i - 1
        BY <1>3, <1>4, <1>5
    <2>2. CASE i <= Len(x)
        <3>1. i \in 1 .. (b - a + 1)
            BY <1>1, <2>2
        <3> QED BY <1>1, <1>4, <2>1, <2>2, <3>1
    <2>3. CASE ~(i <= Len(x))
        <3>1. i - Len(x) \in 1 .. (c - b) /\ b + (i - Len(x)) = a + i - 1
            BY <1>1, <1>2, <2>1, <2>3
        <3> QED BY <1>2, <1>4, <2>1, <2>3, <3>1
    <2> QED BY <2>2, <2>3
<1> QED BY <1>3, <1>4, <1>5, <1>6, SeqEqual DEF x, y, z

LEMMA BytesEmpty == \A a \in Nat : Bytes(a, a - 1) = <<>>
<1> SUFFICES ASSUME NEW a \in Nat PROVE Bytes(a, a - 1) = <<>>
    OBVIOUS
<1>1. a - 1 \in Int /\ a - 1 >= a - 1 /\ a - 1 - a + 1 = 0
    OBVIOUS
<1>2. Bytes(a, a - 1) \in Seq(Nat) /\ Len(Bytes(a, a - 1)) = 0
    BY <1>1, BytesType
<1> QED BY <1>2

\* A list that tiles has its last stream where the tiling ends, and an end of
\* each stream between the two.
LEMMA TilesBounds ==
    ASSUME NEW q \in Seq(Item), NEW a \in Nat, NEW b \in Int, Tiles(q, a, b),
           \A k \in 1 .. Len(q) : q[k].lo <= q[k].hi,
           \A j, k \in 1 .. Len(q) : j < k => q[j].hi < q[k].lo
    PROVE  /\ a <= b
           /\ \A k \in 1 .. Len(q) : q[k].hi \in Nat /\ a <= q[k].hi
<1>1. \A k \in 1 .. Len(q) : q[k].lo \in Nat /\ q[k].hi \in Nat
    <2>1. \A k \in 1 .. Len(q) : q[k] \in Item
        BY ElementOfSeq
    <2> QED BY <2>1 DEF Item
<1>2. Len(q) \in Nat
    OBVIOUS
<1>3. ASSUME NEW k \in 1 .. Len(q) PROVE a <= q[k].hi
    <2>1. 1 \in 1 .. Len(q) /\ q[1].lo = a + 1
        BY <1>2 DEF Tiles
    <2>2. q[1].hi <= q[k].hi
        BY <1>1, <1>2, <2>1
    <2> QED BY <1>1, <2>1, <2>2
<1>4. a <= b
    <2>1. CASE q = <<>>
        BY <2>1 DEF Tiles, LastOf
    <2>2. CASE q # <<>>
        <3>1. Len(q) \in 1 .. Len(q) /\ q[Len(q)].hi = b
            BY <1>2, <2>2 DEF Tiles, LastOf
        <3> QED BY <1>3, <3>1
    <2> QED BY <2>1, <2>2
<1> QED BY <1>1, <1>3, <1>4

\* What a send of k bytes leaves tiles on from there.
LEMMA TilesRest ==
    ASSUME NEW q \in Seq(Item), q # <<>>, NEW a \in Nat, NEW b \in Int, Tiles(q, a, b),
           NEW k \in Nat, k <= q[1].hi - q[1].lo + 1, q[1].lo <= q[1].hi
    PROVE  Tiles(RestOf(q, k), a + k, b) /\ q[1].lo = a + 1
<1> DEFINE r == RestOf(q, k)
<1>1. Len(q) \in Nat \ {0} /\ q[1] \in Item
    OBVIOUS
<1>2. q[1].lo \in Nat /\ q[1].hi \in Nat
    BY <1>1 DEF Item
<1>3. q[1].lo = a + 1 /\ q[Len(q)].hi = b
    BY <1>1 DEF Tiles, LastOf
<1>4. \A j \in 1 .. Len(q) : j > 1 => q[j].lo = 1 + q[j - 1].hi
    BY <1>1 DEF Tiles
<1>5. /\ r \in Seq(Item)
      /\ k = q[1].hi - q[1].lo + 1 =>
            /\ Len(r) = Len(q) - 1
            /\ \A j \in 1 .. (Len(q) - 1) : r[j] = q[j + 1]
      /\ k # q[1].hi - q[1].lo + 1 =>
            /\ Len(r) = Len(q)
            /\ r[1] = [lo |-> q[1].lo + k, hi |-> q[1].hi, src |-> q[1].src]
            /\ \A j \in 2 .. Len(q) : r[j] = q[j]
    BY RestOfLemma
<1> HIDE DEF r
<1>6. CASE k = q[1].hi - q[1].lo + 1
    <2>1. a + k = q[1].hi
        BY <1>2, <1>3, <1>6
    <2>2. \A j \in 1 .. Len(r) : j + 1 \in 1 .. Len(q) /\ j + 1 > 1 /\ r[j] = q[j + 1]
        BY <1>1, <1>5, <1>6
    <2>3. \A j \in 1 .. Len(r) : r[j].lo = 1 + q[j].hi
        <3>1. \A j \in 1 .. Len(r) : q[j + 1].lo = 1 + q[j + 1 - 1].hi /\ j + 1 - 1 = j
            BY <1>4, <2>2
        <3> QED BY <2>2, <3>1
    <2>4. \A j \in 1 .. Len(r) : j # 1 => r[j - 1] = q[j]
        <3>1. \A j \in 1 .. Len(r) : j # 1 => j - 1 \in 1 .. Len(r) /\ j - 1 + 1 = j
            BY <1>1, <1>5, <1>6
        <3> QED BY <2>2, <3>1
    <2>5. \A j \in 1 .. Len(r) : r[j].lo = 1 + IF j = 1 THEN a + k ELSE r[j - 1].hi
        BY <2>1, <2>3, <2>4
    <2>6. LastOf(r, a + k) = b
        <3>1. CASE r = <<>>
            <4>1. Len(r) = 0 /\ Len(q) = 1
                BY <1>1, <1>5, <1>6, <3>1
            <4> QED BY <1>3, <2>1, <3>1, <4>1 DEF LastOf
        <3>2. CASE r # <<>>
            <4>1. Len(r) \in 1 .. Len(r) /\ Len(r) + 1 = Len(q)
                BY <1>1, <1>5, <1>6, <3>2
            <4>2. r[Len(r)] = q[Len(q)]
                BY <2>2, <4>1
            <4> QED BY <1>3, <3>2, <4>2 DEF LastOf
        <3> QED BY <3>1, <3>2
    <2> QED BY <1>3, <2>5, <2>6 DEF Tiles, r
<1>7. CASE k # q[1].hi - q[1].lo + 1
    <2>1. \A j \in 1 .. Len(q) : r[j].hi = q[j].hi
        BY <1>1, <1>5, <1>7
    <2>2. r[1].lo = 1 + (a + k)
        BY <1>2, <1>3, <1>5, <1>7
    <2>3. \A j \in 1 .. Len(r) : j # 1 => r[j].lo = 1 + q[j - 1].hi
        BY <1>1, <1>4, <1>5, <1>7
    <2>4. \A j \in 1 .. Len(r) : j # 1 => r[j - 1].hi = q[j - 1].hi
        <3>1. \A j \in 1 .. Len(r) : j # 1 => j - 1 \in 1 .. Len(q)
            BY <1>1, <1>5, <1>7
        <3> QED BY <2>1, <3>1
    <2>5. \A j \in 1 .. Len(r) : r[j].lo = 1 + IF j = 1 THEN a + k ELSE r[j - 1].hi
        BY <2>2, <2>3, <2>4
    <2>6. LastOf(r, a + k) = b
        <3>1. r # <<>> /\ Len(r) = Len(q) /\ Len(q) \in 1 .. Len(q)
            BY <1>1, <1>5, <1>7
        <3> QED BY <1>3, <2>1, <3>1 DEF LastOf
    <2> QED BY <1>3, <2>5, <2>6 DEF Tiles, r
<1> QED BY <1>6, <1>7

\* A stream that begins where the tiling ends goes on with it.
LEMMA TilesAppend ==
    ASSUME NEW q \in Seq(Item), NEW a \in Nat, NEW b \in Int, Tiles(q, a, b),
           NEW h \in Item, h.lo = b + 1
    PROVE  Tiles(Append(q, h), a, h.hi)
<1> DEFINE r == Append(q, h)
<1>1. /\ Len(q) \in Nat /\ Len(r) = Len(q) + 1 /\ r # <<>>
      /\ r[Len(q) + 1] = h /\ \A i \in 1 .. Len(q) : r[i] = q[i]
    OBVIOUS
<1> HIDE DEF r
<1>2. b = IF Len(q) = 0 THEN a ELSE q[Len(q)].hi
    BY <1>1 DEF Tiles, LastOf
<1>3. ASSUME NEW k \in 1 .. Len(r)
      PROVE  r[k].lo = 1 + IF k = 1 THEN a ELSE r[k - 1].hi
    <2>1. CASE k \in 1 .. Len(q)
        <3>1. r[k] = q[k] /\ q[k].lo = 1 + IF k = 1 THEN a ELSE q[k - 1].hi
            BY <1>1, <2>1 DEF Tiles
        <3>2. k # 1 => k - 1 \in 1 .. Len(q)
            BY <1>1, <2>1
        <3> QED BY <1>1, <3>1, <3>2
    <2>2. CASE k = Len(q) + 1
        <3>1. r[k].lo = 1 + b
            BY <1>1, <2>2
        <3>2. k = 1 => b = a
            BY <1>1, <1>2, <2>2
        <3>3. k # 1 => k - 1 = Len(q) /\ r[k - 1] = q[Len(q)] /\ b = q[Len(q)].hi
            BY <1>1, <1>2, <2>2
        <3> QED BY <3>1, <3>2, <3>3
    <2> QED BY <1>1, <2>1, <2>2
<1>4. LastOf(r, a) = h.hi
    BY <1>1 DEF LastOf
<1> QED BY <1>3, <1>4 DEF Tiles, r

LEMMA LeastElement ==
    ASSUME NEW S \in SUBSET Nat, S # {}
    PROVE  \E x \in S : \A y \in S : x <= y
<1> DEFINE R == {ss \in Nat \X Nat : ss[1] < ss[2]}
<1>1. IsWellFoundedOn(R, Nat)
    BY NatLessThanWellFounded DEF OpToRel
<1>2. PICK x \in S : \A y \in S : <<y, x>> \notin R
    <2> HIDE DEF R
    <2> QED BY <1>1, WFMin
<1>3. ASSUME NEW y \in S PROVE x <= y
    <2>1. <<y, x>> \in Nat \X Nat /\ <<y, x>>[1] = y /\ <<y, x>>[2] = x
        OBVIOUS
    <2>2. ~(y < x)
        BY <1>2, <2>1
    <2> QED BY <2>2
<1> QED BY <1>3

\* The bytes of the streams of a list, first stream first: Waiting(t) is
\* JoinOf(wait_s[t]).
JoinOf(q) ==
    LET bytes[k \in 0 .. Len(q)] ==
            IF k = 0 THEN <<>> ELSE bytes[k - 1] \o Bytes(q[k].lo, q[k].hi)
    IN  bytes[Len(q)]

\* A list that tiles holds exactly the bytes from its beginning to its end.  The
\* definition recurs over the list: the intervals satisfy its equation, and a
\* least index where another solution differs from them does not exist.
LEMMA JoinIs ==
    ASSUME NEW q \in Seq(Item), NEW a \in Nat, NEW b \in Int, Tiles(q, a, b),
           \A k \in 1 .. Len(q) : q[k].lo <= q[k].hi,
           \A j, k \in 1 .. Len(q) : j < k => q[j].hi < q[k].lo
    PROVE  JoinOf(q) = Bytes(a + 1, b)
<1> DEFINE End(k) == IF k = 0 THEN a ELSE q[k].hi
           w == [k \in 0 .. Len(q) |-> Bytes(a + 1, End(k))]
           Eqn(f) == f = [k \in 0 .. Len(q) |-> IF k = 0 THEN <<>>
                             ELSE f[k - 1] \o Bytes(q[k].lo, q[k].hi)]
           g == CHOOSE f : Eqn(f)
<1>1. Len(q) \in Nat
    OBVIOUS
<1>2. \A k \in 1 .. Len(q) : q[k].hi \in Nat /\ a <= q[k].hi
    BY TilesBounds
<1>3. \A k \in 0 .. Len(q) : End(k) \in Nat /\ a <= End(k)
    BY <1>2
<1>4. \A k \in 1 .. Len(q) : q[k].lo = End(k - 1) + 1 /\ q[k].hi = End(k)
    <2> SUFFICES ASSUME NEW k \in 1 .. Len(q)
                 PROVE  q[k].lo = End(k - 1) + 1 /\ q[k].hi = End(k)
        OBVIOUS
    <2>1. q[k].lo = 1 + IF k = 1 THEN a ELSE q[k - 1].hi
        BY DEF Tiles
    <2>2. k - 1 = 0 <=> k = 1
        OBVIOUS
    <2>3. q[k].lo = 1 + End(k - 1)
        BY <2>1, <2>2
    <2>4. k - 1 \in 0 .. Len(q)
        OBVIOUS
    <2>5. End(k - 1) \in Nat
        BY <1>3, <2>4
    <2> HIDE DEF End
    <2>6. q[k].lo = End(k - 1) + 1
        BY <2>3, <2>5
    <2> QED BY <2>6 DEF End
<1>5. \A k \in 1 .. Len(q) : End(k - 1) <= End(k)
    <2> SUFFICES ASSUME NEW k \in 1 .. Len(q) PROVE End(k - 1) <= End(k)
        OBVIOUS
    <2>1. k - 1 \in 0 .. Len(q) /\ k \in 0 .. Len(q)
        OBVIOUS
    <2>2. q[k].lo <= q[k].hi /\ End(k - 1) \in Nat /\ End(k) \in Nat
        BY <1>3, <2>1
    <2>3. q[k].lo = End(k - 1) + 1 /\ q[k].hi = End(k)
        BY <1>4
    <2> HIDE DEF End
    <2> QED BY <2>2, <2>3
<1>0. End(0) = a
    OBVIOUS
<1>e. End(Len(q)) = b
    BY <1>1 DEF Tiles, LastOf
<1> HIDE DEF End
<1>6. \A k \in 1 .. Len(q) :
          Bytes(a + 1, End(k - 1)) \o Bytes(q[k].lo, q[k].hi) = Bytes(a + 1, End(k))
    <2> SUFFICES ASSUME NEW k \in 1 .. Len(q)
                 PROVE  Bytes(a + 1, End(k - 1)) \o Bytes(q[k].lo, q[k].hi)
                            = Bytes(a + 1, End(k))
        OBVIOUS
    <2> DEFINE c == a + 1
               d == End(k - 1)
               e == End(k)
    <2>1. k - 1 \in 0 .. Len(q) /\ k \in 0 .. Len(q)
        OBVIOUS
    <2>2. c \in Nat /\ d \in Int /\ e \in Int /\ c - 1 <= d /\ d <= e
        BY <1>3, <1>5, <2>1
    <2> HIDE DEF c, d, e
    <2>3. Bytes(c, d) \o Bytes(d + 1, e) = Bytes(c, e)
        BY <2>2, BytesJoin
    <2>4. q[k].lo = d + 1 /\ q[k].hi = e
        BY <1>4 DEF d, e
    <2> QED BY <2>3, <2>4 DEF c, d, e
<1>7. Bytes(a + 1, End(0)) = <<>>
    <2> DEFINE c == a + 1
    <2>1. c \in Nat /\ c - 1 = a
        OBVIOUS
    <2> HIDE DEF c
    <2>2. Bytes(c, c - 1) = <<>>
        BY <2>1, BytesEmpty
    <2> QED BY <1>0, <2>1, <2>2 DEF c
<1>8. Eqn(w)
    <2>1. \A k \in 0 .. Len(q) :
              w[k] = IF k = 0 THEN <<>> ELSE w[k - 1] \o Bytes(q[k].lo, q[k].hi)
        <3> SUFFICES ASSUME NEW k \in 0 .. Len(q)
                     PROVE  w[k] = IF k = 0 THEN <<>>
                                   ELSE w[k - 1] \o Bytes(q[k].lo, q[k].hi)
            OBVIOUS
        <3>1. w[k] = Bytes(a + 1, End(k))
            OBVIOUS
        <3>2. CASE k = 0
            BY <1>7, <3>1, <3>2
        <3>3. CASE k # 0
            <4>1. k - 1 \in 0 .. Len(q) /\ k \in 1 .. Len(q)
                BY <3>3
            <4>2. w[k - 1] = Bytes(a + 1, End(k - 1))
                BY <4>1
            <4> QED BY <1>6, <3>1, <3>3, <4>1, <4>2
        <3> QED BY <3>2, <3>3
    <2> DEFINE v == [k \in 0 .. Len(q) |-> IF k = 0 THEN <<>>
                        ELSE w[k - 1] \o Bytes(q[k].lo, q[k].hi)]
    <2>2. w = [k \in 0 .. Len(q) |-> w[k]]
        OBVIOUS
    <2> HIDE DEF w
    <2> QED BY <2>1, <2>2
<1>9. Eqn(g)
    <2>1. \E f : Eqn(f)
        <3> HIDE DEF w
        <3> QED BY <1>8
    <2> HIDE DEF Eqn
    <2> QED BY <2>1
<1>10. JoinOf(q) = g[Len(q)]
    BY DEF JoinOf
<1> HIDE DEF g
<1>11. \A k \in 0 .. Len(q) : g[k] = IF k = 0 THEN <<>>
                                    ELSE g[k - 1] \o Bytes(q[k].lo, q[k].hi)
    BY <1>9
<1> HIDE DEF Eqn
<1>12. \A k \in 0 .. Len(q) : g[k] = Bytes(a + 1, End(k))
    <2> DEFINE Bad == {k \in 0 .. Len(q) : g[k] # Bytes(a + 1, End(k))}
    <2>1. SUFFICES ASSUME Bad # {} PROVE FALSE
        OBVIOUS
    <2>2. Bad \in SUBSET Nat
        OBVIOUS
    <2>3. PICK x \in Bad : \A y \in Bad : x <= y
        <3> HIDE DEF Bad
        <3> QED BY <2>1, <2>2, LeastElement
    <2>4. x \in 0 .. Len(q) /\ g[x] # Bytes(a + 1, End(x))
        OBVIOUS
    <2>5. x # 0
        BY <1>7, <1>11, <2>4
    <2>6. x \in 1 .. Len(q) /\ x - 1 \in 0 .. Len(q) /\ ~(x <= x - 1)
        BY <2>4, <2>5
    <2>7. g[x - 1] = Bytes(a + 1, End(x - 1))
        BY <2>3, <2>6
    <2>8. g[x] = g[x - 1] \o Bytes(q[x].lo, q[x].hi)
        BY <1>11, <2>4, <2>5
    <2> QED BY <1>6, <2>4, <2>6, <2>7, <2>8
<1> QED BY <1>1, <1>10, <1>12, <1>e

Part(s, m, n) == SubSeq(s, m, n)

\* A part of an interval is an interval.
LEMMA BytesSub ==
    ASSUME NEW a \in Nat, NEW b \in Int, a - 1 <= b, NEW m \in Nat, NEW n \in Nat,
           1 <= m, m <= n + 1, n <= b - a + 1,
           NEW c \in Nat, NEW d \in Int, c = a + m - 1, d = a + n - 1
    PROVE  Part(Bytes(a, b), m, n) = Bytes(c, d)
<1> DEFINE x == SubSeq(Bytes(a, b), m, n)
           y == Bytes(c, d)
<1>1. Bytes(a, b) \in Seq(Nat) /\ \A i \in 1 .. (b - a + 1) : Bytes(a, b)[i] = a + i - 1
    BY BytesType
<1>2. \A i \in m .. n : Bytes(a, b)[i] \in Nat
    <2>1. \A i \in m .. n : i \in 1 .. (b - a + 1) /\ a + i - 1 \in Nat
        OBVIOUS
    <2> QED BY <1>1, <2>1
<1>3. /\ x \in Seq(Nat)
      /\ Len(x) = IF m <= n THEN n - m + 1 ELSE 0
      /\ \A i \in 1 .. (n - m + 1) : x[i] = Bytes(a, b)[m + i - 1]
    BY <1>1, <1>2, SubSeqProperties
<1>4. c \in Nat /\ d \in Int /\ d >= c - 1 /\ d - c + 1 = n - m + 1
    OBVIOUS
<1> HIDE DEF x
<1>5. /\ y \in Seq(Nat) /\ Len(y) = d - c + 1
      /\ \A i \in 1 .. (d - c + 1) : y[i] = c + i - 1
    BY <1>4, BytesType
<1>6. Len(x) = n - m + 1
    BY <1>3
<1>7. ASSUME NEW i \in 1 .. (n - m + 1) PROVE x[i] = y[i]
    <2>1. m + i - 1 \in 1 .. (b - a + 1)
        OBVIOUS
    <2>2. x[i] = a + (m + i - 1) - 1
        BY <1>1, <1>3, <2>1
    <2>3. y[i] = c + i - 1
        BY <1>4, <1>5
    <2>4. a + (m + i - 1) - 1 = c + i - 1
        OBVIOUS
    <2> QED BY <2>2, <2>3, <2>4
<1> HIDE DEF y
<1>8. Len(x) = Len(y) /\ \A i \in 1 .. Len(x) : x[i] = y[i]
    BY <1>4, <1>5, <1>6, <1>7
<1> QED BY <1>3, <1>5, <1>8, SeqEqual DEF x, y, Part

-----------------------------------------------------------------------------
(* The steps of a ByteChannel, on intervals. *)

\* Bytes accepted are appended to those not sent.
LEMMA AcceptIs ==
    ASSUME NEW l \in Nat, NEW w \in Nat, NEW v \in Nat, l <= w, w < v
    PROVE  /\ Len(Bytes(l + 1, v)) - Len(Bytes(l + 1, w)) = v - w
           /\ Bytes(l + 1, v) = Bytes(l + 1, w) \o
                  [i \in 1 .. (v - w) |-> l + Len(Bytes(l + 1, w)) + i]
<1> DEFINE a == l + 1
           f == [i \in 1 .. (v - w) |-> w + i]
<1>1. a \in Nat /\ a - 1 <= w /\ w >= a - 1 /\ v >= a - 1 /\ w - a + 1 = w - l /\ v - a + 1 = v - l
    OBVIOUS
<1>2. Bytes(w + 1, v) = f
    <2>1. v - (w + 1) + 1 = v - w /\ \A i \in 1 .. (v - w) : w + 1 + i - 1 = w + i
        OBVIOUS
    <2> QED BY <2>1 DEF Bytes
<1> HIDE DEF a, f
<1>3. Len(Bytes(a, w)) = w - l /\ Len(Bytes(a, v)) = v - l
    <2>1. Len(Bytes(a, w)) = w - a + 1
        BY <1>1, BytesType
    <2>2. Len(Bytes(a, v)) = v - a + 1
        BY <1>1, BytesType
    <2> QED BY <1>1, <2>1, <2>2
<1>4. Bytes(a, v) = Bytes(a, w) \o Bytes(w + 1, v)
    <2>1. a \in Nat /\ w \in Int /\ v \in Int /\ a - 1 <= w /\ w <= v
        BY <1>1
    <2> QED BY <2>1, BytesJoin
<1>5. l + Len(Bytes(a, w)) = w /\ Len(Bytes(a, v)) - Len(Bytes(a, w)) = v - w
    BY <1>3
<1>6. f = [i \in 1 .. (v - w) |-> l + Len(Bytes(a, w)) + i]
    BY <1>5 DEF f
<1> QED BY <1>2, <1>4, <1>5, <1>6 DEF a

\* Bytes delivered are the first of those not sent.
LEMMA DeliverIs ==
    ASSUME NEW l \in Nat, NEW m \in Nat, NEW w \in Nat, l < m, m <= w
    PROVE  /\ m - l \in 1 .. Len(Bytes(l + 1, w))
           /\ Bytes(1, m) = Bytes(1, l) \o Part(Bytes(l + 1, w), 1, m - l)
           /\ Bytes(m + 1, w) = Part(Bytes(l + 1, w), m - l + 1, Len(Bytes(l + 1, w)))
<1> DEFINE a == l + 1
           n == m - l
           k == w - l
<1>1. /\ a \in Nat /\ n \in Nat /\ k \in Nat /\ w \in Int /\ a - 1 <= w /\ w >= a - 1
      /\ w - a + 1 = k /\ 1 <= n /\ n <= k
      /\ a + 1 - 1 = l + 1 /\ a + n - 1 = m /\ a + (n + 1) - 1 = m + 1 /\ a + k - 1 = w
    OBVIOUS
<1>2. Bytes(1, m) = Bytes(1, l) \o Bytes(l + 1, m)
    <2>1. 1 \in Nat /\ l \in Int /\ m \in Int /\ 1 - 1 <= l /\ l <= m
        OBVIOUS
    <2> QED BY <2>1, BytesJoin
<1> HIDE DEF a, n, k
<1>3. Len(Bytes(a, w)) = k
    BY <1>1, BytesType
<1>4. Part(Bytes(a, w), 1, n) = Bytes(l + 1, m)
    <2> DEFINE c == l + 1
               p == 1
    <2>1. /\ a \in Nat /\ w \in Int /\ a - 1 <= w /\ p \in Nat /\ n \in Nat
          /\ 1 <= p /\ p <= n + 1 /\ n <= w - a + 1
          /\ c \in Nat /\ m \in Int /\ c = a + p - 1 /\ m = a + n - 1
        BY <1>1
    <2> HIDE DEF c, p
    <2>2. Part(Bytes(a, w), p, n) = Bytes(c, m)
        BY <2>1, BytesSub
    <2> QED BY <2>2 DEF c, p
<1>5. Part(Bytes(a, w), n + 1, k) = Bytes(m + 1, w)
    <2> DEFINE c == m + 1
               p == n + 1
    <2>1. /\ a \in Nat /\ w \in Int /\ a - 1 <= w /\ p \in Nat /\ k \in Nat
          /\ 1 <= p /\ p <= k + 1 /\ k <= w - a + 1
          /\ c \in Nat /\ c = a + p - 1 /\ w = a + k - 1
        BY <1>1
    <2> HIDE DEF c, p
    <2>2. Part(Bytes(a, w), p, k) = Bytes(c, w)
        BY <2>1, BytesSub
    <2> QED BY <2>2 DEF c, p
<1>6. n \in 1 .. k
    BY <1>1
<1> QED BY <1>2, <1>3, <1>4, <1>5, <1>6 DEF a, n

-----------------------------------------------------------------------------
(* The bytes of a transport that is up. *)

LEMMA Streams ==
    ASSUME Inv1, TiledOK, NEW t \in Trans, Up(t)
    PROVE  /\ Len(wire[t]) \in Nat /\ LastHanded(t) \in Nat /\ written[t] \in Nat
           /\ Len(wire[t]) <= LastHanded(t) /\ LastHanded(t) <= written[t]
           /\ Waiting(t) = Bytes(Len(wire[t]) + 1, LastHanded(t))
           /\ InProgress(t) = Bytes(LastHanded(t) + 1, written[t])
<1> DEFINE q == wait_s[t]
           a == Len(wire[t])
           b == LastHanded(t)
<1>1. TypeOK /\ QueueOK /\ OpOK
    BY DEF Inv1
<1>2. a \in Nat /\ q \in Seq(Item) /\ written[t] \in Nat
    <2>1. wire[t] \in Seq(Nat) /\ written[t] \in Nat /\ q \in Seq(Item)
        BY <1>1 DEF TypeOK
    <2> QED BY <2>1
<1>3. /\ \A k \in 1 .. Len(q) : q[k].lo <= q[k].hi
      /\ \A j, k \in 1 .. Len(q) : j < k => q[j].hi < q[k].lo
    BY <1>1, ItemFacts
<1>4. /\ b \in Nat /\ b <= written[t]
      /\ InProgress(t) = Bytes(b + 1, written[t])
    <2>1. CASE Writing /\ Top.dst = t
        <3>1. stack # <<>> /\ Top.pc \in {"copy1", "copy2", "force"} /\ b = Top.lo - 1
            BY <2>1 DEF Writing, LastHanded
        <3>2. Top.lo \in Nat /\ Top.hi \in Nat /\ Top.hi = written[t] /\ 1 <= Top.lo
              /\ Top.lo <= Top.hi + 1
            BY <2>1, <3>1, OpFacts
        <3>3. InProgress(t) = Bytes(Top.lo, Top.hi)
            BY <2>1, <3>1 DEF InProgress
        <3>4. b \in Nat /\ b <= written[t] /\ b + 1 = Top.lo
            BY <1>2, <3>1, <3>2
        <3> QED BY <3>2, <3>3, <3>4
    <2>2. CASE ~(Writing /\ Top.dst = t)
        <3>1. b = written[t]
            BY <2>2 DEF LastHanded
        <3>2. InProgress(t) = <<>>
            BY <2>2 DEF InProgress, Writing
        <3> DEFINE c == written[t] + 1
        <3>3. c \in Nat /\ c - 1 = written[t]
            BY <1>2
        <3> HIDE DEF c
        <3>4. Bytes(c, c - 1) = <<>>
            BY <3>3, BytesEmpty
        <3> QED BY <1>2, <3>1, <3>2, <3>3, <3>4 DEF c
    <2> QED BY <2>1, <2>2
<1>5. Tiles(q, a, b)
    BY DEF TiledOK
<1>6. Waiting(t) = JoinOf(q)
    BY DEF Waiting, JoinOf
<1> HIDE DEF q, a, b
<1>7. JoinOf(q) = Bytes(a + 1, b)
    BY <1>2, <1>3, <1>4, <1>5, JoinIs
<1>8. a <= b
    BY <1>2, <1>3, <1>4, <1>5, TilesBounds
<1> QED BY <1>2, <1>4, <1>6, <1>7, <1>8 DEF a, b

\* What a transport owes is the interval from the wire to the last byte accepted.
PendingOK ==
    \A t \in Trans : Up(t) =>
        /\ Len(wire[t]) \in Nat /\ written[t] \in Nat /\ Len(wire[t]) <= written[t]
        /\ Waiting(t) \o InProgress(t) = Bytes(Len(wire[t]) + 1, written[t])

LEMMA PendingIs ==
    ASSUME Inv1, TiledOK
    PROVE  PendingOK
<1> SUFFICES ASSUME NEW t \in Trans, Up(t)
             PROVE  /\ Len(wire[t]) \in Nat /\ written[t] \in Nat
                    /\ Len(wire[t]) <= written[t]
                    /\ Waiting(t) \o InProgress(t) = Bytes(Len(wire[t]) + 1, written[t])
    BY DEF PendingOK
<1> DEFINE a == Len(wire[t]) + 1
           b == LastHanded(t)
           c == written[t]
<1>1. /\ Len(wire[t]) \in Nat /\ b \in Nat /\ c \in Nat /\ Len(wire[t]) <= b /\ b <= c
      /\ Waiting(t) = Bytes(a, b) /\ InProgress(t) = Bytes(b + 1, c)
    BY Streams
<1>2. a \in Nat /\ b \in Int /\ c \in Int /\ a - 1 <= b /\ b <= c
    BY <1>1
<1>3. Len(wire[t]) <= c
    BY <1>1
<1> HIDE DEF a, b, c
<1>4. Bytes(a, b) \o Bytes(b + 1, c) = Bytes(a, c)
    BY <1>2, BytesJoin
<1> QED BY <1>1, <1>3, <1>4 DEF a, c

\* What a step of Trans may do to one transport.
StepOn(t) ==
    /\ Up(t)' => Up(t)
    /\ \/ /\ wire'[t] = wire[t]
          /\ Up(t)' => written[t] <= written'[t]
       \/ /\ Up(t) /\ Up(t)' /\ written'[t] = written[t]
          /\ Len(wire[t]) <= Len(wire'[t])

\* Such a step is one of a ByteChannel.
LEMMA ChannelStep ==
    ASSUME WireOK, WireOK', PendingOK, PendingOK', NEW t \in Trans, StepOn(t)
    PROVE  [Channel(t)!Next]_(Channel(t)!vars)
<1> DEFINE p == IF Up(t) THEN Waiting(t) \o InProgress(t) ELSE <<>>
           l == Len(wire[t])
           m == Len(wire'[t])
           w == written[t]
           v == written'[t]
<1>1. CASE ~Up(t)
    <2>1. wire'[t] = wire[t] /\ ~Up(t)'
        BY <1>1 DEF StepOn
    <2>2. p = <<>> /\ p' = <<>>
        BY <1>1, <2>1
    <2>3. Up(t)' = Up(t)
        BY <1>1, <2>1 DEF Up
    <2> HIDE DEF p
    <2>4. p' = p
        BY <2>2
    <2> QED BY <2>1, <2>3, <2>4 DEF Channel!vars, p
<1>2. CASE Up(t) /\ ~Up(t)'
    <2>1. wire'[t] = wire[t]
        BY <1>2 DEF StepOn
    <2>2. p' = <<>>
        BY <1>2
    <2> QED BY <1>2, <2>1, <2>2 DEF Channel!Next, Channel!Break
<1>3. CASE Up(t) /\ Up(t)'
    <2>1. /\ l \in Nat /\ w \in Nat /\ l <= w /\ p = Bytes(l + 1, w)
          /\ m \in Nat /\ v \in Nat /\ m <= v /\ p' = Bytes(m + 1, v)
        <3>1. l \in Nat /\ w \in Nat /\ l <= w /\ p = Bytes(l + 1, w)
            BY <1>3 DEF PendingOK
        <3>2. m \in Nat /\ v \in Nat /\ m <= v /\ p' = Bytes(m + 1, v)
            BY <1>3 DEF PendingOK
        <3> QED BY <3>1, <3>2
    <2>2. wire[t] = Bytes(1, l) /\ wire'[t] = Bytes(1, m)
        BY DEF WireOK
    <2>3. \/ wire'[t] = wire[t] /\ w <= v
          \/ v = w /\ l <= m
        BY <1>3 DEF StepOn
    <2> HIDE DEF p, l, m, w, v
    <2>4. CASE wire'[t] = wire[t] /\ w = v
        <3>1. l = m
            BY <2>4 DEF l, m
        <3>2. p' = p
            BY <2>1, <2>4, <3>1
        <3> QED BY <1>3, <2>4, <3>2 DEF Channel!vars, p
    <2>5. CASE wire'[t] = wire[t] /\ w < v
        <3>1. l = m
            BY <2>5 DEF l, m
        <3>0. /\ Len(Bytes(l + 1, v)) - Len(Bytes(l + 1, w)) = v - w
              /\ Bytes(l + 1, v) = Bytes(l + 1, w) \o
                    [i \in 1 .. (v - w) |-> l + Len(Bytes(l + 1, w)) + i]
            BY <2>1, <2>5, AcceptIs, ZenonT(40)
        <3>a. p' = Bytes(l + 1, v) /\ p = Bytes(l + 1, w)
            BY <2>1, <3>1
        <3>2. /\ Len(p') - Len(p) = v - w
              /\ p' = p \o [i \in 1 .. (v - w) |-> l + Len(p) + i]
            BY <3>0, <3>a
        <3>3. v - w > 0
            BY <2>1, <2>5
        <3>4. Channel(t)!Accept
            BY <1>3, <2>5, <3>2, <3>3 DEF Channel!Accept, p, l
        <3> QED BY <1>3, <3>4 DEF Channel!Next
    <2>6. CASE v = w /\ l < m
        <3>0. /\ m - l \in 1 .. Len(Bytes(l + 1, w))
              /\ Bytes(1, m) = Bytes(1, l) \o Part(Bytes(l + 1, w), 1, m - l)
              /\ Bytes(m + 1, w) = Part(Bytes(l + 1, w), m - l + 1, Len(Bytes(l + 1, w)))
            BY <2>1, <2>6, DeliverIs, ZenonT(40)
        <3>a. p' = Bytes(m + 1, w) /\ p = Bytes(l + 1, w)
            BY <2>1, <2>6
        <3>1. /\ m - l \in 1 .. Len(p)
              /\ wire'[t] = wire[t] \o Part(p, 1, m - l)
              /\ p' = Part(p, m - l + 1, Len(p))
            BY <2>2, <3>0, <3>a
        <3>2. Channel(t)!Deliver
            BY <1>3, <3>1 DEF Channel!Deliver, p, l, m, Part
        <3> QED BY <1>3, <3>2 DEF Channel!Next
    <2>7. CASE v = w /\ l = m
        <3>1. p' = p
            BY <2>1, <2>7
        <3>2. wire'[t] = wire[t]
            BY <2>2, <2>7
        <3> QED BY <1>3, <3>1, <3>2 DEF Channel!vars, p
    <2> QED BY <2>1, <2>3, <2>4, <2>5, <2>6, <2>7
<1> QED BY <1>1, <1>2, <1>3

-----------------------------------------------------------------------------
(* How the steps change the stack of calls. *)

LEMMA TopMoves ==
    ASSUME TypeOK, NestOK, DownOK, stack # <<>>, NEW f \in Frame, f.t = Top.t,
           f.pc = "force" => f.dst = Chan /\ f.t # Chan,
           Top.pc = "check" => status[Top.t] # "DOWN",
           stack' = SetTop(f), \A t \in Trans : Broken(t)' => Broken(t)
    PROVE  NestOK' /\ DownOK'
<1>1. /\ Len(stack) \in Nat \ {0} /\ Len(stack') = Len(stack) /\ stack' # <<>>
      /\ stack'[Len(stack)] = f /\ Top = stack[Len(stack)]
      /\ \A i \in 1 .. (Len(stack) - 1) : stack'[i] = stack[i]
    BY SetTopLemma, TopFacts
<1>2. Top' = f
    BY <1>1 DEF Top
<1>3. \A i \in 3 .. Len(stack') : stack'[i].t = Chan
    BY <1>1 DEF NestOK
<1>4. NestOK'
    BY <1>2, <1>3 DEF NestOK, At
<1>5. ASSUME NEW t \in Trans, Broken(t)', NEW i \in 1 .. Len(stack'), stack'[i].t = t
      PROVE  stack'[i].pc = "check"
    <2>1. Broken(t)
        BY <1>5
    <2>2. \A j \in 1 .. Len(stack) : stack[j].t = t => stack[j].pc = "check"
        BY <2>1 DEF DownOK
    <2>3. CASE i = Len(stack)
        <3>1. Top.t = t /\ Top.pc = "check"
            BY <1>1, <1>5, <2>2, <2>3
        <3> QED BY <2>1, <3>1 DEF Broken
    <2>4. CASE i # Len(stack)
        BY <1>1, <1>5, <2>2, <2>4
    <2> QED BY <2>3, <2>4
<1>6. DownOK'
    BY <1>5 DEF DownOK
<1> QED BY <1>4, <1>6

LEMMA TopLeaves ==
    ASSUME TypeOK, StackOK, NestOK, DownOK, stack # <<>>, stack' = Pop,
           \A t \in Trans : Broken(t)' => Broken(t)
    PROVE  NestOK' /\ DownOK'
<1>1. /\ Len(stack) \in Nat \ {0} /\ Len(stack') = Len(stack) - 1
      /\ \A i \in 1 .. (Len(stack) - 1) : stack'[i] = stack[i]
    BY PopLemma, TopFacts
<1>2. \A i \in 3 .. Len(stack') : stack'[i].t = Chan
    BY <1>1 DEF NestOK
<1>3. ~At("force")'
    <2>1. CASE stack' = <<>>
        BY <2>1 DEF At
    <2>2. CASE stack' # <<>>
        <3>1. Len(stack') \in 1 .. (Len(stack) - 1)
            <4>1. stack' \in Seq(Frame)
                BY PopLemma
            <4> QED BY <1>1, <2>2, <4>1
        <3>2. Top' = stack[Len(stack')]
            BY <1>1, <3>1 DEF Top
        <3>3. stack[Len(stack')].pc \in {"run", "ckdel"}
            BY <1>1, <3>1 DEF StackOK
        <3> QED BY <3>2, <3>3 DEF At
    <2> QED BY <2>1, <2>2
<1>4. NestOK'
    BY <1>2, <1>3 DEF NestOK
<1>5. DownOK'
    BY <1>1 DEF DownOK
<1> QED BY <1>4, <1>5

\* No call, or one more at its beginning.
LEMMA CallsEnd ==
    ASSUME stack' = <<>>
    PROVE  NestOK' /\ DownOK'
<1>1. Len(stack') = 0
    OBVIOUS
<1> QED BY <1>1 DEF NestOK, DownOK, At

LEMMA CallStarts ==
    ASSUME TypeOK, NestOK, DownOK, NEW s \in Seq(Frame), NEW f \in Frame, f.pc = "check",
           Len(s) > 1 => f.t = Chan, \A i \in 3 .. Len(s) : s[i].t = Chan,
           stack' = Append(s, f),
           \A t \in Trans : Broken(t)' =>
               \A i \in 1 .. Len(s) : s[i].t = t => s[i].pc = "check"
    PROVE  NestOK' /\ DownOK'
<1>1. /\ Len(s) \in Nat /\ Len(stack') = Len(s) + 1 /\ stack' # <<>>
      /\ stack'[Len(s) + 1] = f /\ \A i \in 1 .. Len(s) : stack'[i] = s[i]
    BY PushLemma
<1>2. Top'.pc = "check"
    BY <1>1 DEF Top
<1>3. ASSUME NEW i \in 3 .. Len(stack') PROVE stack'[i].t = Chan
    <2>1. CASE i = Len(s) + 1
        BY <1>1, <2>1
    <2>2. CASE i # Len(s) + 1
        BY <1>1, <2>2
    <2> QED BY <2>1, <2>2
<1>4. NestOK'
    BY <1>2, <1>3 DEF NestOK, At
<1>5. ASSUME NEW t \in Trans, Broken(t)', NEW i \in 1 .. Len(stack'), stack'[i].t = t
      PROVE  stack'[i].pc = "check"
    <2>1. CASE i = Len(s) + 1
        BY <1>1, <2>1
    <2>2. CASE i # Len(s) + 1
        BY <1>1, <1>5, <2>2
    <2> QED BY <2>1, <2>2
<1>6. DownOK'
    BY <1>5 DEF DownOK
<1> QED BY <1>4, <1>6

LEMMA CallsStay ==
    ASSUME NestOK, DownOK, stack' = stack, \A t \in Trans : Broken(t)' => Broken(t)
    PROVE  NestOK' /\ DownOK'
<1>1. Top' = Top /\ (At("force")' <=> At("force"))
    BY DEF Top, At
<1> QED BY <1>1 DEF NestOK, DownOK

\* What a step that sets no list of a deleted transport leaves of GoneOK.
LEMMA GoneStays ==
    ASSUME GoneOK, \A t \in Trans : status'[t] = "GONE" =>
               \/ status[t] = "GONE" /\ wait_s'[t] = wait_s[t]
               \/ wait_s'[t] = <<>>
    PROVE  GoneOK'
    BY DEF GoneOK

-----------------------------------------------------------------------------
(* How the steps change the bytes. *)

\* What every step keeps, and what it may do to a transport.
BytesStep == BytesInv' /\ \A t \in Trans : StepOn(t)

\* A step that moves no byte of a transport that stays up.
LEMMA NothingMoves ==
    ASSUME BytesInv, wire' = wire,
           \A t \in Trans : Up(t)' =>
               /\ Up(t) /\ wait_s'[t] = wait_s[t] /\ LastHanded(t)' = LastHanded(t)
               /\ written[t] <= written'[t]
    PROVE  BytesStep
<1>1. WireOK'
    BY DEF BytesInv, WireOK
<1>2. TiledOK'
    BY DEF BytesInv, TiledOK
<1>3. \A t \in Trans : StepOn(t)
    BY DEF StepOn
<1> QED BY <1>1, <1>2, <1>3 DEF BytesStep, BytesInv

\* A step outside of the writes, whose bytes stay where they are.
LEMMA NoWriteStep ==
    ASSUME TypeOK, BytesInv, UNCHANGED <<wire, written>>, ~Writing, ~Writing',
           \A t \in Trans : Up(t)' => Up(t) /\ wait_s'[t] = wait_s[t]
    PROVE  BytesStep
<1>1. \A t \in Trans : LastHanded(t)' = LastHanded(t)
    BY DEF LastHanded
<1>2. \A t \in Trans : written[t] <= written'[t]
    <2>1. \A t \in Trans : written[t] \in Nat /\ written'[t] = written[t]
        BY DEF TypeOK
    <2> QED BY <2>1
<1> QED BY <1>1, <1>2, NothingMoves

\* Bytes a .. a + k - 1 are put on the wire of u, where the next one is a.
LEMMA WireGrows ==
    ASSUME TypeOK, WireOK, NEW u \in Trans, NEW k \in Nat, NEW a \in Nat,
           a = Len(wire[u]) + 1,
           wire' = [wire EXCEPT ![u] = wire[u] \o Bytes(a, a + k - 1)]
    PROVE  /\ WireOK' /\ Len(wire[u]) \in Nat /\ Len(wire'[u]) = Len(wire[u]) + k
           /\ \A t \in Trans : t # u => wire'[t] = wire[t]
<1> DEFINE l == Len(wire[u])
           m == l + k
<1>1. wire \in [Trans -> Seq(Nat)]
    BY DEF TypeOK
<1>2. l \in Nat /\ wire[u] = Bytes(1, l)
    <2>1. wire[u] \in Seq(Nat)
        BY <1>1
    <2> QED BY <2>1 DEF WireOK
<1>3. wire'[u] = wire[u] \o Bytes(a, a + k - 1) /\ \A t \in Trans : t # u => wire'[t] = wire[t]
    BY <1>1
<1>4. m \in Nat /\ a = l + 1 /\ a + k - 1 = m /\ l <= m /\ 1 \in Nat /\ 1 - 1 <= l
      /\ m >= 1 - 1 /\ m - 1 + 1 = m /\ m = l + k
    BY <1>2
<1> HIDE DEF l, m
<1>5. wire'[u] = Bytes(1, m)
    <2>1. 1 \in Nat /\ l \in Int /\ m \in Int /\ 1 - 1 <= l /\ l <= m
        BY <1>2, <1>4
    <2>2. Bytes(1, l) \o Bytes(l + 1, m) = Bytes(1, m)
        BY <2>1, BytesJoin
    <2> QED BY <1>2, <1>3, <1>4, <2>2
<1>6. Len(wire'[u]) = m
    <2>1. 1 \in Nat /\ m \in Int /\ m >= 1 - 1
        BY <1>4
    <2>2. Len(Bytes(1, m)) = m - 1 + 1
        BY <2>1, BytesType
    <2> QED BY <1>4, <1>5, <2>2
<1>7. WireOK'
    <2> SUFFICES ASSUME NEW t \in Trans PROVE wire'[t] = Bytes(1, Len(wire'[t]))
        BY DEF WireOK
    <2>1. CASE t = u
        BY <1>5, <1>6, <2>1
    <2>2. CASE t # u
        BY <1>3, <2>2 DEF WireOK
    <2> QED BY <2>1, <2>2
<1> QED BY <1>2, <1>3, <1>4, <1>6, <1>7 DEF l

\* trans_send_waiting, and the first loop of trans_force_write_s: the first stream
\* goes on where the wire ends.
LEMMA SentHeadMoves ==
    ASSUME TypeOK, QueueOK, BytesInv, NEW u \in Trans, Up(u), wait_s[u] # <<>>,
           NEW k \in Takes(u, HeadLen(u)), SentHead(u, k),
           UNCHANGED <<status, closed>>,
           \A t \in Trans : LastHanded(t)' = LastHanded(t),
           \A t \in Trans : LastHanded(t) \in Int
    PROVE  BytesStep
<1> DEFINE q == wait_s[u]
           a == Len(wire[u])
           b == LastHanded(u)
<1>1. /\ q \in Seq(Item) /\ Len(q) \in Nat \ {0} /\ a \in Nat
      /\ q[1].lo \in Nat /\ q[1].hi \in Nat /\ q[1].lo <= q[1].hi
    <2>1. q \in Seq(Item) /\ wire[u] \in Seq(Nat)
        BY DEF TypeOK
    <2>2. Len(q) \in Nat \ {0} /\ a \in Nat /\ 1 \in 1 .. Len(q)
        BY <2>1
    <2> QED BY <2>1, <2>2, ItemFacts
<1>2. k \in Nat /\ k <= HeadLen(u) /\ written' = written
      /\ wait_s' = [wait_s EXCEPT ![u] = RestOf(wait_s[u], k)]
    BY SentHeadOK
<1>3. k <= q[1].hi - q[1].lo + 1
    BY <1>2 DEF HeadLen
<1>4. Tiles(q, a, b)
    BY DEF BytesInv, TiledOK
<1>5. Tiles(RestOf(q, k), a + k, b) /\ q[1].lo = a + 1
    <2>1. b \in Int /\ q # <<>>
        OBVIOUS
    <2> HIDE DEF q, a, b
    <2> QED BY <1>1, <1>2, <1>3, <1>4, <2>1, TilesRest
<1>6. wire' = [wire EXCEPT ![u] = wire[u] \o Bytes(q[1].lo, q[1].lo + k - 1)]
    BY DEF SentHead
<1>7. /\ WireOK' /\ Len(wire'[u]) = a + k
      /\ \A t \in Trans : t # u => wire'[t] = wire[t]
    BY <1>1, <1>2, <1>5, <1>6, WireGrows DEF BytesInv
<1>8. wait_s'[u] = RestOf(q, k) /\ \A t \in Trans : t # u => wait_s'[t] = wait_s[t]
    BY <1>2 DEF TypeOK
<1>9. \A t \in Trans : (Up(t)' <=> Up(t)) /\ written'[t] = written[t]
    BY <1>2 DEF Up
<1>10. TiledOK'
    <2> SUFFICES ASSUME NEW t \in Trans, Up(t)
                 PROVE  Tiles(wait_s'[t], Len(wire'[t]), LastHanded(t)')
        BY <1>9 DEF TiledOK
    <2>1. CASE t = u
        BY <1>5, <1>7, <1>8, <2>1
    <2>2. CASE t # u
        BY <1>7, <1>8, <2>2 DEF BytesInv, TiledOK
    <2> QED BY <2>1, <2>2
<1>11. \A t \in Trans : StepOn(t)
    <2> SUFFICES ASSUME NEW t \in Trans PROVE StepOn(t)
        OBVIOUS
    <2>1. CASE t = u
        <3>1. Len(wire[t]) <= Len(wire'[t])
            BY <1>1, <1>2, <1>7, <2>1
        <3> QED BY <1>9, <2>1, <3>1 DEF StepOn
    <2>2. CASE t # u
        <3>1. written[t] <= written'[t]
            <4>1. written[t] \in Nat
                BY DEF TypeOK
            <4> QED BY <1>9, <4>1
        <3> QED BY <1>7, <1>9, <2>2, <3>1 DEF StepOn
    <2> QED BY <2>1, <2>2
<1> QED BY <1>7, <1>10, <1>11 DEF BytesStep, BytesInv

-----------------------------------------------------------------------------
(* The steps. *)

LEMMA OrderInit == Init => OrderInv
<1> SUFFICES ASSUME Init PROVE OrderInv
    OBVIOUS
<1>0. Inv1
    BY Inv1Init
<1>1. /\ stack # <<>> /\ Len(stack) = 1 /\ Top.pc = "run"
      /\ \A t \in Trans : status[t] = "UP"
    BY TransAssumption DEF Init, NewFrame, Top
<1>2. ~Writing /\ ~At("force")
    BY <1>1 DEF Writing, At
<1>3. WireOK
    <2> SUFFICES ASSUME NEW t \in Trans PROVE wire[t] = Bytes(1, Len(wire[t]))
        BY DEF WireOK
    <2>1. wire[t] = <<>> /\ Len(<<>>) = 0
        BY DEF Init
    <2>2. Bytes(1, 1 - 1) = <<>> /\ 1 - 1 = 0
        BY BytesEmpty
    <2> QED BY <2>1, <2>2
<1>4. TiledOK
    <2> SUFFICES ASSUME NEW t \in Trans
                 PROVE  Tiles(wait_s[t], Len(wire[t]), LastHanded(t))
        BY DEF TiledOK
    <2>1. wait_s[t] = <<>> /\ Len(wire[t]) = 0 /\ LastHanded(t) = 0
        BY <1>2 DEF Init, LastHanded
    <2>2. Len(<<>>) = 0
        OBVIOUS
    <2> QED BY <2>1, <2>2 DEF Tiles, LastOf
<1>5. NestOK
    BY <1>1, <1>2 DEF NestOK
<1>6. DownOK
    BY <1>1 DEF DownOK, Broken
<1>7. GoneOK
    BY <1>1 DEF GoneOK
<1> QED BY <1>3, <1>4, <1>5, <1>6, <1>7 DEF OrderInv, BytesInv, CallsInv

LEMMA OrderPeer ==
    ASSUME Inv1, OrderInv, Peer \/ SignalTerm \/ UNCHANGED vars
    PROVE  BytesStep /\ CallsInv'
<1>1. TypeOK /\ BytesInv /\ NestOK /\ DownOK /\ GoneOK
    BY DEF Inv1, OrderInv, CallsInv
<1>2. UNCHANGED <<stack, wait_s, wire, written, status>>
    BY DEF Peer, SignalTerm, PeerReads, PeerSends, PeerCloses, inVars, outVars, vars
<1>3. \A t \in Trans : closed[t] => closed'[t]
    <2>1. CASE closed' = closed
        BY <2>1
    <2>2. ASSUME NEW u \in Trans, PeerCloses(u)
          PROVE  \A t \in Trans : closed[t] => closed'[t]
        BY <1>1, <2>2 DEF PeerCloses, TypeOK
    <2>3. closed' = closed \/ \E u \in Trans : PeerCloses(u)
        BY DEF Peer, SignalTerm, PeerReads, PeerSends, vars
    <2> QED BY <2>1, <2>2, <2>3
<1>4. \A t \in Trans : /\ Up(t)' => Up(t)
                       /\ Broken(t)' => Broken(t)
                       /\ LastHanded(t)' = LastHanded(t)
    BY <1>2, <1>3 DEF Up, Broken, LastHanded, Writing, Top
<1>5. \A t \in Trans : written[t] <= written'[t]
    <2>1. \A t \in Trans : written[t] \in Nat
        BY <1>1 DEF TypeOK
    <2> QED BY <1>2, <2>1
<1>6. BytesStep
    BY <1>1, <1>2, <1>4, <1>5, NothingMoves
<1>7. NestOK' /\ DownOK'
    BY <1>1, <1>2, <1>4, CallsStay
<1>8. GoneOK'
    BY <1>1, <1>2, GoneStays
<1> QED BY <1>6, <1>7, <1>8 DEF CallsInv

LEMMA OrderStartWrite ==
    ASSUME Inv1, OrderInv, NEW u \in Trans, NEW n \in Nat, NEW pc \in {"copy1", "force"},
           StartWrite(u, n, pc), pc = "force" => u = Chan
    PROVE  BytesStep /\ CallsInv'
<1>1. TypeOK /\ BytesInv /\ NestOK /\ DownOK /\ GoneOK
    BY DEF Inv1, OrderInv, CallsInv
<1>2. /\ stack # <<>> /\ Top.pc = "run" /\ ~(u = Chan /\ Top.t = Chan)
      /\ UNCHANGED <<status, wait_s, wire, closed>>
      /\ written' = [written EXCEPT ![u] = written[u] + n]
    BY DEF StartWrite, MayWrite, At
<1>3. Top \in Frame /\ pc \in PCs
    BY <1>2, TopFacts, <1>1 DEF PCs
<1>4. \A t \in Trans : written[t] \in Nat
    BY <1>1 DEF TypeOK
<1>5. written[u] + 1 \in Nat /\ written[u] + n \in Nat
    BY <1>4
<1> DEFINE f == [Top EXCEPT !.pc = pc, !.dst = u, !.lo = written[u] + 1,
                            !.hi = written[u] + n]
<1>6. f \in Frame
    BY <1>3, <1>5, FrameType
<1>7. f.t = Top.t /\ f.pc = pc /\ f.dst = u /\ f.lo = written[u] + 1
    BY <1>3 DEF Frame
<1>8. stack' = SetTop(f)
    BY DEF StartWrite
<1> HIDE DEF f
<1>9. stack' # <<>> /\ Top' = f
    <2>1. /\ SetTop(f) # <<>> /\ Len(SetTop(f)) = Len(stack) /\ SetTop(f)[Len(stack)] = f
        BY <1>1, <1>2, <1>6, SetTopLemma
    <2> QED BY <1>8, <2>1 DEF Top
<1>10. \A t \in Trans : LastHanded(t)' = LastHanded(t)
    <2>1. ~Writing /\ Writing'
        BY <1>2, <1>7, <1>9 DEF Writing
    <2>2. written[u] + 1 - 1 = written[u]
        BY <1>4
    <2>3. \A t \in Trans : t # u => written'[t] = written[t]
        BY <1>1, <1>2 DEF TypeOK
    <2>4. LastHanded(u) = written[u]
        BY <2>1 DEF LastHanded
    <2>5. LastHanded(u)' = written[u]
        <3>1. LastHanded(u)' = f.lo - 1
            BY <1>7, <1>9, <2>1 DEF LastHanded
        <3>2. f.lo - 1 = written[u]
            BY <1>4, <1>7
        <3> QED BY <3>1, <3>2
    <2>6. ASSUME NEW t \in Trans, t # u PROVE LastHanded(t)' = LastHanded(t)
        BY <1>7, <1>9, <2>1, <2>3, <2>6 DEF LastHanded
    <2> QED BY <2>4, <2>5, <2>6
<1>11. \A t \in Trans : written[t] <= written'[t]
    <2> SUFFICES ASSUME NEW t \in Trans PROVE written[t] <= written'[t]
        OBVIOUS
    <2>1. written'[t] = IF t = u THEN written[u] + n ELSE written[t]
        BY <1>1, <1>2 DEF TypeOK
    <2> QED BY <1>4, <2>1
<1>12. \A t \in Trans : (Up(t)' => Up(t)) /\ (Broken(t)' => Broken(t))
    BY <1>2 DEF Up, Broken
<1>13. BytesStep
    BY <1>1, <1>2, <1>10, <1>11, <1>12, NothingMoves
<1>14. NestOK' /\ DownOK'
    <2>1. f.pc = "force" => f.dst = Chan /\ f.t # Chan
        BY <1>2, <1>7
    <2> QED BY <1>1, <1>2, <1>6, <1>7, <1>8, <1>12, <2>1, TopMoves
<1>15. GoneOK'
    BY <1>1, <1>2, GoneStays
<1> QED BY <1>13, <1>14, <1>15 DEF CallsInv

LEMMA HandedType ==
    ASSUME Inv1, NEW t \in Trans
    PROVE  LastHanded(t) \in Int
<1>1. CASE Writing /\ Top.dst = t
    <2>1. stack # <<>> /\ Top.pc \in {"copy1", "copy2", "force"}
        BY <1>1 DEF Writing
    <2>2. Top.lo \in Nat
        BY <2>1, OpFacts
    <2> QED BY <1>1, <2>2 DEF LastHanded
<1>2. CASE ~(Writing /\ Top.dst = t)
    <2>1. written[t] \in Nat
        BY DEF Inv1, TypeOK
    <2> QED BY <1>2, <2>1 DEF LastHanded
<1> QED BY <1>1, <1>2

\* trans_send_waiting on a transport that is up.
LEMMA SendWaitingMoves ==
    ASSUME Inv1, BytesInv, GoneOK, NEW u \in Trans, SendWaiting(u), status[u] = "UP",
           UNCHANGED <<status, closed>>, \A t \in Trans : LastHanded(t)' = LastHanded(t)
    PROVE  BytesStep /\ GoneOK'
<1>1. TypeOK /\ QueueOK
    BY DEF Inv1
<1>2. CASE UNCHANGED outVars
    <2>1. wire' = wire /\ wait_s' = wait_s /\ written' = written
        BY <1>2 DEF outVars
    <2>2. \A t \in Trans : written[t] <= written'[t]
        <3>1. \A t \in Trans : written[t] \in Nat
            BY <1>1 DEF TypeOK
        <3> QED BY <2>1, <3>1
    <2>3. \A t \in Trans : Up(t)' => Up(t)
        BY DEF Up
    <2>4. BytesStep
        BY <2>1, <2>2, <2>3, NothingMoves
    <2>5. GoneOK'
        BY <2>1, GoneStays
    <2> QED BY <2>4, <2>5
<1>3. ASSUME wait_s[u] # <<>>, ~closed[u], NEW k \in Takes(u, HeadLen(u)), SentHead(u, k)
      PROVE  BytesStep /\ GoneOK'
    <2>1. Up(u)
        BY <1>3 DEF Up
    <2>2. \A t \in Trans : LastHanded(t) \in Int
        BY HandedType
    <2>3. BytesStep
        BY <1>1, <1>3, <2>1, <2>2, SentHeadMoves
    <2>4. wait_s' = [wait_s EXCEPT ![u] = RestOf(wait_s[u], k)]
        BY <1>1, <1>3, SentHeadOK
    <2>5. \A t \in Trans : t # u => wait_s'[t] = wait_s[t]
        BY <1>1, <2>4 DEF TypeOK
    <2>6. GoneOK'
        BY <2>5, GoneStays
    <2> QED BY <2>3, <2>6
<1> QED BY <1>2, <1>3 DEF SendWaiting

\* The end of a write.
LEMMA WriteEnds ==
    ASSUME TypeOK, NestOK, DownOK, stack # <<>>, NEW pc \in {"run", "poll"},
           Top.pc # "check", stack' = WriteDone(pc),
           \A t \in Trans : Broken(t)' => Broken(t)
    PROVE  NestOK' /\ DownOK' /\ ~Writing'
<1> DEFINE f == [Top EXCEPT !.pc = pc, !.dst = Client, !.lo = 1, !.hi = 0]
<1>1. Top \in Frame /\ pc \in PCs /\ Client \in Trans
    BY TopFacts, TransAssumption DEF PCs
<1>2. f \in Frame
    BY <1>1, FrameType
<1>3. f.t = Top.t /\ f.pc = pc
    BY <1>1 DEF Frame
<1>4. stack' = SetTop(f)
    BY DEF WriteDone
<1> HIDE DEF f
<1>5. NestOK' /\ DownOK'
    BY <1>2, <1>3, <1>4, TopMoves
<1>6. Top' = f
    <2>1. /\ SetTop(f) # <<>> /\ Len(SetTop(f)) = Len(stack) /\ SetTop(f)[Len(stack)] = f
        BY <1>2, SetTopLemma
    <2> QED BY <1>4, <2>1 DEF Top
<1> QED BY <1>3, <1>5, <1>6 DEF Writing

\* A step of the top call to another place.
LEMMA GotoMoves ==
    ASSUME TypeOK, NestOK, DownOK, stack # <<>>, NEW pc \in PCs, pc # "force",
           Top.pc = "check" => status[Top.t] # "DOWN",
           stack' = Goto(pc), \A t \in Trans : Broken(t)' => Broken(t)
    PROVE  NestOK' /\ DownOK'
<1> DEFINE f == [Top EXCEPT !.pc = pc]
<1>1. Top \in Frame
    BY TopFacts
<1>2. f \in Frame /\ f.t = Top.t /\ f.pc = pc
    BY <1>1 DEF Frame
<1>3. stack' = SetTop(f)
    BY DEF Goto
<1> HIDE DEF f
<1> QED BY <1>2, <1>3, TopMoves

LEMMA OrderCopyLeftOver ==
    ASSUME Inv1, OrderInv, CopyLeftOver
    PROVE  BytesStep /\ CallsInv'
<1> DEFINE u == Top.dst
<1>1. TypeOK /\ StackOK /\ BytesInv /\ NestOK /\ DownOK /\ GoneOK
    BY DEF Inv1, OrderInv, CallsInv
<1>2. stack # <<>> /\ Top.pc = "copy1" /\ closed' = closed
    BY DEF CopyLeftOver, At
<1>3. u \in Trans /\ status[u] = "UP"
    BY <1>2, OpFacts
<1>4. CASE /\ closed[u] /\ GoDown(u) /\ stack' = WriteDone("run") /\ UNCHANGED outVars
    <2>1. wait_s' = wait_s /\ wire' = wire /\ written' = written
        BY <1>4 DEF outVars
    <2>2. status'[u] = "DOWN" /\ \A t \in Trans : t # u => status'[t] = status[t]
        BY <1>1, <1>3, <1>4 DEF GoDown, TypeOK
    <2>3. \A t \in Trans : (Broken(t)' => Broken(t)) /\ (Up(t)' => Up(t) /\ t # u)
        BY <1>2, <1>4, <2>2 DEF Broken, Up
    <2>4. NestOK' /\ DownOK' /\ ~Writing'
        BY <1>1, <1>2, <1>4, <2>3, WriteEnds
    <2>5. \A t \in Trans : t # u => LastHanded(t)' = LastHanded(t)
        BY <2>1, <2>4 DEF LastHanded
    <2>6. \A t \in Trans : written[t] <= written'[t]
        <3>1. \A t \in Trans : written[t] \in Nat
            BY <1>1 DEF TypeOK
        <3> QED BY <2>1, <3>1
    <2>7. BytesStep
        BY <1>1, <2>1, <2>3, <2>5, <2>6, NothingMoves
    <2>8. GoneOK'
        <3>1. \A t \in Trans : status'[t] = "GONE" => status[t] = "GONE"
            BY <2>2
        <3> QED BY <1>1, <2>1, <3>1, GoneStays
    <2> QED BY <2>4, <2>7, <2>8 DEF CallsInv
<1>5. CASE SendWaiting(u) /\ stack' = Goto("copy2") /\ UNCHANGED status
    <2>1. /\ stack' # <<>> /\ Top'.pc = "copy2" /\ Top'.dst = u /\ Top'.lo = Top.lo
        BY <1>1, <1>2, <1>5, GotoOK DEF PCs
    <2>2. Writing /\ Writing'
        BY <1>2, <2>1 DEF Writing
    <2>3. written' = written
        BY <1>3, <1>5, SendWaitingOK DEF Inv1
    <2>4. \A t \in Trans : LastHanded(t)' = LastHanded(t)
        BY <2>1, <2>2, <2>3 DEF LastHanded
    <2>5. BytesStep /\ GoneOK'
        BY <1>1, <1>2, <1>3, <1>5, <2>4, SendWaitingMoves
    <2>6. \A t \in Trans : Broken(t)' => Broken(t)
        BY <1>2, <1>5 DEF Broken
    <2>7. NestOK' /\ DownOK'
        BY <1>1, <1>2, <1>5, <2>6, GotoMoves DEF PCs
    <2> QED BY <2>5, <2>7 DEF CallsInv
<1> QED BY <1>4, <1>5 DEF CopyLeftOver, SendWaitingFails

\* New bytes that are sent at once, or wait behind the others.
LEMMA OrderCopyNew ==
    ASSUME Inv1, OrderInv, CopyNew
    PROVE  BytesStep /\ CallsInv'
<1>1. TypeOK /\ StackOK /\ QueueOK /\ BytesInv /\ NestOK /\ DownOK /\ GoneOK
    BY DEF Inv1, OrderInv, CallsInv
<1>2. stack # <<>> /\ Top.pc = "copy2" /\ UNCHANGED <<closed, status>>
    BY DEF CopyNew, At
<1>o. /\ Top.dst \in Trans /\ Top.lo \in Nat /\ Top.hi \in Nat /\ status[Top.dst] = "UP"
      /\ Top.hi = written[Top.dst] /\ 1 <= Top.lo /\ Top.lo <= Top.hi + 1
    BY <1>2, OpFacts
<1>p. PICK u \in Trans, x \in Nat, y \in Nat : u = Top.dst /\ x = Top.lo /\ y = Top.hi
    BY <1>o
<1>3. status[u] = "UP" /\ y = written[u]
    BY <1>o, <1>p
<1>c. 1 <= x /\ x <= y + 1
    BY <1>o, <1>p
<1>l. PICK l \in Nat : l = Len(wire[u])
    <2>1. wire[u] \in Seq(Nat)
        BY <1>1 DEF TypeOK
    <2> QED BY <2>1
<1>4. Writing /\ LastHanded(u) = x - 1
    BY <1>2, <1>p DEF Writing, LastHanded
<1> DEFINE n == y - x + 1
           q == wait_s[u]
<1>5. \A t \in Trans : (Broken(t)' => Broken(t)) /\ (Up(t)' <=> Up(t))
    BY <1>2 DEF Broken, Up
<1>6. PICK pc \in {"run", "poll"} : stack' = WriteDone(pc)
    BY DEF CopyNew, AfterWrite
<1>7. NestOK' /\ DownOK' /\ ~Writing'
    BY <1>1, <1>2, <1>5, <1>6, WriteEnds
<1>8. \A t \in Trans : written[t] \in Nat
    BY <1>1 DEF TypeOK
<1>t. q \in Seq(Item)
    BY <1>1 DEF TypeOK
<1>u. Up(u) => Tiles(q, l, x - 1)
    BY <1>1, <1>l, <1>4 DEF BytesInv, TiledOK
<1>9. CASE (closed[u] \/ n = 0) /\ UNCHANGED outVars
    <2>1. wait_s' = wait_s /\ wire' = wire /\ written' = written
        BY <1>9 DEF outVars
    <2>2. ASSUME NEW t \in Trans, Up(t)' PROVE LastHanded(t)' = LastHanded(t)
        <3>1. LastHanded(t)' = written[t]
            BY <1>7, <2>1 DEF LastHanded
        <3>2. CASE t = u
            <4>1. n = 0
                BY <1>5, <1>9, <2>2, <3>2 DEF Up
            <4>2. x - 1 = y
                BY <4>1
            <4> QED BY <1>3, <1>4, <3>1, <3>2, <4>2
        <3>3. CASE t # u
            BY <1>p, <3>1, <3>3 DEF LastHanded
        <3> QED BY <3>2, <3>3
    <2>3. \A t \in Trans : written[t] <= written'[t]
        BY <1>8, <2>1
    <2>4. BytesStep
        BY <1>1, <1>5, <2>1, <2>2, <2>3, NothingMoves
    <2>5. GoneOK'
        BY <1>1, <1>2, <2>1, GoneStays
    <2> QED BY <1>7, <2>4, <2>5 DEF CallsInv
<1>10. ASSUME NEW k \in (IF q = <<>> /\ n > 0 THEN Takes(u, n) ELSE {0}),
              q # <<>> \/ ~closed[u],
              wire' = [wire EXCEPT ![u] = wire[u] \o Bytes(x, x + k - 1)],
              n - k < 1 => wait_s' = wait_s,
              ~(n - k < 1) => wait_s' = [wait_s EXCEPT ![u] = Append(q,
                                            [lo |-> x + k, hi |-> y,
                                             src |-> ChargedTo(u)])],
              written' = written
       PROVE  BytesStep /\ GoneOK'
    <2>1. n \in Nat /\ k \in Nat /\ k <= n
        <3>1. n \in Nat
            BY <1>c
        <3> QED BY <1>1, <1>3, <3>1, TakesBound
    <2>2. CASE k = 0
        <3>1. wire' = wire
            <4> DEFINE a == x
            <4>1. a \in Nat /\ a + k - 1 = a - 1
                BY <1>3, <2>2
            <4> HIDE DEF a
            <4>2. Bytes(a, a + k - 1) = <<>>
                BY <4>1, BytesEmpty
            <4>3. wire[u] \o Bytes(a, a + k - 1) = wire[u]
                <5>1. wire[u] \in Seq(Nat)
                    BY <1>1, <1>3 DEF TypeOK
                <5> QED BY <4>2, <5>1, ConcatEmptySeq
            <4>4. wire' = [wire EXCEPT ![u] = wire[u]]
                BY <1>10, <4>3 DEF a
            <4> QED BY <1>1, <4>4 DEF TypeOK
        <3>2. ASSUME NEW t \in Trans, t # u
              PROVE  wait_s'[t] = wait_s[t] /\ LastHanded(t)' = LastHanded(t)
            <4>1. wait_s'[t] = wait_s[t]
                BY <1>1, <1>10, <3>2 DEF TypeOK
            <4> QED BY <1>p, <1>7, <1>10, <3>2, <4>1 DEF LastHanded
        <3>3. LastHanded(u)' = y
            BY <1>3, <1>7, <1>10 DEF LastHanded
        <3>4. Up(u) => Tiles(wait_s'[u], l, y)
            <4>1. CASE n - k < 1
                <5> HIDE DEF n
                <5>1. n \in Nat /\ n - 0 < 1
                    BY <2>1, <2>2, <4>1
                <5>2. n = 0
                    BY ONLY <5>1
                <5>3. y - x + 1 = 0
                    BY <5>2 DEF n
                <5>4. x - 1 = y
                    BY ONLY <5>3, x \in Nat, y \in Nat
                <5> QED BY <1>10, <1>u, <4>1, <5>4 DEF n
            <4>2. CASE ~(n - k < 1)
                <5> DEFINE h == [lo |-> x + k, hi |-> y, src |-> ChargedTo(u)]
                           b == x - 1
                <5>1. h \in Item /\ h.hi = y /\ h.lo = b + 1 /\ b \in Int
                    <6>1. x + k = x - 1 + 1 /\ x + k \in Nat /\ x - 1 \in Int
                        BY <2>2
                    <6> QED BY <1>1, <6>1, ChargedType DEF Item
                <5>2. wait_s'[u] = Append(q, h)
                    BY <1>1, <1>3, <1>10, <4>2 DEF TypeOK
                <5>3. Up(u) => Tiles(q, l, b)
                    BY <1>u
                <5> HIDE DEF h, q, b
                <5>4. Up(u) => Tiles(Append(q, h), l, h.hi)
                    BY <1>t, <5>1, <5>3, TilesAppend
                <5> QED BY <5>1, <5>2, <5>4
            <4> QED BY <4>1, <4>2
        <3>5. WireOK' /\ TiledOK'
            <4>1. WireOK'
                BY <1>1, <3>1 DEF BytesInv, WireOK
            <4>2. TiledOK'
                <5> SUFFICES ASSUME NEW t \in Trans, Up(t)
                             PROVE  Tiles(wait_s'[t], Len(wire'[t]), LastHanded(t)')
                    BY <1>5 DEF TiledOK
                <5>1. CASE t = u
                    BY <1>l, <3>1, <3>3, <3>4, <5>1
                <5>2. CASE t # u
                    BY <1>1, <3>1, <3>2, <5>2 DEF BytesInv, TiledOK
                <5> QED BY <5>1, <5>2
            <4> QED BY <4>1, <4>2
        <3>6. \A t \in Trans : StepOn(t)
            <4>1. \A t \in Trans : written[t] <= written'[t]
                BY <1>8, <1>10
            <4> QED BY <1>5, <3>1, <4>1 DEF StepOn
        <3>7. GoneOK'
            BY <1>1, <1>2, <1>3, <3>2, GoneStays
        <3> QED BY <3>5, <3>6, <3>7 DEF BytesStep, BytesInv
    <2>3. CASE k # 0
        <3>1. q = <<>> /\ Up(u)
            BY <1>3, <1>10, <2>3 DEF Up
        <3>2. x = l + 1
            <4>1. x - 1 = l
                BY <1>u, <3>1 DEF Tiles, LastOf
            <4> QED BY <4>1
        <3>3. /\ WireOK' /\ Len(wire'[u]) = l + k
              /\ \A t \in Trans : t # u => wire'[t] = wire[t]
            BY <1>1, <1>l, <1>10, <2>1, <3>2, WireGrows DEF BytesInv
        <3>4. ASSUME NEW t \in Trans, t # u
              PROVE  wait_s'[t] = wait_s[t] /\ LastHanded(t)' = LastHanded(t)
            <4>1. wait_s'[t] = wait_s[t]
                BY <1>1, <1>10, <3>4 DEF TypeOK
            <4> QED BY <1>p, <1>7, <1>10, <3>4, <4>1 DEF LastHanded
        <3>5. LastHanded(u)' = y
            BY <1>3, <1>7, <1>10 DEF LastHanded
        <3>6. Tiles(wait_s'[u], l + k, y)
            <4>0. Len(<<>>) = 0
                OBVIOUS
            <4>1. CASE n - k < 1
                <5>1. l + k = y
                    BY <1>c, <2>1, <3>2, <4>1
                <5> QED BY <1>10, <3>1, <4>0, <4>1, <5>1 DEF Tiles, LastOf
            <4>2. CASE ~(n - k < 1)
                <5> DEFINE h == [lo |-> x + k, hi |-> y, src |-> ChargedTo(u)]
                           b == l + k
                <5>1. h \in Item /\ h.hi = y /\ h.lo = b + 1 /\ b \in Nat
                    <6>1. x + k = l + k + 1 /\ l + k \in Nat /\ x + k \in Nat
                        BY <2>1, <3>2
                    <6> QED BY <1>1, <6>1, ChargedType DEF Item
                <5>2. wait_s'[u] = Append(q, h)
                    BY <1>1, <1>3, <1>10, <4>2 DEF TypeOK
                <5>3. Tiles(q, b, b)
                    BY <3>1, <4>0 DEF Tiles, LastOf
                <5> HIDE DEF h, q, b
                <5>4. Tiles(Append(q, h), b, h.hi)
                    BY <1>t, <5>1, <5>3, TilesAppend
                <5> QED BY <5>1, <5>2, <5>4 DEF b
            <4> QED BY <4>1, <4>2
        <3>7. TiledOK'
            <4> SUFFICES ASSUME NEW t \in Trans, Up(t)
                         PROVE  Tiles(wait_s'[t], Len(wire'[t]), LastHanded(t)')
                BY <1>5 DEF TiledOK
            <4>1. CASE t = u
                BY <3>3, <3>5, <3>6, <4>1
            <4>2. CASE t # u
                BY <1>1, <3>3, <3>4, <4>2 DEF BytesInv, TiledOK
            <4> QED BY <4>1, <4>2
        <3>8. ASSUME NEW t \in Trans PROVE StepOn(t)
            <4>1. CASE t = u
                <5>1. Len(wire[t]) <= Len(wire'[t])
                    BY <1>l, <2>1, <3>3, <4>1
                <5> QED BY <1>5, <1>10, <3>1, <4>1, <5>1 DEF StepOn
            <4>2. CASE t # u
                BY <1>5, <1>8, <1>10, <3>3, <4>2 DEF StepOn
            <4> QED BY <4>1, <4>2
        <3>9. GoneOK'
            BY <1>1, <1>2, <1>3, <3>4, GoneStays
        <3> QED BY <3>3, <3>7, <3>8, <3>9 DEF BytesStep, BytesInv
    <2> QED BY <2>2, <2>3
<1>11. \/ (closed[u] \/ n = 0) /\ UNCHANGED outVars
       \/ \E k \in (IF q = <<>> /\ n > 0 THEN Takes(u, n) ELSE {0}) :
              /\ q # <<>> \/ ~closed[u]
              /\ wire' = [wire EXCEPT ![u] = wire[u] \o Bytes(x, x + k - 1)]
              /\ n - k < 1 => wait_s' = wait_s
              /\ ~(n - k < 1) => wait_s' = [wait_s EXCEPT ![u] = Append(q,
                                               [lo |-> x + k, hi |-> y,
                                                src |-> ChargedTo(u)])]
              /\ written' = written
    BY <1>p DEF CopyNew
<1> QED BY <1>7, <1>9, <1>10, <1>11 DEF CallsInv

LEMMA OrderForceSend ==
    ASSUME Inv1, OrderInv, ForceSend
    PROVE  BytesStep /\ CallsInv'
<1>1. TypeOK /\ StackOK /\ QueueOK /\ BytesInv /\ NestOK /\ DownOK /\ GoneOK
    BY DEF Inv1, OrderInv, CallsInv
<1>2. stack # <<>> /\ Top.pc = "force" /\ UNCHANGED <<closed, status>> /\ ~closed[Top.dst]
    BY DEF ForceSend, At
<1>o. /\ Top \in Frame /\ Top.dst \in Trans /\ Top.lo \in Nat /\ Top.hi \in Nat
      /\ status[Top.dst] = "UP" /\ Top.hi = written[Top.dst]
      /\ 1 <= Top.lo /\ Top.lo <= Top.hi + 1
    BY <1>2, OpFacts
<1>p. PICK u \in Trans, x \in Nat, y \in Nat : u = Top.dst /\ x = Top.lo /\ y = Top.hi
    BY <1>o
<1>3. status[u] = "UP" /\ Up(u) /\ Writing /\ LastHanded(u) = x - 1
    BY <1>2, <1>o, <1>p DEF Up, Writing, LastHanded
<1>4. \A t \in Trans : (Broken(t)' => Broken(t)) /\ (Up(t)' <=> Up(t))
    BY <1>2 DEF Broken, Up
<1>5. \A t \in Trans : written[t] \in Nat
    BY <1>1 DEF TypeOK
<1>6. CASE SendWaiting(u) /\ UNCHANGED stack
    <2>1. written' = written
        BY <1>1, <1>6, SendWaitingOK
    <2>2. \A t \in Trans : LastHanded(t)' = LastHanded(t)
        BY <1>6, <2>1 DEF LastHanded, Writing, Top
    <2>3. BytesStep /\ GoneOK'
        BY <1>1, <1>2, <1>3, <1>6, <2>2, SendWaitingMoves
    <2>4. NestOK' /\ DownOK'
        BY <1>1, <1>4, <1>6, CallsStay
    <2> QED BY <2>3, <2>4 DEF CallsInv
<1>7. ASSUME wait_s[u] = <<>>, x <= y, NEW k \in Takes(u, y - x + 1),
             wire' = [wire EXCEPT ![u] = wire[u] \o Bytes(x, x + k - 1)],
             stack' = SetTop([Top EXCEPT !.lo = x + k]),
             UNCHANGED <<wait_s, written>>
      PROVE  BytesStep /\ CallsInv'
    <2>1. k \in Nat
        <3>1. y - x + 1 \in Nat
            BY <1>7
        <3> QED BY <1>1, <3>1, TakesBound
    <2>2. PICK l \in Nat : l = Len(wire[u])
        <3>1. wire[u] \in Seq(Nat)
            BY <1>1 DEF TypeOK
        <3> QED BY <3>1
    <2>3. x = l + 1
        <3>1. Tiles(wait_s[u], l, x - 1)
            BY <1>1, <1>3, <2>2 DEF BytesInv, TiledOK
        <3>2. x - 1 = l
            BY <1>7, <3>1 DEF Tiles, LastOf
        <3> QED BY <3>2
    <2>4. /\ WireOK' /\ Len(wire'[u]) = l + k
          /\ \A t \in Trans : t # u => wire'[t] = wire[t]
        BY <1>1, <1>7, <2>1, <2>2, <2>3, WireGrows DEF BytesInv
    <2> DEFINE f == [Top EXCEPT !.lo = x + k]
    <2>5. x + k \in Nat /\ x + k - 1 = l + k
        BY <2>1, <2>3
    <2>6. f \in Frame /\ f.t = Top.t /\ f.pc = "force" /\ f.dst = u /\ f.lo = x + k
        BY <1>2, <1>o, <1>p, <2>5 DEF Frame
    <2>7. stack' = SetTop(f)
        BY <1>7
    <2> HIDE DEF f
    <2>8. stack' # <<>> /\ Top' = f
        <3>1. /\ SetTop(f) # <<>> /\ Len(SetTop(f)) = Len(stack) /\ SetTop(f)[Len(stack)] = f
            BY <1>1, <1>2, <2>6, SetTopLemma
        <3> QED BY <2>7, <3>1 DEF Top
    <2>9. LastHanded(u)' = l + k
        <3>1. LastHanded(u)' = f.lo - 1
            BY <2>6, <2>8 DEF LastHanded, Writing
        <3>2. f.lo - 1 = l + k
            <4>1. PICK z \in Nat : z = f.lo
                BY <2>5, <2>6
            <4>2. z = x + k
                BY <2>6, <4>1
            <4>3. z - 1 = l + k
                BY <2>1, <2>3, <4>2
            <4> QED BY <4>1, <4>3, Zenon
        <3> QED BY <3>1, <3>2
    <2>10. ASSUME NEW t \in Trans, t # u PROVE LastHanded(t)' = LastHanded(t)
        BY <1>7, <1>p, <2>6, <2>8, <2>10 DEF LastHanded, Writing
    <2>11. TiledOK'
        <3> SUFFICES ASSUME NEW t \in Trans, Up(t)
                     PROVE  Tiles(wait_s'[t], Len(wire'[t]), LastHanded(t)')
            BY <1>4 DEF TiledOK
        <3>1. CASE t = u
            <4>1. wait_s'[t] = <<>> /\ Len(<<>>) = 0
                BY <1>7, <3>1
            <4> QED BY <2>4, <2>9, <3>1, <4>1 DEF Tiles, LastOf
        <3>2. CASE t # u
            BY <1>1, <1>7, <2>4, <2>10, <3>2 DEF BytesInv, TiledOK
        <3> QED BY <3>1, <3>2
    <2>12. ASSUME NEW t \in Trans PROVE StepOn(t)
        <3>1. CASE t = u
            <4>1. Len(wire[t]) <= Len(wire'[t])
                BY <2>1, <2>2, <2>4, <3>1
            <4> QED BY <1>3, <1>4, <1>7, <3>1, <4>1 DEF StepOn
        <3>2. CASE t # u
            <4>1. written[t] <= written'[t]
                BY <1>5, <1>7
            <4> QED BY <1>4, <2>4, <3>2, <4>1 DEF StepOn
        <3> QED BY <3>1, <3>2
    <2>13. NestOK' /\ DownOK'
        <3>1. f.dst = Chan /\ f.t # Chan
            BY <1>1, <1>2, <1>p, <2>6 DEF NestOK, At
        <3> QED BY <1>1, <1>2, <1>4, <2>6, <2>7, <3>1, TopMoves
    <2>14. GoneOK'
        BY <1>1, <1>2, <1>7, GoneStays
    <2> QED BY <2>4, <2>11, <2>12, <2>13, <2>14 DEF BytesStep, BytesInv, CallsInv
<1> QED BY <1>6, <1>7, <1>p DEF ForceSend, SendWaiting

\* trans_force_write_s gives up on chan_trans while the main loop, or the handler
\* of another transport that the main loop polled, is all that runs.
LEMMA OrderForceEnd ==
    ASSUME Inv1, OrderInv, ForceEnd
    PROVE  BytesStep /\ CallsInv'
<1>1. TypeOK /\ StackOK /\ BytesInv /\ NestOK /\ DownOK /\ GoneOK
    BY DEF Inv1, OrderInv, CallsInv
<1>2. /\ stack # <<>> /\ Top.pc = "force" /\ closed' = closed /\ UNCHANGED outVars
      /\ stack' = WriteDone("run")
    BY DEF ForceEnd, At
<1>o. /\ Top.dst \in Trans /\ Top.lo \in Nat /\ Top.hi \in Nat
      /\ status[Top.dst] = "UP" /\ Top.hi = written[Top.dst] /\ Top.lo <= Top.hi + 1
    BY <1>2, OpFacts
<1>p. PICK u \in Trans, x \in Nat, y \in Nat : u = Top.dst /\ x = Top.lo /\ y = Top.hi
    BY <1>o
<1>3. Writing /\ LastHanded(u) = x - 1 /\ u = Chan /\ Top.t # Chan
    BY <1>1, <1>2, <1>p DEF Writing, LastHanded, NestOK, At
<1>4. wait_s' = wait_s /\ wire' = wire /\ written' = written
    BY <1>2 DEF outVars
<1>5. \A t \in Trans : written[t] <= written'[t]
    <2>1. \A t \in Trans : written[t] \in Nat
        BY <1>1 DEF TypeOK
    <2> QED BY <1>4, <2>1
<1>6. CASE x > y /\ UNCHANGED status
    <2>1. \A t \in Trans : (Broken(t)' => Broken(t)) /\ (Up(t)' => Up(t))
        BY <1>2, <1>6 DEF Broken, Up
    <2>2. NestOK' /\ DownOK' /\ ~Writing'
        BY <1>1, <1>2, <2>1, WriteEnds
    <2>3. x - 1 = y /\ y = written[u]
        <3>1. x <= y + 1 /\ y = written[u]
            BY <1>o, <1>p
        <3> QED BY <1>6, <3>1
    <2>4. \A t \in Trans : LastHanded(t)' = LastHanded(t)
        <3> SUFFICES ASSUME NEW t \in Trans PROVE LastHanded(t)' = LastHanded(t)
            OBVIOUS
        <3>1. LastHanded(t)' = written[t]
            BY <1>4, <2>2 DEF LastHanded
        <3>2. CASE t = u
            BY <1>3, <2>3, <3>1, <3>2
        <3>3. CASE t # u
            BY <1>p, <3>1, <3>3 DEF LastHanded
        <3> QED BY <3>2, <3>3
    <2>5. BytesStep
        BY <1>1, <1>4, <1>5, <2>1, <2>4, NothingMoves
    <2>6. GoneOK'
        BY <1>1, <1>4, <1>6, GoneStays
    <2> QED BY <2>2, <2>5, <2>6 DEF CallsInv
<1>7. CASE GoDown(u)
    <2>1. status'[u] = "DOWN" /\ \A t \in Trans : t # u => status'[t] = status[t]
        BY <1>1, <1>7 DEF GoDown, TypeOK
    <2>2. \A t \in Trans : (t # u /\ Broken(t)' => Broken(t)) /\ (Up(t)' => Up(t) /\ t # u)
        BY <1>2, <2>1 DEF Broken, Up
    <2> DEFINE f == [Top EXCEPT !.pc = "run", !.dst = Client, !.lo = 1, !.hi = 0]
    <2>3. f \in Frame /\ f.t = Top.t /\ f.pc = "run"
        <3>1. Top \in Frame /\ Client \in Trans /\ "run" \in PCs
            BY <1>1, <1>2, TopFacts, TransAssumption DEF PCs
        <3>2. f \in Frame
            BY <3>1, FrameType
        <3> QED BY <3>1, <3>2 DEF Frame
    <2>4. stack' = SetTop(f)
        BY <1>2 DEF WriteDone
    <2> HIDE DEF f
    <2>5. /\ Len(stack) \in Nat \ {0} /\ Len(stack') = Len(stack) /\ stack' # <<>>
          /\ stack'[Len(stack)] = f /\ Top = stack[Len(stack)]
          /\ \A i \in 1 .. (Len(stack) - 1) : stack'[i] = stack[i]
        BY <1>1, <1>2, <2>3, <2>4, SetTopLemma, TopFacts
    <2>6. Top' = f
        BY <2>5 DEF Top
    <2>7. ~Writing'
        BY <2>3, <2>6 DEF Writing
    <2>8. Len(stack) <= 2
        BY <1>1, <1>3, <2>5 DEF NestOK
    <2>9. NestOK'
        BY <2>3, <2>5, <2>6, <2>8 DEF NestOK, At
    <2>10. ASSUME NEW t \in Trans, Broken(t)', NEW i \in 1 .. Len(stack'), stack'[i].t = t
           PROVE  stack'[i].pc = "check"
        <3>1. CASE t = u
            <4>1. stack[i].t = Chan
                BY <1>3, <2>3, <2>5, <2>10, <3>1
            <4>2. i # Len(stack)
                BY <1>3, <2>5, <4>1
            <4>3. i = 1
                BY <2>5, <2>8, <4>2
            <4>4. stack[1].t = NoTrans
                BY <1>1, <1>2 DEF StackOK
            <4> QED BY <4>1, <4>3, <4>4, TransAssumption
        <3>2. CASE t # u
            <4>1. Broken(t)
                BY <2>2, <2>10, <3>2
            <4>2. stack[i].t = t /\ i \in 1 .. Len(stack)
                BY <2>3, <2>5, <2>10
            <4>3. stack[i].pc = "check"
                BY <1>1, <4>1, <4>2 DEF DownOK
            <4>4. i # Len(stack)
                BY <1>2, <2>5, <4>3
            <4> QED BY <2>5, <4>2, <4>3, <4>4
        <3> QED BY <3>1, <3>2
    <2>11. DownOK'
        BY <2>10 DEF DownOK
    <2>12. \A t \in Trans : t # u => LastHanded(t)' = LastHanded(t)
        BY <1>4, <1>p, <2>7 DEF LastHanded
    <2>13. BytesStep
        BY <1>1, <1>4, <1>5, <2>2, <2>12, NothingMoves
    <2>14. GoneOK'
        <3>1. \A t \in Trans : status'[t] = "GONE" => status[t] = "GONE"
            BY <2>1
        <3> QED BY <1>1, <1>4, <3>1, GoneStays
    <2> QED BY <2>9, <2>11, <2>13, <2>14 DEF CallsInv
<1> QED BY <1>6, <1>7, <1>p DEF ForceEnd

\* Calls other than writes that move no byte.
LEMMA CheckStepMoves ==
    ASSUME Inv1, OrderInv, ~Writing, ~Writing', UNCHANGED <<outVars, closed>>,
           \A t \in Trans : status'[t] = status[t] \/ (status'[t] = "DOWN" /\ closed[t])
    PROVE  BytesStep /\ GoneOK' /\ \A t \in Trans : Broken(t)' => Broken(t)
<1>1. TypeOK /\ BytesInv /\ GoneOK
    BY DEF Inv1, OrderInv, CallsInv
<1>2. UNCHANGED <<wait_s, wire, written>>
    BY DEF outVars
<1>3. \A t \in Trans : (Up(t)' => Up(t)) /\ (Broken(t)' => Broken(t))
    BY DEF Up, Broken
<1>4. BytesStep
    BY <1>1, <1>2, <1>3, NoWriteStep
<1>5. GoneOK'
    <2>1. \A t \in Trans : status'[t] = "GONE" => status[t] = "GONE"
        OBVIOUS
    <2> QED BY <1>1, <1>2, <2>1, GoneStays
<1> QED BY <1>3, <1>4, <1>5

LEMMA GoDownOn ==
    ASSUME TypeOK, NEW u \in Trans, GoDown(u), closed[u]
    PROVE  \A t \in Trans : status'[t] = status[t] \/ (status'[t] = "DOWN" /\ closed[t])
    BY DEF GoDown, TypeOK

\* The return from a poll.
LEMMA ReturnMoves ==
    ASSUME Inv1, NestOK, DownOK, stack # <<>>, Top.pc \in {"check", "flush"},
           NEW rv, Return(rv), \A t \in Trans : Broken(t)' => Broken(t)
    PROVE  NestOK' /\ DownOK'
    BY TopLeaves DEF Inv1, Return

LEMMA ReturnEndsNoWrite ==
    ASSUME Inv1, stack # <<>>, Top.pc \in {"check", "flush"}, NEW rv, Return(rv)
    PROVE  ~Writing'
<1>1. Top.t \in Trans
    BY CheckerFacts
<1>2. Top'.pc \in {"run", "ckdel"}
    BY <1>1, PopOK DEF Inv1, Return
<1> QED BY <1>2 DEF Writing

\* Polls that read nothing, or read a part of a message or all of it.
LEMMA OrderCheck ==
    ASSUME Inv1, OrderInv, CheckNoRead \/ CheckReadPart \/ CheckDataIn
    PROVE  BytesStep /\ CallsInv'
<1>1. TypeOK /\ NestOK /\ DownOK
    BY DEF Inv1, OrderInv, CallsInv
<1>2. /\ stack # <<>> /\ Top.pc = "check" /\ status[Top.t] = "UP"
      /\ UNCHANGED <<status, outVars, closed>>
    BY DEF CheckNoRead, CheckReadPart, CheckDataIn, At
<1>3. ~Writing
    BY <1>2 DEF Writing
<1>b. \A t \in Trans : Broken(t)' => Broken(t)
    BY <1>2 DEF Broken
<1>4. CASE stack' = Goto("flush")
    <2>1. NestOK' /\ DownOK'
        BY <1>1, <1>2, <1>4, <1>b, GotoMoves DEF PCs
    <2>2. Top'.pc = "flush"
        <3>1. Top.t \in Trans
            BY <1>2, CheckerFacts
        <3> QED BY <1>2, <1>4, <3>1, GotoOK DEF Inv1, PCs
    <2>3. ~Writing'
        BY <2>2 DEF Writing
    <2>4. BytesStep /\ GoneOK'
        BY <1>2, <1>3, <2>3, CheckStepMoves
    <2> QED BY <2>1, <2>4 DEF CallsInv
<1>5. CASE stack' = SetTop([Top EXCEPT !.pc = "run", !.saved = cur_source])
    <2> DEFINE f == [Top EXCEPT !.pc = "run", !.saved = cur_source]
    <2>1. Top \in Frame /\ cur_source \in Trans \cup {NoTrans}
        BY <1>1, <1>2, TopFacts DEF TypeOK
    <2>2. f \in Frame /\ f.t = Top.t /\ f.pc = "run"
        BY <2>1 DEF Frame, PCs
    <2>3. stack' = SetTop(f)
        BY <1>5
    <2> HIDE DEF f
    <2>4. NestOK' /\ DownOK'
        BY <1>1, <1>2, <1>b, <2>2, <2>3, TopMoves
    <2>5. Top' = f
        <3>1. Len(SetTop(f)) = Len(stack) /\ SetTop(f)[Len(stack)] = f
            BY <1>1, <1>2, <2>2, SetTopLemma
        <3> QED BY <2>3, <3>1 DEF Top
    <2>6. ~Writing'
        BY <2>2, <2>5 DEF Writing
    <2>7. BytesStep /\ GoneOK'
        BY <1>2, <1>3, <2>6, CheckStepMoves
    <2> QED BY <2>4, <2>7 DEF CallsInv
<1> QED BY <1>4, <1>5 DEF CheckNoRead, CheckReadPart, CheckDataIn

LEMMA OrderCheckEnds ==
    ASSUME Inv1, OrderInv, CheckDown \/ CheckEof
    PROVE  BytesStep /\ CallsInv'
<1>1. TypeOK /\ NestOK /\ DownOK
    BY DEF Inv1, OrderInv, CallsInv
<1>2. /\ stack # <<>> /\ Top.pc = "check" /\ Return(TRUE)
      /\ UNCHANGED <<outVars, closed>>
    BY DEF CheckDown, CheckEof, At
<1>3. ~Writing /\ ~Writing'
    BY <1>2, ReturnEndsNoWrite DEF Writing
<1>4. \A t \in Trans : status'[t] = status[t] \/ (status'[t] = "DOWN" /\ closed[t])
    <2>1. CASE CheckDown
        BY <2>1 DEF CheckDown
    <2>2. CASE CheckEof
        <3>1. Top.t \in Trans /\ GoDown(Top.t) /\ avail[Top.t] = 0 /\ MayRead(Top.t)
            BY <1>2, <2>2, CheckerFacts DEF CheckEof
        <3>2. closed[Top.t]
            BY <3>1 DEF MayRead, CanRecv
        <3> QED BY <1>1, <3>1, <3>2, GoDownOn
    <2> QED BY <2>1, <2>2
<1>5. BytesStep /\ GoneOK' /\ \A t \in Trans : Broken(t)' => Broken(t)
    BY <1>2, <1>3, <1>4, CheckStepMoves
<1>6. NestOK' /\ DownOK'
    BY <1>1, <1>2, <1>5, ReturnMoves
<1> QED BY <1>5, <1>6 DEF CallsInv

LEMMA OrderDataInReturns ==
    ASSUME Inv1, OrderInv, DataInReturns
    PROVE  BytesStep /\ CallsInv'
<1>1. TypeOK /\ NestOK /\ DownOK
    BY DEF Inv1, OrderInv, CallsInv
<1>2. /\ stack # <<>> /\ Top.pc = "run" /\ UNCHANGED <<status, outVars, closed>>
    BY DEF DataInReturns, At
<1>b. \A t \in Trans : Broken(t)' => Broken(t)
    BY <1>2 DEF Broken
<1>3. PICK err \in BOOLEAN : stack' = SetTop([Top EXCEPT !.pc = "flush", !.err = err])
    BY DEF DataInReturns
<1> DEFINE f == [Top EXCEPT !.pc = "flush", !.err = err]
<1>4. f \in Frame /\ f.t = Top.t /\ f.pc = "flush"
    <2>1. Top \in Frame
        BY <1>1, <1>2, TopFacts
    <2> QED BY <2>1 DEF Frame, PCs
<1>5. stack' = SetTop(f)
    BY <1>3
<1> HIDE DEF f
<1>6. NestOK' /\ DownOK'
    BY <1>1, <1>2, <1>b, <1>4, <1>5, TopMoves
<1>7. Top' = f
    <2>1. Len(SetTop(f)) = Len(stack) /\ SetTop(f)[Len(stack)] = f
        BY <1>1, <1>2, <1>4, SetTopLemma
    <2> QED BY <1>5, <2>1 DEF Top
<1>8. ~Writing /\ ~Writing'
    BY <1>2, <1>4, <1>7 DEF Writing
<1>9. BytesStep /\ GoneOK'
    BY <1>2, <1>8, CheckStepMoves
<1> QED BY <1>6, <1>9 DEF CallsInv

LEMMA OrderPoll ==
    ASSUME Inv1, OrderInv, NEW t \in Trans, Poll(t)
    PROVE  BytesStep /\ CallsInv'
<1>1. TypeOK /\ NestOK /\ DownOK
    BY DEF Inv1, OrderInv, CallsInv
<1>2. /\ stack # <<>> /\ Top.pc = "run" /\ Len(stack) = 1
      /\ stack' = Append(stack, NewFrame(t, "check"))
      /\ UNCHANGED <<status, outVars, closed>>
    BY DEF Poll, At
<1>3. NewFrame(t, "check") \in Frame /\ NewFrame(t, "check").pc = "check"
    BY NewFrameType
<1>4. stack \in Seq(Frame)
    BY <1>1 DEF TypeOK
<1>5. NestOK' /\ DownOK'
    <2>1. \A u \in Trans : Broken(u)' =>
              \A i \in 1 .. Len(stack) : stack[i].t = u => stack[i].pc = "check"
        BY <1>1, <1>2 DEF DownOK, Broken
    <2>2. ~(Len(stack) > 1) /\ \A i \in 3 .. Len(stack) : stack[i].t = Chan
        BY <1>2
    <2> QED BY <1>1, <1>2, <1>3, <1>4, <2>1, <2>2, CallStarts
<1>6. ~Writing /\ ~Writing'
    <2>1. /\ Len(stack') = Len(stack) + 1
          /\ stack'[Len(stack) + 1] = NewFrame(t, "check")
        BY <1>2, <1>3, <1>4, PushLemma
    <2>2. Top'.pc = "check"
        BY <1>3, <2>1 DEF Top
    <2> QED BY <1>2, <2>2 DEF Writing
<1>7. BytesStep /\ GoneOK'
    BY <1>2, <1>6, CheckStepMoves
<1> QED BY <1>5, <1>7 DEF CallsInv

LEMMA OrderCheckChan ==
    ASSUME Inv1, OrderInv, CheckChan
    PROVE  BytesStep /\ CallsInv'
<1>1. TypeOK /\ NestOK /\ DownOK /\ StackOK
    BY DEF Inv1, OrderInv, CallsInv
<1>2. stack # <<>> /\ Top.pc = "poll" /\ UNCHANGED <<status, outVars, closed>>
    BY DEF CheckChan, At
<1>b. \A t \in Trans : Broken(t)' => Broken(t)
    BY <1>2 DEF Broken
<1>d. Top.t \in Draws /\ Top = stack[Len(stack)] /\ Len(stack) \in Nat \ {0}
    BY <1>1, <1>2, TopFacts DEF StackOK
<1>3. CASE stack' = Goto("run")
    <2>1. NestOK' /\ DownOK'
        BY <1>1, <1>2, <1>3, <1>b, GotoMoves DEF PCs
    <2>2. Top'.pc = "run"
        BY <1>1, <1>2, <1>3, GotoOK DEF PCs
    <2>3. ~Writing /\ ~Writing'
        BY <1>2, <2>2 DEF Writing
    <2>4. BytesStep /\ GoneOK'
        BY <1>2, <2>3, CheckStepMoves
    <2> QED BY <2>1, <2>4 DEF CallsInv
<1>4. CASE stack' = Append(Goto("ckdel"), NewFrame(Chan, "check"))
    <2> DEFINE g == [Top EXCEPT !.pc = "ckdel"]
               s == Goto("ckdel")
               f == NewFrame(Chan, "check")
    <2>1. g \in Frame /\ g.t = Top.t /\ g.pc = "ckdel"
        <3>1. Top \in Frame
            BY <1>1, <1>2, TopFacts
        <3> QED BY <3>1 DEF Frame, PCs
    <2>2. s = SetTop(g)
        BY DEF Goto
    <2>3. f \in Frame /\ f.t = Chan /\ f.pc = "check"
        BY NewFrameType, TransAssumption
    <2>4. stack' = Append(s, f)
        BY <1>4
    <2> HIDE DEF g, s, f
    <2>5. /\ s \in Seq(Frame) /\ Len(s) = Len(stack) /\ s[Len(stack)] = g
          /\ \A i \in 1 .. (Len(stack) - 1) : s[i] = stack[i]
        BY <1>1, <1>2, <2>1, <2>2, SetTopLemma
    <2>6. \A i \in 3 .. Len(s) : s[i].t = Chan
        BY <1>1, <1>d, <2>1, <2>5 DEF NestOK
    <2>7. ASSUME NEW t \in Trans, Broken(t)', NEW i \in 1 .. Len(s), s[i].t = t
          PROVE  s[i].pc = "check"
        <3>1. \A j \in 1 .. Len(stack) : stack[j].t = t => stack[j].pc = "check"
            BY <1>1, <1>b, <2>7 DEF DownOK
        <3>2. i # Len(stack)
            BY <1>2, <1>d, <2>1, <2>5, <2>7, <3>1
        <3> QED BY <2>5, <2>7, <3>1, <3>2
    <2>8. NestOK' /\ DownOK'
        BY <1>1, <2>3, <2>4, <2>5, <2>6, <2>7, CallStarts
    <2>9. ~Writing /\ ~Writing'
        <3>1. Len(stack') = Len(s) + 1 /\ stack'[Len(s) + 1] = f
            BY <2>3, <2>4, <2>5, PushLemma
        <3>2. Top'.pc = "check"
            BY <2>3, <3>1 DEF Top
        <3> QED BY <1>2, <3>2 DEF Writing
    <2>10. BytesStep /\ GoneOK'
        BY <1>2, <2>9, CheckStepMoves
    <2> QED BY <2>8, <2>10 DEF CallsInv
<1> QED BY <1>3, <1>4 DEF CheckChan

\* A transport that is still polled is flushed only while it is up, or when there is
\* nothing to send.
LEMMA OrderFlush ==
    ASSUME Inv1, OrderInv, Flush
    PROVE  BytesStep /\ CallsInv'
<1>1. TypeOK /\ BytesInv /\ NestOK /\ DownOK /\ GoneOK
    BY DEF Inv1, OrderInv, CallsInv
<1>2. stack # <<>> /\ Top.pc = "flush" /\ closed' = closed
    BY DEF Flush, At
<1>3. Top.t \in Trans /\ Len(stack) \in Nat \ {0} /\ Top = stack[Len(stack)]
    BY <1>1, <1>2, CheckerFacts, TopFacts
<1>p. PICK u \in Trans : u = Top.t
    BY <1>3
<1>4. PICK rv : Return(rv)
    BY DEF Flush
<1>5. ~Writing /\ ~Writing'
    BY <1>2, <1>4, ReturnEndsNoWrite DEF Writing
<1>6. CASE closed[u] /\ GoDown(u) /\ UNCHANGED outVars
    <2>1. BytesStep /\ GoneOK' /\ \A t \in Trans : Broken(t)' => Broken(t)
        BY <1>1, <1>2, <1>5, <1>6, GoDownOn, CheckStepMoves
    <2>2. NestOK' /\ DownOK'
        BY <1>1, <1>2, <1>4, <2>1, ReturnMoves
    <2> QED BY <2>1, <2>2 DEF CallsInv
<1>7. CASE SendWaiting(u) /\ UNCHANGED status
    <2>1. \A t \in Trans : Broken(t)' => Broken(t)
        BY <1>2, <1>7 DEF Broken
    <2>2. NestOK' /\ DownOK'
        BY <1>1, <1>2, <1>4, <2>1, ReturnMoves
    <2>3. CASE status[u] = "UP"
        <3>1. written' = written
            BY <1>1, <1>7, SendWaitingOK DEF Inv1
        <3>2. \A t \in Trans : LastHanded(t)' = LastHanded(t)
            BY <1>5, <3>1 DEF LastHanded
        <3>3. BytesStep /\ GoneOK'
            BY <1>1, <1>2, <1>7, <2>3, <3>2, SendWaitingMoves
        <3> QED BY <2>2, <3>3 DEF CallsInv
    <2>4. CASE status[u] # "UP"
        <3>1. closed[u] \/ wait_s[u] = <<>>
            <4>1. CASE status[u] = "GONE"
                BY <1>1, <4>1 DEF GoneOK
            <4>2. CASE status[u] = "DOWN"
                <5>1. ~Broken(u)
                    BY <1>1, <1>2, <1>3, <1>p DEF DownOK
                <5> QED BY <4>2, <5>1 DEF Broken
            <4>3. status[u] \in {"UP", "DOWN", "GONE"}
                BY <1>1 DEF TypeOK
            <4> QED BY <2>4, <4>1, <4>2, <4>3
        <3>2. UNCHANGED outVars
            BY <1>7, <3>1 DEF SendWaiting
        <3>3. BytesStep /\ GoneOK'
            BY <1>2, <1>5, <1>7, <3>2, CheckStepMoves
        <3> QED BY <2>2, <3>3 DEF CallsInv
    <2> QED BY <2>3, <2>4
<1> QED BY <1>6, <1>7, <1>p DEF Flush, SendWaitingFails

\* trans_delete gives up what waits on chan_trans.
LEMMA DeleteMoves ==
    ASSUME Inv1, OrderInv, trans_delete(Chan), ~Writing, ~Writing', closed' = closed
    PROVE  BytesStep /\ GoneOK' /\ \A t \in Trans : Broken(t)' => Broken(t)
<1>1. TypeOK /\ BytesInv /\ GoneOK /\ Chan \in Trans
    BY TransAssumption DEF Inv1, OrderInv, CallsInv
<1>2. /\ status'[Chan] = "GONE" /\ wait_s'[Chan] = <<>>
      /\ \A t \in Trans : t # Chan => status'[t] = status[t] /\ wait_s'[t] = wait_s[t]
      /\ UNCHANGED <<wire, written>>
    BY <1>1 DEF trans_delete, TypeOK
<1>3. \A t \in Trans : (Up(t)' => Up(t) /\ t # Chan) /\ (Broken(t)' => Broken(t))
    BY <1>2 DEF Up, Broken
<1>4. BytesStep
    BY <1>1, <1>2, <1>3, NoWriteStep
<1>5. GoneOK'
    BY <1>1, <1>2, GoneStays
<1> QED BY <1>3, <1>4, <1>5

LEMMA OrderDelete ==
    ASSUME Inv1, OrderInv, CheckChanEnds \/ DeleteChan
    PROVE  BytesStep /\ CallsInv'
<1>1. TypeOK /\ NestOK /\ DownOK
    BY DEF Inv1, OrderInv, CallsInv
<1>2. stack # <<>> /\ Top.pc \in {"ckdel", "run"} /\ closed' = closed
    BY DEF CheckChanEnds, DeleteChan, At
<1>3. \/ Top.pc = "ckdel" /\ stack' = Goto("run")
      \/ stack' = stack
    BY DEF CheckChanEnds, DeleteChan, At
<1>4. ~Writing /\ ~Writing'
    <2>1. CASE Top.pc = "ckdel" /\ stack' = Goto("run")
        <3>1. Top'.pc = "run"
            BY <1>2, <2>1, GotoOK DEF Inv1, PCs
        <3> QED BY <2>1, <3>1 DEF Writing
    <2>2. CASE stack' = stack
        <3>1. Top' = Top
            BY <2>2 DEF Top
        <3> QED BY <1>2, <3>1 DEF Writing
    <2> QED BY <1>3, <2>1, <2>2
<1>5. BytesStep /\ GoneOK' /\ \A t \in Trans : Broken(t)' => Broken(t)
    <2>1. CASE trans_delete(Chan)
        BY <1>2, <1>4, <2>1, DeleteMoves
    <2>2. CASE UNCHANGED <<status, outVars, doomed>>
        <3>1. \A t \in Trans : status'[t] = status[t]
            BY <2>2
        <3>2. UNCHANGED <<outVars, closed>>
            BY <1>2, <2>2
        <3> QED BY <1>4, <3>1, <3>2, CheckStepMoves
    <2> QED BY <2>1, <2>2 DEF CheckChanEnds, DeleteChan
<1>6. NestOK' /\ DownOK'
    <2>1. CASE Top.pc = "ckdel" /\ stack' = Goto("run")
        BY <1>1, <1>2, <1>5, <2>1, GotoMoves DEF PCs
    <2>2. CASE stack' = stack
        BY <1>1, <1>5, <2>2, CallsStay
    <2> QED BY <1>3, <2>1, <2>2
<1> QED BY <1>5, <1>6 DEF CallsInv

LEMMA OrderStops ==
    ASSUME Inv1, OrderInv, LoopBreaks \/ HandlerDies
    PROVE  BytesStep /\ CallsInv'
<1>1. /\ stack # <<>> /\ Top.pc = "run" /\ stack' = <<>>
      /\ UNCHANGED <<status, outVars, closed>>
    BY DEF LoopBreaks, HandlerDies, At
<1>2. ~Writing /\ ~Writing'
    BY <1>1 DEF Writing
<1>3. BytesStep /\ GoneOK'
    BY <1>1, <1>2, CheckStepMoves
<1>4. NestOK' /\ DownOK'
    BY <1>1, CallsEnd
<1> QED BY <1>3, <1>4 DEF CallsInv

LEMMA OrderNext ==
    ASSUME Inv1, OrderInv, [Next]_vars
    PROVE  OrderInv' /\ \A t \in Trans : StepOn(t)
<1>1. CASE Write
    <2>1. PICK u \in Trans, n \in 0 .. MaxWrite : StartCopy(u, n) \/ StartForce(u, n)
        BY <1>1 DEF Write
    <2>2. n \in Nat
        BY TransAssumption
    <2> QED BY <2>1, <2>2, OrderStartWrite DEF StartCopy, StartForce, BytesStep, OrderInv
<1>2. CASE Peer \/ SignalTerm \/ UNCHANGED vars
    BY <1>2, OrderPeer DEF BytesStep, OrderInv
<1>3. CASE WriteStep
    BY <1>3, OrderCopyLeftOver, OrderCopyNew, OrderForceSend, OrderForceEnd
       DEF WriteStep, BytesStep, OrderInv
<1>4. CASE \E t \in Trans : Poll(t)
    BY <1>4, OrderPoll DEF BytesStep, OrderInv
<1>5. CASE CheckStep
    BY <1>5, OrderCheckChan, OrderCheck, OrderCheckEnds, OrderDataInReturns, OrderFlush,
       OrderDelete, OrderStops DEF CheckStep, BytesStep, OrderInv
<1> QED BY <1>1, <1>2, <1>3, <1>4, <1>5 DEF Next, Stopped

-----------------------------------------------------------------------------
(* The theorems. *)

\* What waits and what is being written follow the wire on every transport that is
\* up (wait_s and the locals of trans_write_copy_s and trans_force_write_s).
THEOREM OrderInvHolds == Spec => []OrderInv
<1>1. Init => OrderInv
    BY OrderInit
<1>2. Inv1 /\ OrderInv /\ [Next]_vars => OrderInv'
    BY OrderNext
<1> QED BY <1>1, <1>2, Inv1Always, PTL DEF Spec

\* The bytes accepted on a transport are in order those on the wire, those that
\* wait and those of the write in progress, whatever the nesting of the polls.
THEOREM BytesInOrderHolds == Spec => []BytesInOrder
<1>1. ASSUME Inv1, OrderInv PROVE BytesInOrder
    <2> SUFFICES ASSUME NEW t \in Trans
                 PROVE  /\ wire[t] = Bytes(1, Len(wire[t]))
                        /\ Up(t) => wire[t] \o Waiting(t) \o InProgress(t)
                                        = Bytes(1, written[t])
        BY DEF BytesInOrder
    <2>1. WireOK /\ TiledOK
        BY <1>1 DEF OrderInv, BytesInv
    <2>2. ASSUME Up(t)
          PROVE  wire[t] \o Waiting(t) \o InProgress(t) = Bytes(1, written[t])
        <3>1. PICK a \in Nat, b \in Nat, c \in Nat :
                  /\ a = Len(wire[t]) /\ b = LastHanded(t) /\ c = written[t]
                  /\ a <= b /\ b <= c
                  /\ Waiting(t) = Bytes(a + 1, b) /\ InProgress(t) = Bytes(b + 1, c)
            BY <1>1, <2>1, <2>2, Streams
        <3>2. Bytes(1, a) \o Bytes(a + 1, b) = Bytes(1, b)
            <4>1. 1 \in Nat /\ a \in Int /\ b \in Int /\ 1 - 1 <= a /\ a <= b
                BY <3>1
            <4> QED BY <4>1, BytesJoin
        <3>3. Bytes(1, b) \o Bytes(b + 1, c) = Bytes(1, c)
            <4>1. 1 \in Nat /\ b \in Int /\ c \in Int /\ 1 - 1 <= b /\ b <= c
                BY <3>1
            <4> QED BY <4>1, BytesJoin
        <3>4. wire[t] = Bytes(1, a)
            BY <2>1, <3>1 DEF WireOK
        <3> QED BY <3>1, <3>2, <3>3, <3>4
    <2> QED BY <2>1, <2>2 DEF WireOK
<1>2. Inv1 /\ OrderInv => BytesInOrder
    BY <1>1
<1> QED BY <1>2, Inv1Always, OrderInvHolds, PTL

LEMMA PendingHolds == Spec => []PendingOK
<1>1. Inv1 /\ OrderInv => PendingOK
    BY PendingIs DEF OrderInv, BytesInv
<1> QED BY <1>1, Inv1Always, OrderInvHolds, PTL

\* Each transport implements a ByteChannel: every byte a write accepts reaches the
\* wire once, in order, and is given up only when the connection breaks
\* (trans_write_copy_s, trans_force_write_s, trans_send_waiting, trans_delete).
THEOREM ReliableBytesHolds == Spec => ReliableBytes
<1>1. ASSUME Init PROVE \A t \in Trans : Channel(t)!Init
    <2> SUFFICES ASSUME NEW t \in Trans PROVE Channel(t)!Init
        OBVIOUS
    <2>1. Up(t) /\ wire[t] = <<>>
        BY <1>1 DEF Init, Up
    <2>2. Waiting(t) \o InProgress(t) = <<>>
        <3>1. /\ Len(wire[t]) = 0 /\ written[t] = 0
              /\ Waiting(t) \o InProgress(t) = Bytes(Len(wire[t]) + 1, written[t])
            <4>1. PendingOK
                BY <1>1, Inv1Init, OrderInit, PendingIs DEF OrderInv, BytesInv
            <4> QED BY <1>1, <2>1, <4>1 DEF PendingOK, Init
        <3>2. Bytes(1, 1 - 1) = <<>> /\ 1 - 1 = 0 /\ 0 + 1 = 1
            BY BytesEmpty
        <3> QED BY <3>1, <3>2
    <2>3. Up(t) = TRUE
        BY <2>1 DEF Up
    <2> QED BY <2>1, <2>2, <2>3 DEF Channel!Init
<1>2. ASSUME Inv1, OrderInv, OrderInv', PendingOK, PendingOK', [Next]_vars
      PROVE  \A t \in Trans : [Channel(t)!Next]_(Channel(t)!vars)
    BY <1>2, OrderNext, ChannelStep DEF OrderInv, BytesInv
<1> DEFINE Start == \A t \in Trans : Channel(t)!Init
           Step == \A t \in Trans : [Channel(t)!Next]_(Channel(t)!vars)
<1>3. Init => Start
    BY <1>1
<1>4. Inv1 /\ OrderInv /\ OrderInv' /\ PendingOK /\ PendingOK' /\ [Next]_vars => Step
    BY <1>2
<1> HIDE DEF Start, Step
<1>5. Spec => Start /\ [][Step]_vars
    BY <1>3, <1>4, Inv1Always, OrderInvHolds, PendingHolds, PTL DEF Spec
<1> QED BY <1>5 DEF ReliableBytes, Start, Step
=============================================================================

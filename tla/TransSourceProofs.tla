------------------------- MODULE TransSourceProofs -------------------------
(***************************************************************************)
(* Proofs that si->source[] counts exactly the bytes that wait because of  *)
(* each source, and what follows from it: back-pressure, and the source    *)
(* that stays blocked when trans_delete throws its bytes away.  Then the   *)
(* calls on the stack: no running call works on a deleted transport, as    *)
(* long as the handler of chan_trans sends no drawing PDU, that is,        *)
(* without rail orders; and cur_source is always the transport of the      *)
(* innermost handler.                                                      *)
(***************************************************************************)
EXTENDS TransProofs

-----------------------------------------------------------------------------
(* The owed bytes of one waiting list, as a function of the list. *)

OwedOf(q, w, s) ==
    {i \in 1 .. w : \E k \in DOMAIN q : q[k].src = s /\ i \in q[k].lo .. q[k].hi}

Ordered(q, w) ==
    /\ q \in Seq(Item) /\ w \in Nat /\ Len(q) \in Nat
    /\ \A k \in 1 .. Len(q) :
          /\ q[k].lo \in Nat /\ q[k].hi \in Nat
          /\ 1 <= q[k].lo /\ q[k].lo <= q[k].hi /\ q[k].hi <= w
    /\ \A j, k \in 1 .. Len(q) : j < k => q[j].hi < q[k].lo

LEMMA OrderedLists ==
    ASSUME TypeOK, QueueOK, NEW t \in Trans
    PROVE  Ordered(wait_s[t], written[t])
    BY ItemFacts DEF Ordered

LEMMA OrderedIntro ==
    ASSUME NEW q \in Seq(Item), NEW w \in Nat,
           \A k \in 1 .. Len(q) : 1 <= q[k].lo /\ q[k].lo <= q[k].hi /\ q[k].hi <= w,
           \A j, k \in 1 .. Len(q) : j < k => q[j].hi < q[k].lo
    PROVE  Ordered(q, w)
<1>1. \A k \in 1 .. Len(q) : q[k] \in Item
    BY ElementOfSeq
<1>2. \A k \in 1 .. Len(q) : q[k].lo \in Nat /\ q[k].hi \in Nat
    BY <1>1 DEF Item
<1> QED BY <1>2 DEF Ordered

LEMMA OwedOfMember ==
    ASSUME NEW q, NEW w, Ordered(q, w), NEW s, NEW i
    PROVE  i \in OwedOf(q, w, s) <=>
               /\ i \in Nat
               /\ \E k \in 1 .. Len(q) : q[k].src = s /\ q[k].lo <= i /\ i <= q[k].hi
<1>1. DOMAIN q = 1 .. Len(q) /\ w \in Nat
    BY DEF Ordered
<1>2. \A k \in 1 .. Len(q) : /\ q[k].lo \in Nat /\ q[k].hi \in Nat
                             /\ 1 <= q[k].lo /\ q[k].hi <= w
    BY DEF Ordered
<1>3. ASSUME i \in OwedOf(q, w, s)
      PROVE  i \in Nat /\ \E k \in 1 .. Len(q) : q[k].src = s /\ q[k].lo <= i /\ i <= q[k].hi
    BY <1>1, <1>2, <1>3 DEF OwedOf
<1>4. ASSUME i \in Nat, NEW k \in 1 .. Len(q), q[k].src = s, q[k].lo <= i, i <= q[k].hi
      PROVE  i \in OwedOf(q, w, s)
    BY <1>1, <1>2, <1>4 DEF OwedOf
<1> QED BY <1>3, <1>4

\* More bytes written owe nothing by themselves.
LEMMA OwedWiden ==
    ASSUME NEW q, NEW w, Ordered(q, w), NEW v \in Nat, w <= v, NEW s
    PROVE  OwedOf(q, v, s) = OwedOf(q, w, s)
<1>1. Ordered(q, v)
    BY DEF Ordered
<1>2. \A i : i \in OwedOf(q, v, s) <=> i \in OwedOf(q, w, s)
    BY <1>1, OwedOfMember
<1> QED BY <1>2 DEF OwedOf

\* A send of k bytes of the first stream pays exactly those bytes.
LEMMA OwedRest ==
    ASSUME NEW q, NEW w, Ordered(q, w), q # <<>>, NEW k \in Nat,
           k <= q[1].hi - q[1].lo + 1, Ordered(RestOf(q, k), w), NEW s
    PROVE  /\ q[1].src # s => OwedOf(RestOf(q, k), w, s) = OwedOf(q, w, s)
           /\ q[1].src = s =>
                 /\ OwedOf(RestOf(q, k), w, s)
                        = OwedOf(q, w, s) \ (q[1].lo .. (q[1].lo + k - 1))
                 /\ (q[1].lo .. (q[1].lo + k - 1)) \subseteq OwedOf(q, w, s)
<1> DEFINE r == RestOf(q, k)
           paid == q[1].lo .. (q[1].lo + k - 1)
<1>1. q \in Seq(Item) /\ Len(q) \in Nat \ {0} /\ 1 \in 1 .. Len(q)
    BY DEF Ordered
<1>2. /\ k = q[1].hi - q[1].lo + 1 =>
            /\ Len(r) = Len(q) - 1
            /\ \A j \in 1 .. (Len(q) - 1) : r[j] = q[j + 1]
      /\ k # q[1].hi - q[1].lo + 1 =>
            /\ Len(r) = Len(q)
            /\ r[1] = [lo |-> q[1].lo + k, hi |-> q[1].hi, src |-> q[1].src]
            /\ \A j \in 2 .. Len(q) : r[j] = q[j]
    BY <1>1, RestOfLemma
<1> HIDE DEF r
<1>3. \A j \in 1 .. Len(q) : q[j].lo \in Nat /\ q[j].hi \in Nat /\ (j > 1 => q[1].hi < q[j].lo)
    BY <1>1 DEF Ordered
<1>4. \A i \in Nat :
        (\E j \in 1 .. Len(r) : r[j].src = s /\ r[j].lo <= i /\ i <= r[j].hi)
        <=> /\ \E j \in 1 .. Len(q) : q[j].src = s /\ q[j].lo <= i /\ i <= q[j].hi
            /\ i \notin paid
    <2> TAKE i \in Nat
    <2>1. ASSUME NEW j \in 1 .. Len(r), r[j].src = s, r[j].lo <= i, i <= r[j].hi
          PROVE  /\ \E m \in 1 .. Len(q) : q[m].src = s /\ q[m].lo <= i /\ i <= q[m].hi
                 /\ i \notin paid
        <3>1. CASE k = q[1].hi - q[1].lo + 1
            <4>1. j + 1 \in 1 .. Len(q) /\ j + 1 > 1 /\ r[j] = q[j + 1]
                BY <1>1, <1>2, <3>1
            <4>2. q[j + 1].src = s /\ q[j + 1].lo <= i /\ i <= q[j + 1].hi
                BY <2>1, <4>1
            <4>3. q[1].hi < q[j + 1].lo /\ q[j + 1].lo \in Nat
                  /\ q[1].lo \in Nat /\ q[1].hi \in Nat
                BY <1>1, <1>3, <4>1
            <4>4. i \notin paid
                <5>1. q[1].lo + k - 1 = q[1].hi
                    BY <3>1, <4>3
                <5>2. q[1].lo + k - 1 < i
                    BY <4>2, <4>3, <5>1, SMTT(40)
                <5> QED BY <4>3, <5>2
            <4> QED BY <4>1, <4>2, <4>4
        <3>2. CASE k # q[1].hi - q[1].lo + 1 /\ j = 1
            <4>1. r[1].lo = q[1].lo + k /\ r[1].hi = q[1].hi /\ r[1].src = q[1].src
                BY <1>2, <3>2
            <4>2. q[1].src = s /\ q[1].lo + k <= i /\ i <= q[1].hi
                BY <2>1, <3>2, <4>1
            <4>3. i \notin paid /\ q[1].lo <= i
                BY <1>1, <1>3, <4>2
            <4> QED BY <1>1, <4>2, <4>3
        <3>3. CASE k # q[1].hi - q[1].lo + 1 /\ j # 1
            <4>1. j \in 1 .. Len(q) /\ j > 1 /\ r[j] = q[j]
                BY <1>1, <1>2, <3>3
            <4>2. q[j].src = s /\ q[j].lo <= i /\ i <= q[j].hi
                BY <2>1, <4>1
            <4>3. i \notin paid
                BY <1>1, <1>3, <4>1, <4>2, SMTT(40)
            <4> QED BY <4>1, <4>2, <4>3
        <3> QED BY <3>1, <3>2, <3>3
    <2>2. ASSUME NEW m \in 1 .. Len(q), q[m].src = s, q[m].lo <= i, i <= q[m].hi,
                 i \notin paid
          PROVE  \E j \in 1 .. Len(r) : r[j].src = s /\ r[j].lo <= i /\ i <= r[j].hi
        <3>1. CASE k = q[1].hi - q[1].lo + 1
            <4>1. m > 1
                BY <1>1, <1>3, <2>2, <3>1
            <4>2. m - 1 \in 1 .. Len(r) /\ r[m - 1] = q[m]
                <5>1. m - 1 \in 1 .. (Len(q) - 1) /\ (m - 1) + 1 = m
                    BY <1>1, <4>1
                <5> QED BY <1>2, <3>1, <5>1
            <4> QED BY <2>2, <4>2
        <3>2. CASE k # q[1].hi - q[1].lo + 1 /\ m = 1
            <4>1. r[1].lo = q[1].lo + k /\ r[1].hi = q[1].hi /\ r[1].src = q[1].src
                  /\ 1 \in 1 .. Len(r)
                BY <1>1, <1>2, <3>2
            <4>2. q[1].lo + k <= i
                BY <1>1, <1>3, <2>2, <3>2
            <4> QED BY <2>2, <3>2, <4>1, <4>2
        <3>3. CASE k # q[1].hi - q[1].lo + 1 /\ m # 1
            <4>1. m \in 1 .. Len(r) /\ r[m] = q[m]
                BY <1>1, <1>2, <3>3
            <4> QED BY <2>2, <4>1
        <3> QED BY <3>1, <3>2, <3>3
    <2> QED BY <2>1, <2>2
<1>5. \A i : i \in OwedOf(r, w, s) <=> i \in OwedOf(q, w, s) /\ i \notin paid
    BY <1>4, OwedOfMember, SMTT(40) DEF r
<1>6. CASE q[1].src = s
    <2>1. \A i \in paid : i \in Nat /\ q[1].lo <= i /\ i <= q[1].hi
        BY <1>1, <1>3
    <2>2. paid \subseteq OwedOf(q, w, s)
        BY <1>1, <1>6, <2>1, OwedOfMember
    <2>3. OwedOf(r, w, s) = OwedOf(q, w, s) \ paid
        BY <1>5
    <2> QED BY <1>6, <2>2, <2>3 DEF r
<1>7. CASE q[1].src # s
    <2>1. ASSUME NEW i \in OwedOf(q, w, s) PROVE i \notin paid
        <3>1. PICK m \in 1 .. Len(q) : q[m].src = s /\ q[m].lo <= i /\ i <= q[m].hi
            BY OwedOfMember
        <3>2. i \in Nat
            BY OwedOfMember
        <3>3. m > 1
            BY <1>1, <1>7, <3>1
        <3> QED BY <1>1, <1>3, <3>1, <3>2, <3>3
    <2>2. OwedOf(r, w, s) = OwedOf(q, w, s)
        BY <1>5, <2>1
    <2> QED BY <1>7, <2>2 DEF r
<1> QED BY <1>6, <1>7

\* A stream appended behind all the others owes exactly its own bytes.
LEMMA OwedAppend ==
    ASSUME NEW q, NEW w, Ordered(q, w), NEW h \in Item, Ordered(Append(q, h), w), NEW s
    PROVE  /\ h.src # s => OwedOf(Append(q, h), w, s) = OwedOf(q, w, s)
           /\ h.src = s =>
                 /\ OwedOf(Append(q, h), w, s) = OwedOf(q, w, s) \cup (h.lo .. h.hi)
                 /\ (h.lo .. h.hi) \cap OwedOf(q, w, s) = {}
                 /\ h.lo .. h.hi \subseteq 1 .. w
<1> DEFINE r == Append(q, h)
<1>1. /\ q \in Seq(Item) /\ Len(q) \in Nat /\ Len(r) = Len(q) + 1
      /\ r[Len(q) + 1] = h /\ \A j \in 1 .. Len(q) : r[j] = q[j]
    BY DEF Ordered
<1> HIDE DEF r
<1>2. /\ h.lo \in Nat /\ h.hi \in Nat /\ 1 <= h.lo /\ h.lo <= h.hi /\ h.hi <= w
      /\ w \in Nat
      /\ \A j \in 1 .. Len(q) : q[j].hi < h.lo /\ q[j].hi \in Nat
    <2>1. Ordered(r, w)
        BY DEF r
    <2>2. Len(q) + 1 \in 1 .. Len(r)
        BY <1>1
    <2> QED BY <1>1, <2>1, <2>2 DEF Ordered
<1>3. \A i \in Nat :
        (\E j \in 1 .. Len(r) : r[j].src = s /\ r[j].lo <= i /\ i <= r[j].hi)
        <=> \/ \E j \in 1 .. Len(q) : q[j].src = s /\ q[j].lo <= i /\ i <= q[j].hi
            \/ h.src = s /\ h.lo <= i /\ i <= h.hi
    <2> TAKE i \in Nat
    <2>1. \A j : j \in 1 .. Len(r) <=> (j \in 1 .. Len(q) \/ j = Len(q) + 1)
        BY <1>1
    <2> QED BY <1>1, <2>1
<1>4. \A i : i \in OwedOf(r, w, s) <=>
              \/ i \in OwedOf(q, w, s)
              \/ i \in Nat /\ h.src = s /\ h.lo <= i /\ i <= h.hi
    <2>1. \A i : i \in OwedOf(q, w, s) <=>
              i \in Nat /\ \E j \in 1 .. Len(q) : q[j].src = s /\ q[j].lo <= i /\ i <= q[j].hi
        BY OwedOfMember
    <2>2. \A i : i \in OwedOf(r, w, s) <=>
              i \in Nat /\ \E j \in 1 .. Len(r) : r[j].src = s /\ r[j].lo <= i /\ i <= r[j].hi
        <3>1. Ordered(r, w)
            BY DEF r
        <3> QED BY <3>1, OwedOfMember
    <2> QED BY <1>3, <2>1, <2>2
<1>5. CASE h.src # s
    BY <1>4, <1>5 DEF r
<1>6. CASE h.src = s
    <2>1. \A i : i \in h.lo .. h.hi <=> i \in Nat /\ h.lo <= i /\ i <= h.hi
        BY <1>2
    <2>2. OwedOf(r, w, s) = OwedOf(q, w, s) \cup (h.lo .. h.hi)
        BY <1>4, <1>6, <2>1
    <2>3. ASSUME NEW i \in OwedOf(q, w, s) PROVE i \notin h.lo .. h.hi
        <3>1. PICK m \in 1 .. Len(q) : q[m].lo <= i /\ i <= q[m].hi
            BY OwedOfMember
        <3>2. i \in Nat
            BY OwedOfMember
        <3> QED BY <1>2, <3>1, <3>2
    <2>4. h.lo .. h.hi \subseteq 1 .. w
        BY <1>2
    <2> QED BY <1>6, <2>2, <2>3, <2>4 DEF r
<1> QED BY <1>5, <1>6

-----------------------------------------------------------------------------
(* From one list to all: the bytes owed to one source. *)

LEMMA OwedIsOwedOf ==
    ASSUME NEW t, NEW s
    PROVE  /\ Owed(t, s) = OwedOf(wait_s[t], written[t], s)
           /\ Owed(t, s)' = OwedOf(wait_s'[t], written'[t], s)
    BY DEF Owed, OwedOf

LEMMA OwedToFinite ==
    ASSUME NEW s
    PROVE  IsFiniteSet(OwedTo(s)) /\ Cardinality(OwedTo(s)) \in Nat
<1>1. IsFiniteSet(1 .. MaxBytes)
    BY TransAssumption, FS_Interval
<1>2. IsFiniteSet(Trans \X (1 .. MaxBytes))
    BY <1>1, TransAssumption, FS_Product
<1>3. OwedTo(s) \subseteq Trans \X (1 .. MaxBytes)
    BY DEF OwedTo
<1>4. IsFiniteSet(OwedTo(s))
    BY <1>2, <1>3, FS_Subset
<1> QED BY <1>4, FS_CardinalityType

LEMMA PairsWith ==
    ASSUME NEW t, NEW D, IsFiniteSet(D)
    PROVE  IsFiniteSet({t} \X D) /\ Cardinality({t} \X D) = Cardinality(D)
<1>1. IsFiniteSet({t}) /\ Cardinality({t}) = 1
    BY FS_Singleton
<1>2. IsFiniteSet({t} \X D) /\ Cardinality({t} \X D) = 1 * Cardinality(D)
    BY <1>1, FS_Product
<1>3. Cardinality(D) \in Nat
    BY FS_CardinalityType
<1> QED BY <1>2, <1>3

\* Nothing changes for s.
LEMMA OwedToSame ==
    ASSUME NEW s, \A t \in Trans : Owed(t, s)' = Owed(t, s)
    PROVE  OwedTo(s)' = OwedTo(s)
    BY DEF OwedTo

\* The bytes D of t leave.
LEMMA OwedToShrinks ==
    ASSUME NEW s, NEW t \in Trans, NEW D, D \subseteq Owed(t, s), D \subseteq 1 .. MaxBytes,
           Owed(t, s)' = Owed(t, s) \ D,
           \A u \in Trans : u # t => Owed(u, s)' = Owed(u, s)
    PROVE  /\ Cardinality(OwedTo(s))' = Cardinality(OwedTo(s)) - Cardinality(D)
           /\ IsFiniteSet(D)
<1>1. IsFiniteSet(D)
    <2>1. IsFiniteSet(1 .. MaxBytes)
        BY TransAssumption, FS_Interval
    <2> QED BY <2>1, FS_Subset
<1>2. {t} \X D \subseteq OwedTo(s)
    BY DEF OwedTo
<1>3. OwedTo(s)' = OwedTo(s) \ ({t} \X D)
    <2> DEFINE All == Trans \X (1 .. MaxBytes)
    <2>1. \A b \in All : b \in {t} \X D <=> b[1] = t /\ b[2] \in D
        OBVIOUS
    <2>2. \A b \in All : b[2] \in Owed(b[1], s)' <=> 
              b[2] \in Owed(b[1], s) /\ ~(b[1] = t /\ b[2] \in D)
        <3> TAKE b \in All
        <3>1. CASE b[1] = t
            BY <3>1
        <3>2. CASE b[1] # t
            BY <3>2
        <3> QED BY <3>1, <3>2
    <2>3. OwedTo(s)' = {b \in All : b[2] \in Owed(b[1], s)'}
          /\ OwedTo(s) = {b \in All : b[2] \in Owed(b[1], s)}
        BY DEF OwedTo
    <2>4. {t} \X D \subseteq All
        OBVIOUS
    <2> HIDE DEF All
    <2> QED BY <2>1, <2>2, <2>3, <2>4
<1>4. OwedTo(s) \cap ({t} \X D) = {t} \X D
    BY <1>2
<1>5. Cardinality(OwedTo(s) \ ({t} \X D))
          = Cardinality(OwedTo(s)) - Cardinality(OwedTo(s) \cap ({t} \X D))
    BY OwedToFinite, FS_Difference
<1>6. Cardinality({t} \X D) = Cardinality(D)
    BY <1>1, PairsWith
<1> QED BY <1>1, <1>3, <1>4, <1>5, <1>6

\* The bytes D of t come to wait.
LEMMA OwedToGrows ==
    ASSUME NEW s, NEW t \in Trans, NEW D, D \cap Owed(t, s) = {}, D \subseteq 1 .. MaxBytes,
           Owed(t, s)' = Owed(t, s) \cup D,
           \A u \in Trans : u # t => Owed(u, s)' = Owed(u, s)
    PROVE  Cardinality(OwedTo(s))' = Cardinality(OwedTo(s)) + Cardinality(D)
<1>1. IsFiniteSet(D)
    <2>1. IsFiniteSet(1 .. MaxBytes)
        BY TransAssumption, FS_Interval
    <2> QED BY <2>1, FS_Subset
<1>2. OwedTo(s) \cap ({t} \X D) = {}
    BY DEF OwedTo
<1>3. OwedTo(s)' = OwedTo(s) \cup ({t} \X D)
    <2> DEFINE All == Trans \X (1 .. MaxBytes)
    <2>1. \A b \in All : b \in {t} \X D <=> b[1] = t /\ b[2] \in D
        OBVIOUS
    <2>2. \A b \in All : b[2] \in Owed(b[1], s)' <=> 
              b[2] \in Owed(b[1], s) \/ (b[1] = t /\ b[2] \in D)
        <3> TAKE b \in All
        <3>1. CASE b[1] = t
            BY <3>1
        <3>2. CASE b[1] # t
            BY <3>2
        <3> QED BY <3>1, <3>2
    <2>3. OwedTo(s)' = {b \in All : b[2] \in Owed(b[1], s)'}
          /\ OwedTo(s) = {b \in All : b[2] \in Owed(b[1], s)}
        BY DEF OwedTo
    <2>4. {t} \X D \subseteq All
        OBVIOUS
    <2> HIDE DEF All
    <2> QED BY <2>1, <2>2, <2>3, <2>4
<1>4. IsFiniteSet({t} \X D) /\ Cardinality({t} \X D) = Cardinality(D)
    BY <1>1, PairsWith
<1>5. Cardinality(OwedTo(s) \cup ({t} \X D))
          = Cardinality(OwedTo(s)) + Cardinality({t} \X D)
              - Cardinality(OwedTo(s) \cap ({t} \X D))
    BY <1>4, OwedToFinite, FS_Union
<1>6. Cardinality(OwedTo(s) \cap ({t} \X D)) = 0
    BY <1>2, FS_EmptySet
<1>7. Cardinality(D) \in Nat /\ Cardinality(OwedTo(s)) \in Nat
    BY <1>1, FS_CardinalityType, OwedToFinite
<1> QED BY <1>3, <1>4, <1>5, <1>6, <1>7

-----------------------------------------------------------------------------
(* The actions that change what is owed. *)

LEMMA SameAccounting ==
    ASSUME SourceAccounting, UNCHANGED <<wait_s, written, source, lost>>
    PROVE  SourceAccounting'
<1>1. \A s \in Trans : OwedTo(s)' = OwedTo(s)
    BY DEF OwedTo, Owed
<1> QED BY <1>1 DEF SourceAccounting

LEMMA SentHeadAccounting ==
    ASSUME TypeOK, QueueOK, SourceAccounting, NEW t \in Trans, wait_s[t] # <<>>,
           NEW k \in Takes(t, HeadLen(t)), SentHead(t, k)
    PROVE  SourceAccounting'
<1> DEFINE q == wait_s[t]
           w == written[t]
           paid == q[1].lo .. (q[1].lo + k - 1)
<1>1. /\ wait_s' \in [Trans -> Seq(Item)] /\ written' = written /\ lost' = lost
      /\ QueueOK' /\ k \in Nat /\ k <= HeadLen(t)
      /\ wait_s' = [wait_s EXCEPT ![t] = RestOf(q, k)]
    BY SentHeadOK
<1>2. wait_s'[t] = RestOf(q, k) /\ \A u \in Trans : u # t => wait_s'[u] = wait_s[u]
    BY <1>1 DEF TypeOK
<1>3. Ordered(q, w) /\ w \in Nat /\ w <= MaxBytes
    BY OrderedLists, ItemFacts
<1>4. Ordered(RestOf(q, k), w)
    <2>1. RestOf(q, k) \in Seq(Item)
        BY <1>1, <1>2
    <2>2. /\ \A j \in 1 .. Len(wait_s'[t]) :
                /\ 1 <= wait_s'[t][j].lo /\ wait_s'[t][j].lo <= wait_s'[t][j].hi
                /\ wait_s'[t][j].hi <= w
          /\ \A i, j \in 1 .. Len(wait_s'[t]) : i < j => wait_s'[t][i].hi < wait_s'[t][j].lo
        BY <1>1 DEF QueueOK
    <2> QED BY <1>2, <1>3, <2>1, <2>2, OrderedIntro
<1>5. q[1].lo \in Nat /\ q[1].hi \in Nat /\ k <= q[1].hi - q[1].lo + 1
    <2>1. Len(q) \in Nat /\ 1 \in 1 .. Len(q)
        BY <1>3 DEF Ordered
    <2> QED BY <1>1, <1>3, <2>1 DEF Ordered, HeadLen
<1>6. SUFFICES ASSUME NEW s \in Trans
               PROVE  source'[s] = Cardinality(OwedTo(s))' + lost'[s]
    BY DEF SourceAccounting
<1>7. source[s] = Cardinality(OwedTo(s)) + lost[s] /\ lost[s] \in Nat
      /\ Cardinality(OwedTo(s)) \in Nat /\ source[s] \in Int
    BY OwedToFinite DEF SourceAccounting, TypeOK
<1>8. \A u \in Trans : u # t => Owed(u, s)' = Owed(u, s)
    BY <1>1, <1>2, OwedIsOwedOf
<1>9. Owed(t, s) = OwedOf(q, w, s) /\ Owed(t, s)' = OwedOf(RestOf(q, k), w, s)
    BY <1>1, <1>2, OwedIsOwedOf
<1>10. CASE q[1].src # s
    <2>1. Owed(t, s)' = Owed(t, s)
        BY <1>1, <1>3, <1>4, <1>5, <1>9, <1>10, OwedRest
    <2>2. OwedTo(s)' = OwedTo(s)
        BY <1>8, <2>1, OwedToSame
    <2>3. source'[s] = source[s]
        BY <1>10 DEF SentHead, TypeOK
    <2> QED BY <1>1, <1>7, <2>2, <2>3
<1>11. CASE q[1].src = s
    <2>1. Owed(t, s)' = Owed(t, s) \ paid /\ paid \subseteq Owed(t, s)
        BY <1>1, <1>3, <1>4, <1>5, <1>9, <1>11, OwedRest
    <2>2. paid \subseteq 1 .. MaxBytes
        <3>1. paid \subseteq 1 .. w
            BY <1>9, <2>1 DEF OwedOf
        <3> QED BY <1>3, <3>1, TransAssumption
    <2>3. Cardinality(OwedTo(s))' = Cardinality(OwedTo(s)) - Cardinality(paid)
        BY <1>8, <2>1, <2>2, OwedToShrinks
    <2>4. Cardinality(paid) = k
        <3>1. q[1].lo \in Int /\ q[1].lo + k - 1 \in Int
            BY <1>1, <1>5
        <3>2. Cardinality(paid) = IF q[1].lo > q[1].lo + k - 1 THEN 0
                                  ELSE (q[1].lo + k - 1) - q[1].lo + 1
            BY <3>1, FS_Interval
        <3> QED BY <1>1, <1>5, <3>2
    <2>5. source' = [source EXCEPT ![s] = source[s] - k]
        BY <1>11, TransAssumption DEF SentHead
    <2>6. source'[s] = source[s] - k
        BY <2>5 DEF TypeOK
    <2> QED BY <1>1, <1>7, <2>3, <2>4, <2>6
<1> QED BY <1>10, <1>11

LEMMA StartWriteAccounting ==
    ASSUME TypeOK, QueueOK, SourceAccounting, NEW u \in Trans, NEW n \in Nat, NEW pc,
           StartWrite(u, n, pc)
    PROVE  SourceAccounting'
<1>1. /\ written' = [written EXCEPT ![u] = written[u] + n]
      /\ wait_s' = wait_s /\ source' = source /\ lost' = lost
    BY DEF StartWrite
<1>2. ASSUME NEW s \in Trans, NEW t \in Trans PROVE Owed(t, s)' = Owed(t, s)
    <2>1. written[t] \in Nat /\ written'[t] \in Nat /\ written[t] <= written'[t]
        <3>1. written \in [Trans -> Nat]
            BY DEF TypeOK
        <3> QED BY <1>1, <3>1
    <2>2. OwedOf(wait_s[t], written'[t], s) = OwedOf(wait_s[t], written[t], s)
        BY <2>1, OrderedLists, OwedWiden
    <2> QED BY <1>1, <2>2, OwedIsOwedOf
<1>3. \A s \in Trans : OwedTo(s)' = OwedTo(s)
    BY <1>2, OwedToSame
<1> QED BY <1>1, <1>3 DEF SourceAccounting

LEMMA AppendAccounting ==
    ASSUME TypeOK, QueueOK, SourceAccounting, NEW u \in Trans, NEW h \in Item,
           1 <= h.lo, h.lo <= h.hi, h.hi <= written[u],
           \A i \in 1 .. Len(wait_s[u]) : wait_s[u][i].hi < h.lo,
           wait_s' = [wait_s EXCEPT ![u] = Append(wait_s[u], h)],
           source' = IF h.src = NoTrans THEN source
                     ELSE [source EXCEPT ![h.src] = source[h.src] + (h.hi - h.lo + 1)],
           UNCHANGED <<written, lost>>
    PROVE  SourceAccounting'
<1> DEFINE q == wait_s[u]
           w == written[u]
<1>1. wait_s' \in [Trans -> Seq(Item)] /\ QueueOK'
    BY AppendOK
<1>2. wait_s'[u] = Append(q, h) /\ \A t \in Trans : t # u => wait_s'[t] = wait_s[t]
    BY DEF TypeOK
<1>3. Ordered(q, w) /\ w \in Nat /\ w <= MaxBytes
    BY OrderedLists, ItemFacts
<1>4. Ordered(Append(q, h), w)
    <2>1. Append(q, h) \in Seq(Item)
        BY <1>1, <1>2
    <2>2. /\ \A j \in 1 .. Len(wait_s'[u]) :
                /\ 1 <= wait_s'[u][j].lo /\ wait_s'[u][j].lo <= wait_s'[u][j].hi
                /\ wait_s'[u][j].hi <= w
          /\ \A i, j \in 1 .. Len(wait_s'[u]) : i < j => wait_s'[u][i].hi < wait_s'[u][j].lo
        BY <1>1 DEF QueueOK
    <2> QED BY <1>2, <1>3, <2>1, <2>2, OrderedIntro
<1>5. h.lo \in Nat /\ h.hi \in Nat
    BY DEF Item
<1>6. SUFFICES ASSUME NEW s \in Trans
               PROVE  source'[s] = Cardinality(OwedTo(s))' + lost'[s]
    BY DEF SourceAccounting
<1>7. source[s] = Cardinality(OwedTo(s)) + lost[s] /\ lost[s] \in Nat
      /\ Cardinality(OwedTo(s)) \in Nat /\ source[s] \in Int
    BY OwedToFinite DEF SourceAccounting, TypeOK
<1>8. \A t \in Trans : t # u => Owed(t, s)' = Owed(t, s)
    BY <1>2, OwedIsOwedOf
<1>9. Owed(u, s) = OwedOf(q, w, s) /\ Owed(u, s)' = OwedOf(Append(q, h), w, s)
    BY <1>2, OwedIsOwedOf
<1>10. source \in [Trans -> Int] /\ s # NoTrans /\ lost'[s] = lost[s]
    BY TransAssumption DEF TypeOK
<1>11. CASE h.src # s
    <2>1. Owed(u, s)' = Owed(u, s)
        BY <1>3, <1>4, <1>9, <1>11, OwedAppend
    <2>2. OwedTo(s)' = OwedTo(s)
        BY <1>8, <2>1, OwedToSame
    <2>3. source'[s] = source[s]
        BY <1>10, <1>11
    <2> QED BY <1>7, <1>10, <2>2, <2>3
<1>12. CASE h.src = s
    <2> DEFINE D == h.lo .. h.hi
    <2>1. Owed(u, s)' = Owed(u, s) \cup D /\ D \cap Owed(u, s) = {}
        BY <1>3, <1>4, <1>9, <1>12, OwedAppend
    <2>2. D \subseteq 1 .. MaxBytes
        BY <1>3, <1>5, TransAssumption
    <2>3. Cardinality(D) = h.hi - h.lo + 1
        <3>0. h.lo \in Int /\ h.hi \in Int
            BY <1>5
        <3>1. Cardinality(D) = IF h.lo > h.hi THEN 0 ELSE h.hi - h.lo + 1
            BY <3>0, FS_Interval
        <3> QED BY <1>5, <3>1
    <2> HIDE DEF D
    <2>4. Cardinality(OwedTo(s))' = Cardinality(OwedTo(s)) + Cardinality(D)
        BY <1>8, <2>1, <2>2, OwedToGrows
    <2>5. source'[s] = source[s] + (h.hi - h.lo + 1)
        BY <1>10, <1>12
    <2> QED BY <1>5, <1>7, <1>10, <2>3, <2>4, <2>5
<1> QED BY <1>11, <1>12

LEMMA CopyNewAccounting ==
    ASSUME Inv1, SourceAccounting, CopyNew
    PROVE  SourceAccounting'
<1> USE DEF Inv1
<1> DEFINE u == Top.dst
           n == Top.hi - Top.lo + 1
           c == ChargedTo(u)
<1>1. stack # <<>> /\ Top.pc = "copy2"
    BY DEF CopyNew, At
<1>2. /\ u \in Trans /\ Top.lo \in Nat /\ Top.hi \in Nat /\ Top.hi = written[u]
      /\ 1 <= Top.lo /\ Top.lo <= Top.hi + 1 /\ Top.hi <= MaxBytes
      /\ \A k \in 1 .. Len(wait_s[u]) : wait_s[u][k].hi < Top.lo
    BY <1>1, OpFacts
<1>3. CASE UNCHANGED <<wait_s, written, source, lost>>
    BY <1>3, SameAccounting
<1>4. ASSUME NEW k \in (IF wait_s[u] = <<>> /\ n > 0 THEN Takes(u, n) ELSE {0}),
             ~(n - k < 1),
             wait_s' = [wait_s EXCEPT ![u] = Append(wait_s[u],
                          [lo |-> Top.lo + k, hi |-> Top.hi, src |-> c])],
             source' = IF c = NoTrans THEN source
                       ELSE [source EXCEPT ![c] = source[c] + (n - k)],
             UNCHANGED <<written, lost>>
      PROVE  SourceAccounting'
    <2> DEFINE h == [lo |-> Top.lo + k, hi |-> Top.hi, src |-> c]
    <2>1. k \in Nat /\ k <= n /\ n \in Nat
        BY <1>2, TakesBound
    <2>2. h \in Item /\ h.lo = Top.lo + k /\ h.hi = Top.hi /\ h.src = c
        BY <1>2, <2>1, ChargedType DEF Item
    <2>3. wait_s' = [wait_s EXCEPT ![u] = Append(wait_s[u], h)]
        BY <1>4
    <2> HIDE DEF h
    <2>4. 1 <= h.lo /\ h.lo <= h.hi /\ h.hi <= written[u]
        BY <1>2, <1>4, <2>1, <2>2
    <2>5. \A i \in 1 .. Len(wait_s[u]) : wait_s[u][i].hi < h.lo
        BY <1>2, <2>1, <2>2, ItemFacts
    <2>6. h.hi - h.lo + 1 = n - k
        BY <1>2, <2>1, <2>2
    <2>7. source' = IF h.src = NoTrans THEN source
                    ELSE [source EXCEPT ![h.src] = source[h.src] + (h.hi - h.lo + 1)]
        BY <1>4, <2>2, <2>6
    <2> QED BY <1>2, <1>4, <2>2, <2>3, <2>4, <2>5, <2>7, AppendAccounting
<1> QED BY <1>3, <1>4 DEF CopyNew, outVars

LEMMA DeleteAccounting ==
    ASSUME TypeOK, QueueOK, SourceAccounting, NEW t \in Trans, trans_delete(t)
    PROVE  SourceAccounting'
<1>1. /\ UNCHANGED <<written, source>>
      /\ lost' = [s \in Trans |-> lost[s] + Cardinality(Owed(t, s))]
      /\ wait_s' = [wait_s EXCEPT ![t] = <<>>]
    BY DEF trans_delete
<1>2. wait_s'[t] = <<>> /\ \A u \in Trans : u # t => wait_s'[u] = wait_s[u]
    BY <1>1 DEF TypeOK
<1>3. SUFFICES ASSUME NEW s \in Trans
               PROVE  source'[s] = Cardinality(OwedTo(s))' + lost'[s]
    BY DEF SourceAccounting
<1>4. source[s] = Cardinality(OwedTo(s)) + lost[s] /\ lost[s] \in Nat
      /\ Cardinality(OwedTo(s)) \in Nat /\ source[s] \in Int
    BY OwedToFinite DEF SourceAccounting, TypeOK
<1>5. Cardinality(Owed(t, s)) \in Nat /\ lost'[s] = lost[s] + Cardinality(Owed(t, s))
    BY <1>1, OwedFinite
<1>6. \A u \in Trans : u # t => Owed(u, s)' = Owed(u, s)
    BY <1>1, <1>2, OwedIsOwedOf
<1>7. Owed(t, s)' = Owed(t, s) \ Owed(t, s)
    <2>1. OwedOf(<<>>, written'[t], s) = {}
        BY DEF OwedOf
    <2>2. Owed(t, s)' = {}
        BY <1>2, <2>1, OwedIsOwedOf
    <2> QED BY <2>2
<1>8. Owed(t, s) \subseteq 1 .. MaxBytes
    <2>1. written[t] \in Nat /\ written[t] <= MaxBytes
        BY ItemFacts
    <2> QED BY <2>1, TransAssumption DEF Owed
<1>9. Cardinality(OwedTo(s))' = Cardinality(OwedTo(s)) - Cardinality(Owed(t, s))
    BY <1>6, <1>7, <1>8, OwedToShrinks
<1>10. source'[s] = source[s]
    BY <1>1
<1> QED BY <1>4, <1>5, <1>9, <1>10

LEMMA SendWaitingAccounting ==
    ASSUME TypeOK, QueueOK, SourceAccounting, NEW t \in Trans, SendWaiting(t)
    PROVE  SourceAccounting'
    BY SentHeadAccounting, SameAccounting DEF SendWaiting, outVars

LEMMA AccountingInit == Init => SourceAccounting
<1> SUFFICES ASSUME Init, NEW s \in Trans
             PROVE  source[s] = Cardinality(OwedTo(s)) + lost[s]
    BY DEF SourceAccounting
<1>1. \A t \in Trans : Owed(t, s) = {}
    BY DEF Init, Owed
<1>2. OwedTo(s) = {}
    BY <1>1 DEF OwedTo
<1>3. Cardinality(OwedTo(s)) = 0
    BY <1>2, FS_EmptySet
<1> QED BY <1>3 DEF Init

LEMMA AccountingNext ==
    ASSUME Inv1, SourceAccounting, [Next]_vars
    PROVE  SourceAccounting'
<1> USE DEF Inv1
<1>1. CASE Write
    <2>1. PICK u \in Trans, n \in 0 .. MaxWrite : StartCopy(u, n) \/ StartForce(u, n)
        BY <1>1 DEF Write
    <2>2. n \in Nat
        BY TransAssumption
    <2> QED BY <2>1, <2>2, StartWriteAccounting DEF StartCopy, StartForce
<1>2. CASE CopyLeftOver
    <2>1. Top.dst \in Trans
        BY <1>2, OpFacts DEF CopyLeftOver, At
    <2> QED BY <1>2, <2>1, SendWaitingAccounting, SameAccounting DEF CopyLeftOver, outVars
<1>3. CASE CopyNew
    BY <1>3, CopyNewAccounting
<1>4. CASE ForceSend
    <2>1. Top.dst \in Trans
        BY <1>4, OpFacts DEF ForceSend, At
    <2> QED BY <1>4, <2>1, SentHeadAccounting, SameAccounting DEF ForceSend
<1>5. CASE Flush
    <2>1. Top.t \in Trans
        BY <1>5, CheckerFacts DEF Flush, At
    <2> QED BY <1>5, <2>1, SendWaitingAccounting, SameAccounting DEF Flush, outVars
<1>6. CASE CheckChanEnds \/ DeleteChan
    BY <1>6, DeleteAccounting, SameAccounting, TransAssumption
       DEF CheckChanEnds, DeleteChan, outVars
<1>7. CASE \/ Peer \/ SignalTerm \/ ForceEnd \/ (\E t \in Trans : Poll(t)) \/ CheckChan
           \/ CheckDown \/ CheckNoRead \/ CheckEof \/ CheckReadPart \/ CheckDataIn
           \/ DataInReturns \/ HandlerDies \/ LoopBreaks \/ UNCHANGED vars
    <2>1. UNCHANGED <<wait_s, written, source, lost>>
        BY <1>7 DEF Peer, PeerReads, PeerSends, PeerCloses, SignalTerm, ForceEnd, Poll,
           CheckChan, CheckDown, CheckNoRead, CheckEof, CheckReadPart, CheckDataIn,
           DataInReturns, HandlerDies, LoopBreaks, vars, outVars
    <2> QED BY <2>1, SameAccounting
<1> QED BY <1>1, <1>2, <1>3, <1>4, <1>5, <1>6, <1>7
    DEF Next, WriteStep, CheckStep, Stopped

\* si->source[s] equals the number of bytes that wait because of s plus those
\* that trans_delete threw away, for any transports, message sizes and socket
\* buffers: no path of trans_write_copy_s, trans_force_write_s,
\* trans_send_waiting or trans_delete miscounts.
THEOREM SourceAccountingHolds == Spec => []SourceAccounting
<1>1. Init => SourceAccounting
    BY AccountingInit
<1>2. Inv1 /\ SourceAccounting /\ [Next]_vars => SourceAccounting'
    BY AccountingNext
<1> QED BY <1>1, <1>2, Inv1Always, PTL DEF Spec

\* Only the call of trans_data_in turns a check into a running handler, and it
\* happens only when nothing is charged to its source.
LEMMA OnlyDataInStarts ==
    ASSUME Inv1, [Next]_vars, NEW s \in Trans, DataInStarts(s)
    PROVE  source[s] <= 0
<1> USE DEF Inv1
<1>1. /\ stack # <<>> /\ Top.pc = "check" /\ Top.t = s
      /\ Len(stack') = Len(stack) /\ Top'.pc = "run"
    BY DEF DataInStarts, At
<1>2. CASE CheckDataIn
    BY <1>1, <1>2 DEF CheckDataIn, MayRead
<1>3. CASE CheckNoRead \/ CheckReadPart
    <2>1. stack' = Goto("flush") /\ s \in Trans
        BY <1>3 DEF CheckNoRead, CheckReadPart
    <2>2. Top'.pc = "flush"
        BY <1>1, <2>1, GotoOK DEF PCs
    <2> QED BY <1>1, <2>2
<1>4. CASE CheckDown \/ CheckEof
    <2>1. stack' = Pop
        BY <1>4 DEF CheckDown, CheckEof, Return
    <2>2. Len(stack') = Len(stack) - 1 /\ Len(stack) \in Nat
        BY <1>1, <2>1, PopLemma, TopFacts
    <2> QED BY <1>1, <2>2
<1>5. CASE Peer \/ SignalTerm \/ UNCHANGED vars
    <2>1. stack' = stack
        BY <1>5 DEF Peer, PeerReads, PeerSends, PeerCloses, SignalTerm, vars
    <2>2. Top' = Top
        BY <2>1 DEF Top
    <2> QED BY <1>1, <2>2
<1>6. CASE \/ Write \/ WriteStep \/ (\E t \in Trans : Poll(t)) \/ CheckChan
           \/ DataInReturns \/ HandlerDies \/ Flush \/ CheckChanEnds \/ DeleteChan
           \/ LoopBreaks
    BY <1>1, <1>6 DEF Write, StartCopy, StartForce, StartWrite, MayWrite, WriteStep,
       CopyLeftOver, CopyNew, ForceSend, ForceEnd, Poll, CheckChan, DataInReturns, Flush,
       HandlerDies, CheckChanEnds, DeleteChan, LoopBreaks, At
<1> QED BY <1>2, <1>3, <1>4, <1>5, <1>6 DEF Next, CheckStep, Stopped

\* The back-pressure that trans_check_wait_objs promises: when a new message of
\* source s is given to its handler, no byte that an earlier message of s
\* produced waits on any transport.
THEOREM BackPressureHolds == Spec => BackPressure
<1>1. ASSUME Inv1, SourceAccounting, [Next]_vars, NEW s \in Trans, DataInStarts(s)
      PROVE  OwedTo(s) = {}
    <2>1. source[s] <= 0
        BY <1>1, OnlyDataInStarts
    <2>2. /\ source[s] = Cardinality(OwedTo(s)) + lost[s] /\ lost[s] \in Nat
          /\ Cardinality(OwedTo(s)) \in Nat /\ IsFiniteSet(OwedTo(s))
        BY <1>1, OwedToFinite DEF Inv1, SourceAccounting, TypeOK
    <2>3. Cardinality(OwedTo(s)) = 0
        BY <2>1, <2>2
    <2> QED BY <2>2, <2>3, FS_EmptySet
<1>2. Inv1 /\ SourceAccounting /\ [Next]_vars =>
          [\A s \in Trans : DataInStarts(s) => OwedTo(s) = {}]_vars
    BY <1>1
<1> QED BY <1>2, Inv1Always, SourceAccountingHolds, PTL DEF Spec, BackPressure

\* trans_delete never lowers what it already threw away.
LEMMA LostGrows ==
    ASSUME Inv1, [Next]_vars, NEW s \in Trans
    PROVE  lost'[s] >= lost[s]
<1> USE DEF Inv1
<1>0. lost[s] \in Nat
    BY DEF TypeOK
<1>1. CASE trans_delete(Chan)
    <2>1. lost'[s] = lost[s] + Cardinality(Owed(Chan, s))
        BY <1>1 DEF trans_delete
    <2>2. Cardinality(Owed(Chan, s)) \in Nat
        BY OwedFinite, TransAssumption
    <2> QED BY <1>0, <2>1, <2>2
<1>2. CASE lost' = lost
    BY <1>0, <1>2
<1>3. CASE WriteStep
    <2>1. lost' = lost
        BY <1>3 DEF WriteStep, CopyLeftOver, CopyNew, ForceSend, ForceEnd, SendWaiting,
           SentHead, outVars
    <2> QED BY <1>2, <2>1
<1>4. CASE CheckStep
    <2>1. lost' = lost \/ trans_delete(Chan)
        BY <1>4 DEF CheckStep, CheckChan, CheckDown, CheckNoRead, CheckEof, CheckReadPart,
           CheckDataIn, DataInReturns, HandlerDies, Flush, CheckChanEnds, DeleteChan, LoopBreaks,
           SendWaiting, SentHead, outVars
    <2> QED BY <1>1, <1>2, <2>1
<1>5. CASE \/ Peer \/ SignalTerm \/ Write \/ (\E t \in Trans : Poll(t)) \/ UNCHANGED vars
    <2>1. lost' = lost
        BY <1>5 DEF Peer, PeerReads, PeerSends, PeerCloses, SignalTerm, Write, StartCopy,
           StartForce, StartWrite, Poll, vars, outVars
    <2> QED BY <1>2, <2>1
<1> QED BY <1>3, <1>4, <1>5 DEF Next, Stopped

\* Once trans_delete has thrown away bytes charged to s, trans_check_wait_objs
\* never reads a message of s again.
THEOREM LostChargeBlocks == Spec => LostChargeBlocksSource
<1>1. ASSUME Inv1, Inv1', SourceAccounting, SourceAccounting', [Next]_vars,
             NEW s \in Trans, lost[s] > 0
      PROVE  source'[s] > 0 /\ ~DataInStarts(s)
    <2>1. /\ source[s] = Cardinality(OwedTo(s)) + lost[s] /\ lost[s] \in Nat
          /\ Cardinality(OwedTo(s)) \in Nat
        BY <1>1, OwedToFinite DEF Inv1, SourceAccounting, TypeOK
    <2>2. source'[s] = Cardinality(OwedTo(s))' + lost'[s] /\ lost'[s] \in Nat
        BY <1>1 DEF Inv1, SourceAccounting, TypeOK
    <2>3. Cardinality(OwedTo(s))' \in Nat
        <3>0. IsFiniteSet(1 .. MaxBytes)
            BY TransAssumption, FS_Interval
        <3>1. IsFiniteSet(Trans \X (1 .. MaxBytes))
            BY <3>0, TransAssumption, FS_Product
        <3>2. OwedTo(s)' \subseteq Trans \X (1 .. MaxBytes)
            BY DEF OwedTo
        <3> QED BY <3>1, <3>2, FS_Subset, FS_CardinalityType
    <2>4. lost'[s] >= lost[s]
        BY <1>1, LostGrows
    <2>5. ~DataInStarts(s)
        BY <1>1, <2>1, OnlyDataInStarts
    <2> QED BY <1>1, <2>1, <2>2, <2>3, <2>4, <2>5
<1>2. Inv1 /\ Inv1' /\ SourceAccounting /\ SourceAccounting' /\ [Next]_vars =>
          [\A s \in Trans : lost[s] > 0 => source'[s] > 0 /\ ~DataInStarts(s)]_vars
    BY <1>1
<1> QED BY <1>2, Inv1Always, SourceAccountingHolds, PTL DEF Spec, LostChargeBlocksSource

-----------------------------------------------------------------------------
(* The calls on the stack. *)

\* No call of the new stack works on another transport than before.
SameCalls == \A i \in DOMAIN stack' : i \in DOMAIN stack /\ stack'[i].t = stack[i].t

\* No transport was deleted in this step.
NoneDeleted == \A t \in Trans : status'[t] = "GONE" => status[t] = "GONE"

LEMMA SetTopSame ==
    ASSUME TypeOK, stack # <<>>, NEW f, f.t = Top.t, stack' = SetTop(f)
    PROVE  SameCalls
<1>1. stack \in Seq(Frame) /\ Len(stack) \in Nat \ {0} /\ Top = stack[Len(stack)]
    BY TopFacts DEF TypeOK
<1>2. DOMAIN stack' = DOMAIN stack
      /\ \A i \in DOMAIN stack : stack'[i] = IF i = Len(stack) THEN f ELSE stack[i]
    BY <1>1 DEF SetTop
<1> QED BY <1>1, <1>2 DEF SameCalls

\* The records a step puts on top keep the transport of the call.
LEMMA MovedTop ==
    ASSUME TypeOK, stack # <<>>
    PROVE  /\ \A pc : stack' = Goto(pc) => SameCalls
           /\ \A pc : stack' = WriteDone(pc) => SameCalls
<1>1. Top \in Frame
    BY TopFacts
<1>2. ASSUME NEW pc, stack' = Goto(pc) PROVE SameCalls
    <2>1. [Top EXCEPT !.pc = pc].t = Top.t
        BY <1>1 DEF Frame
    <2> QED BY <1>2, <2>1, SetTopSame DEF Goto
<1>3. ASSUME NEW pc, stack' = WriteDone(pc) PROVE SameCalls
    <2>1. [Top EXCEPT !.pc = pc, !.dst = Client, !.lo = 1, !.hi = 0].t = Top.t
        BY <1>1 DEF Frame
    <2> QED BY <1>3, <2>1, SetTopSame DEF WriteDone
<1> QED BY <1>2, <1>3

LEMMA PoppedTop ==
    ASSUME TypeOK, stack # <<>>, stack' = Pop
    PROVE  SameCalls
<1>1. /\ Len(stack) \in Nat \ {0} /\ stack \in Seq(Frame) /\ stack' \in Seq(Frame)
      /\ Len(stack') = Len(stack) - 1
      /\ \A i \in 1 .. (Len(stack) - 1) : stack'[i] = stack[i]
    BY PopLemma, TopFacts DEF TypeOK
<1> QED BY <1>1 DEF SameCalls

LEMMA WentDown ==
    ASSUME TypeOK, NEW t, GoDown(t)
    PROVE  NoneDeleted
    BY DEF GoDown, NoneDeleted, TypeOK

LEMMA CallOwners ==
    ASSUME TypeOK
    PROVE  \A i \in DOMAIN stack : stack[i].t \in Trans \cup {NoTrans}
<1>1. \A i \in DOMAIN stack : stack[i] \in Frame
    <2>1. stack \in Seq(Frame)
        BY DEF TypeOK
    <2> QED BY <2>1
<1>2. \A f \in Frame : f.t \in Trans \cup {NoTrans}
    BY DEF Frame
<1> QED BY <1>1, <1>2

\* A step that neither deletes a transport nor enters a new call.
LEMMA QuietStep ==
    ASSUME TypeOK, NoUseAfterDelete, SameCalls, NoneDeleted
    PROVE  NoUseAfterDelete'
    BY CallOwners DEF NoUseAfterDelete, SameCalls, NoneDeleted

\* The writes, the polling steps and the peers are quiet.
LEMMA QuietActions ==
    ASSUME Inv1,
           \/ Peer \/ SignalTerm \/ Write \/ WriteStep \/ CheckDown \/ CheckNoRead
           \/ CheckEof \/ CheckReadPart \/ CheckDataIn \/ DataInReturns \/ HandlerDies
           \/ Flush \/ LoopBreaks \/ UNCHANGED vars
    PROVE  SameCalls /\ NoneDeleted
<1> USE DEF Inv1
<1>1. CASE status' = status /\ stack' = stack
    BY <1>1 DEF SameCalls, NoneDeleted
<1>2. CASE Peer \/ SignalTerm \/ UNCHANGED vars
    BY <1>1, <1>2 DEF Peer, PeerReads, PeerSends, PeerCloses, SignalTerm, vars
<1>3. CASE Write
    <2>1. PICK u \in Trans, n \in 0 .. MaxWrite, pc \in {"copy1", "force"} :
              StartWrite(u, n, pc)
        BY <1>3 DEF Write, StartCopy, StartForce
    <2>2. /\ stack # <<>> /\ status' = status
          /\ stack' = SetTop([Top EXCEPT !.pc = pc, !.dst = u, !.lo = written[u] + 1,
                                         !.hi = written[u] + n])
        BY <2>1 DEF StartWrite, MayWrite, At
    <2>3. [Top EXCEPT !.pc = pc, !.dst = u, !.lo = written[u] + 1,
                      !.hi = written[u] + n].t = Top.t
        BY <2>2, TopFacts DEF Frame
    <2> QED BY <2>2, <2>3, SetTopSame DEF NoneDeleted
<1>4. CASE WriteStep
    <2>1. CASE CopyLeftOver \/ CopyNew \/ ForceEnd
        <3>1. /\ stack # <<>>
              /\ status' = status \/ GoDown(Top.dst)
              /\ \E pc : stack' = WriteDone(pc) \/ stack' = Goto(pc)
            BY <2>1 DEF CopyLeftOver, CopyNew, ForceEnd, At
        <3> QED BY <3>1, MovedTop, WentDown DEF NoneDeleted
    <2>2. CASE ForceSend
        <3>1. /\ stack # <<>> /\ status' = status
              /\ \/ stack' = stack
                 \/ \E k : stack' = SetTop([Top EXCEPT !.lo = Top.lo + k])
            BY <2>2 DEF ForceSend, At
        <3>2. \A k : [Top EXCEPT !.lo = Top.lo + k].t = Top.t
            BY <3>1, TopFacts DEF Frame
        <3> QED BY <1>1, <3>1, <3>2, SetTopSame DEF NoneDeleted
    <2> QED BY <1>4, <2>1, <2>2 DEF WriteStep
<1>5. CASE CheckNoRead \/ CheckReadPart
    <2>1. stack # <<>> /\ status' = status /\ stack' = Goto("flush")
        BY <1>5 DEF CheckNoRead, CheckReadPart, At
    <2> QED BY <2>1, MovedTop DEF NoneDeleted
<1>6. CASE CheckDataIn
    <2>1. /\ stack # <<>> /\ status' = status
          /\ stack' = SetTop([Top EXCEPT !.pc = "run", !.saved = cur_source])
        BY <1>6 DEF CheckDataIn, At
    <2>2. [Top EXCEPT !.pc = "run", !.saved = cur_source].t = Top.t
        BY <2>1, TopFacts DEF Frame
    <2> QED BY <2>1, <2>2, SetTopSame DEF NoneDeleted
<1>7. CASE DataInReturns
    <2>1. PICK err \in BOOLEAN :
              /\ stack # <<>> /\ status' = status
              /\ stack' = SetTop([Top EXCEPT !.pc = "flush", !.err = err])
        BY <1>7 DEF DataInReturns, At
    <2>2. [Top EXCEPT !.pc = "flush", !.err = err].t = Top.t
        BY <2>1, TopFacts DEF Frame
    <2> QED BY <2>1, <2>2, SetTopSame DEF NoneDeleted
<1>8. CASE CheckDown \/ CheckEof \/ Flush
    <2>1. /\ stack # <<>> /\ stack' = Pop
          /\ status' = status \/ GoDown(Top.t)
        BY <1>8 DEF CheckDown, CheckEof, Flush, Return, At
    <2> QED BY <2>1, PoppedTop, WentDown DEF NoneDeleted
<1>9. CASE LoopBreaks \/ HandlerDies
    <2>1. stack' = <<>> /\ status' = status
        BY <1>9 DEF LoopBreaks, HandlerDies
    <2> QED BY <2>1 DEF SameCalls, NoneDeleted
<1> QED BY <1>2, <1>3, <1>4, <1>5, <1>6, <1>7, <1>8, <1>9

\* A new call is entered only on a transport that was not deleted.
LEMMA NewCall ==
    ASSUME Inv1, NoUseAfterDelete, (\E t \in Trans : Poll(t)) \/ CheckChan
    PROVE  NoUseAfterDelete'
<1> USE DEF Inv1
<1>1. status' = status /\ stack # <<>> /\ Top \in Frame /\ stack \in Seq(Frame)
    BY TopFacts DEF Poll, CheckChan, At, TypeOK
<1>2. CASE stack' = Goto("run")
    <2>1. SameCalls
        BY <1>1, <1>2, MovedTop
    <2> QED BY <1>1, <2>1 DEF SameCalls, NoUseAfterDelete
<1>3. ASSUME NEW s, NEW t \in Trans, status[t] # "GONE",
             s = stack \/ s = Goto("ckdel"), stack' = Append(s, NewFrame(t, "check"))
      PROVE  NoUseAfterDelete'
    <2>1. /\ s \in Seq(Frame) /\ DOMAIN s = DOMAIN stack
          /\ \A i \in DOMAIN s : s[i].t = stack[i].t
        <3>1. CASE s = stack
            BY <1>1, <3>1
        <3>2. CASE s = Goto("ckdel")
            <4> DEFINE g == [Top EXCEPT !.pc = "ckdel"]
            <4>1. g \in Frame /\ g.t = Top.t
                BY <1>1 DEF Frame, PCs
            <4>2. s = SetTop(g)
                BY <3>2 DEF Goto
            <4> HIDE DEF g
            <4>3. /\ s \in Seq(Frame) /\ Len(s) = Len(stack) /\ s[Len(stack)] = g
                  /\ \A i \in 1 .. (Len(stack) - 1) : s[i] = stack[i]
                BY <1>1, <4>1, <4>2, SetTopLemma
            <4>4. Top = stack[Len(stack)] /\ Len(stack) \in Nat \ {0}
                BY <1>1, TopFacts
            <4> QED BY <1>1, <4>1, <4>3, <4>4
        <3> QED BY <1>3, <3>1, <3>2
    <2> DEFINE f == NewFrame(t, "check")
    <2>2. f \in Frame /\ f.t = t
        BY <1>3, NewFrameType, TransAssumption DEF NewFrame
    <2>3. stack' = Append(s, f)
        BY <1>3
    <2> HIDE DEF f
    <2>4. /\ stack' \in Seq(Frame) /\ Len(stack') = Len(s) + 1 /\ Len(s) \in Nat
          /\ stack'[Len(s) + 1] = f /\ \A i \in 1 .. Len(s) : stack'[i] = s[i]
        BY <2>1, <2>2, <2>3, PushLemma
    <2> QED BY <1>1, <1>3, <2>1, <2>2, <2>4 DEF NoUseAfterDelete
<1>4. CASE \E t \in Trans : Poll(t)
    BY <1>3, <1>4 DEF Poll
<1>5. CASE CheckChan
    BY <1>2, <1>3, <1>5, TransAssumption DEF CheckChan
<1> QED BY <1>4, <1>5

\* chan_trans is deleted only when no call works on it: the calls below a poll
\* are the main loop and handlers that draw.
LEMMA Deletion ==
    ASSUME Inv1, NoUseAfterDelete, Chan \notin Draws, CheckChanEnds \/ DeleteChan
    PROVE  NoUseAfterDelete'
<1> USE DEF Inv1
<1>1. /\ stack # <<>> /\ SameCalls
      /\ status' = status \/ trans_delete(Chan)
      /\ Top.pc = "ckdel" \/ Len(stack) = 1
    BY MovedTop DEF CheckChanEnds, DeleteChan, At, SameCalls
<1>2. \A i \in DOMAIN stack : stack[i].t # Chan
    <2>1. stack \in Seq(Frame) /\ Len(stack) \in Nat \ {0} /\ Top = stack[Len(stack)]
        <3>1. stack \in Seq(Frame)
            BY DEF TypeOK
        <3> QED BY <1>1, <3>1, TopFacts
    <2>2. NoTrans # Chan
        BY TransAssumption
    <2> QED BY <1>1, <2>1, <2>2 DEF StackOK
<1>3. \A t \in Trans : t # Chan => (status'[t] = "GONE" => status[t] = "GONE")
    <2>1. status \in [Trans -> {"UP", "DOWN", "GONE"}]
        BY DEF TypeOK
    <2>2. status' = status \/ status' = [status EXCEPT ![Chan] = "GONE"]
        BY <1>1 DEF trans_delete
    <2> QED BY <2>1, <2>2
<1> QED BY <1>1, <1>2, <1>3, CallOwners DEF SameCalls, NoUseAfterDelete

\* No running call of trans_check_wait_objs or of a handler works on a transport
\* that trans_delete freed, although xrdp_mm_check_chan may delete chan_trans from
\* inside a handler: this needs only that chan_trans's own handler does not draw.
THEOREM NoUseAfterDeleteHolds == Chan \notin Draws => (Spec => []NoUseAfterDelete)
<1> SUFFICES ASSUME Chan \notin Draws PROVE Spec => []NoUseAfterDelete
    OBVIOUS
<1>1. Init => NoUseAfterDelete
    BY DEF Init, NoUseAfterDelete, NewFrame
<1>2. Inv1 /\ NoUseAfterDelete /\ [Next]_vars => NoUseAfterDelete'
    <2>1. Inv1 => TypeOK
        BY DEF Inv1
    <2> QED BY <2>1, QuietActions, QuietStep, NewCall, Deletion
            DEF Next, CheckStep, Stopped
<1> QED BY <1>1, <1>2, Inv1Always, PTL DEF Spec

-----------------------------------------------------------------------------
(* cur_source.  A call of trans_check_wait_objs is inside its handler      *)
(* unless it is at "check" or "flush", and only the top call can be there. *)

Outside == {"check", "flush"}

\* What a handler restores is the transport of the call below.
SavedOK ==
    \A i \in 2 .. Len(stack) : stack[i].pc \notin Outside => stack[i].saved = stack[i - 1].t

Innermost == IF Top.pc \in Outside THEN stack[Len(stack) - 1].t ELSE Top.t

CurOK == stack # <<>> => cur_source = Innermost

CurInv == SavedOK /\ CurOK

LEMMA CurInit == Init => CurInv
<1> SUFFICES ASSUME Init PROVE CurInv
    OBVIOUS
<1>1. Len(stack) = 1 /\ Top = NewFrame(NoTrans, "run") /\ cur_source = NoTrans
    BY DEF Init, Top
<1> QED BY <1>1 DEF CurInv, CurOK, SavedOK, Innermost, Outside, NewFrame

\* The top call moves on within its handler, or outside of it.
LEMMA CurSame ==
    ASSUME TypeOK, CurInv, stack # <<>>, NEW f \in Frame, f.t = Top.t, f.saved = Top.saved,
           f.pc \in Outside <=> Top.pc \in Outside,
           stack' = SetTop(f), cur_source' = cur_source
    PROVE  CurInv'
<1>1. PICK n \in Nat \ {0} : n = Len(stack) /\ Top = stack[n]
    BY TopFacts
<1>2. /\ stack' # <<>> /\ Len(stack') = n /\ stack'[n] = f
      /\ \A i \in 1 .. (n - 1) : stack'[i] = stack[i]
    BY <1>1, SetTopLemma
<1>3. Top' = f
    BY <1>2 DEF Top
<1>4. \A i \in 1 .. n : /\ stack'[i].t = stack[i].t /\ stack'[i].saved = stack[i].saved
                        /\ stack'[i].pc \in Outside <=> stack[i].pc \in Outside
    BY <1>1, <1>2
<1>5. SavedOK'
    <2> SUFFICES ASSUME NEW i \in 2 .. n, stack'[i].pc \notin Outside
                 PROVE  stack'[i].saved = stack'[i - 1].t
        BY <1>2 DEF SavedOK, Outside
    <2>1. i \in 1 .. n /\ i - 1 \in 1 .. n
        OBVIOUS
    <2> QED BY <1>1, <1>4, <2>1 DEF CurInv, SavedOK
<1>6. CurOK'
    <2>1. CASE Top.pc \in Outside
        <3>1. Innermost = stack[n - 1].t /\ Innermost' = stack'[n - 1].t
            BY <1>1, <1>2, <1>3, <2>1 DEF Innermost, Outside
        <3>2. stack'[n - 1].t = stack[n - 1].t
            <4>1. CASE n = 1
                <5>1. n - 1 = 0 /\ 0 \notin 1 .. n
                    BY <4>1
                <5>2. stack \in Seq(Frame) /\ f \in Frame
                    BY DEF TypeOK
                <5>3. stack'[0] = stack[0]
                    BY <1>1, <4>1, <5>2 DEF SetTop
                <5> QED BY <5>1, <5>3
            <4>2. CASE n # 1
                BY <1>4, <4>2
            <4> QED BY <4>1, <4>2
        <3> QED BY <3>1, <3>2 DEF CurInv, CurOK
    <2>2. CASE Top.pc \notin Outside
        <3>1. Innermost = Top.t /\ Innermost' = f.t
            BY <1>3, <2>2 DEF Innermost, Outside
        <3> QED BY <3>1 DEF CurInv, CurOK
    <2> QED BY <2>1, <2>2
<1> QED BY <1>5, <1>6 DEF CurInv

\* trans_check_wait_objs is called: the calls below are in their handlers.
LEMMA CurPush ==
    ASSUME CurInv, stack # <<>>, Len(stack) \in Nat \ {0}, Top = stack[Len(stack)],
           Top.pc \notin Outside, NEW s \in Seq(Frame), Len(s) = Len(stack),
           \A i \in 1 .. Len(stack) : /\ s[i].t = stack[i].t /\ s[i].saved = stack[i].saved
                                      /\ s[i].pc \in Outside <=> stack[i].pc \in Outside,
           NEW f \in Frame, f.pc = "check",
           stack' = Append(s, f), cur_source' = cur_source
    PROVE  CurInv'
<1>1. PICK n \in Nat \ {0} : n = Len(stack) /\ n = Len(s) /\ Top = stack[n]
    OBVIOUS
<1>2. /\ stack' # <<>> /\ Len(stack') = n + 1 /\ stack'[n + 1] = f
      /\ \A i \in 1 .. n : stack'[i] = s[i]
    BY <1>1, PushLemma
<1>3. SavedOK'
    <2> SUFFICES ASSUME NEW i \in 2 .. n + 1, stack'[i].pc \notin Outside
                 PROVE  stack'[i].saved = stack'[i - 1].t
        BY <1>2 DEF SavedOK, Outside
    <2>1. i # n + 1
        BY <1>2 DEF Outside
    <2>2. i \in 2 .. n /\ i \in 1 .. n /\ i - 1 \in 1 .. n
        BY <2>1
    <2> QED BY <1>1, <1>2, <2>2 DEF CurInv, SavedOK
<1>4. CurOK'
    <2>1. Innermost = Top.t
        BY DEF Innermost
    <2>2. Top' = f
        BY <1>1, <1>2 DEF Top
    <2>3. Innermost' = stack'[n].t
        BY <1>2, <2>2 DEF Innermost, Outside
    <2>4. stack'[n].t = Top.t
        BY <1>1, <1>2
    <2> QED BY <2>1, <2>3, <2>4 DEF CurInv, CurOK
<1> QED BY <1>3, <1>4 DEF CurInv

\* It returns to the call below, which is in its handler.
LEMMA CurPop ==
    ASSUME TypeOK, StackOK, CurInv, stack # <<>>, Top.pc \in Outside,
           stack' = Pop, cur_source' = cur_source
    PROVE  CurInv'
<1>1. PICK n \in Nat \ {0} : n = Len(stack) /\ Top = stack[n]
    BY TopFacts
<1>2. Len(stack') = n - 1 /\ \A i \in 1 .. (n - 1) : stack'[i] = stack[i]
    BY <1>1, PopLemma
<1>3. n > 1
    BY <1>1 DEF StackOK, Outside
<1>4. SavedOK'
    <2> SUFFICES ASSUME NEW i \in 2 .. n - 1, stack'[i].pc \notin Outside
                 PROVE  stack'[i].saved = stack'[i - 1].t
        BY <1>2 DEF SavedOK, Outside
    <2>1. i \in 2 .. n /\ i \in 1 .. (n - 1) /\ i - 1 \in 1 .. (n - 1)
        OBVIOUS
    <2> QED BY <1>1, <1>2, <2>1 DEF CurInv, SavedOK
<1>5. CurOK'
    <2>1. Top' = stack[n - 1]
        <3>1. n - 1 \in 1 .. (n - 1)
            BY <1>3
        <3> QED BY <1>2, <3>1 DEF Top
    <2>2. stack[n - 1].pc \notin Outside
        BY <1>1, <1>3 DEF StackOK, Outside
    <2>3. Innermost' = stack[n - 1].t
        BY <2>1, <2>2 DEF Innermost, Outside
    <2>4. Innermost = stack[n - 1].t
        BY <1>1 DEF Innermost
    <2> QED BY <2>3, <2>4 DEF CurInv, CurOK
<1> QED BY <1>4, <1>5 DEF CurInv

\* trans_data_in is called: the call keeps what cur_source was.
LEMMA CurEnter ==
    ASSUME Inv1, CurInv, CheckDataIn
    PROVE  CurInv'
<1>1. /\ TypeOK /\ StackOK /\ stack # <<>> /\ Top.pc = "check" /\ cur_source' = Top.t
      /\ stack' = SetTop([Top EXCEPT !.pc = "run", !.saved = cur_source])
    BY DEF CheckDataIn, At, Inv1
<1>2. PICK n \in Nat \ {0} : n = Len(stack) /\ Top = stack[n]
    BY <1>1, TopFacts
<1>3. PICK f \in Frame : /\ f = [Top EXCEPT !.pc = "run", !.saved = cur_source]
                         /\ f.t = Top.t /\ f.pc = "run" /\ f.saved = cur_source
    <2> DEFINE g == [Top EXCEPT !.pc = "run", !.saved = cur_source]
    <2>1. Top \in Frame /\ cur_source \in Trans \cup {NoTrans}
        BY <1>1, TopFacts DEF TypeOK
    <2>2. g \in Frame /\ g.t = Top.t /\ g.pc = "run" /\ g.saved = cur_source
        BY <2>1 DEF Frame, PCs
    <2> QED BY <2>2
<1>4. /\ Len(stack') = n /\ stack'[n] = f
      /\ \A i \in 1 .. (n - 1) : stack'[i] = stack[i]
    BY <1>1, <1>2, <1>3, SetTopLemma
<1>5. n > 1 /\ cur_source = stack[n - 1].t
    <2>1. n > 1
        BY <1>1, <1>2 DEF StackOK
    <2>2. Innermost = stack[n - 1].t
        BY <1>1, <1>2 DEF Innermost, Outside
    <2> QED BY <1>1, <2>1, <2>2 DEF CurInv, CurOK
<1>6. SavedOK'
    <2> SUFFICES ASSUME NEW i \in 2 .. n, stack'[i].pc \notin Outside
                 PROVE  stack'[i].saved = stack'[i - 1].t
        BY <1>4 DEF SavedOK, Outside
    <2>1. i - 1 \in 1 .. (n - 1) /\ (i # n => i \in 1 .. (n - 1))
        OBVIOUS
    <2>2. CASE i = n
        BY <1>3, <1>4, <1>5, <2>1, <2>2
    <2>3. CASE i # n
        BY <1>2, <1>4, <2>1, <2>3 DEF CurInv, SavedOK
    <2> QED BY <2>2, <2>3
<1>7. CurOK'
    <2>1. Top' = f
        BY <1>4 DEF Top
    <2>2. Innermost' = Top.t
        BY <1>3, <2>1 DEF Innermost, Outside
    <2> QED BY <1>1, <2>2 DEF CurOK
<1> QED BY <1>6, <1>7 DEF CurInv

\* trans_data_in returns: what was kept is the transport of the call below.
LEMMA CurLeave ==
    ASSUME Inv1, CurInv, DataInReturns
    PROVE  CurInv'
<1>1. /\ TypeOK /\ StackOK /\ stack # <<>> /\ Top.pc = "run" /\ Top.t # NoTrans
      /\ cur_source' = Top.saved
      /\ \E err \in BOOLEAN : stack' = SetTop([Top EXCEPT !.pc = "flush", !.err = err])
    BY DEF DataInReturns, At, Inv1
<1>2. PICK n \in Nat \ {0} : n = Len(stack) /\ Top = stack[n]
    BY <1>1, TopFacts
<1>3. PICK f \in Frame : stack' = SetTop(f) /\ f.pc = "flush"
    <2>1. PICK err \in BOOLEAN : stack' = SetTop([Top EXCEPT !.pc = "flush", !.err = err])
        BY <1>1
    <2>2. /\ [Top EXCEPT !.pc = "flush", !.err = err] \in Frame
          /\ [Top EXCEPT !.pc = "flush", !.err = err].pc = "flush"
        BY <1>1, TopFacts DEF Frame, PCs
    <2> QED BY <2>1, <2>2
<1>4. /\ Len(stack') = n /\ stack'[n] = f
      /\ \A i \in 1 .. (n - 1) : stack'[i] = stack[i]
    BY <1>1, <1>2, <1>3, SetTopLemma
<1>5. n > 1
    BY <1>1, <1>2 DEF StackOK
<1>6. Top.saved = stack[n - 1].t
    BY <1>1, <1>2, <1>5 DEF CurInv, SavedOK, Outside
<1>7. SavedOK'
    <2> SUFFICES ASSUME NEW i \in 2 .. n, stack'[i].pc \notin Outside
                 PROVE  stack'[i].saved = stack'[i - 1].t
        BY <1>4 DEF SavedOK, Outside
    <2>1. i # n
        BY <1>3, <1>4 DEF Outside
    <2>2. i \in 1 .. (n - 1) /\ i - 1 \in 1 .. (n - 1)
        BY <2>1
    <2> QED BY <1>2, <1>4, <2>2 DEF CurInv, SavedOK
<1>8. CurOK'
    <2>1. Top' = f
        BY <1>4 DEF Top
    <2>2. Innermost' = stack'[n - 1].t
        BY <1>3, <1>4, <2>1 DEF Innermost, Outside
    <2>3. stack'[n - 1] = stack[n - 1]
        BY <1>4, <1>5
    <2> QED BY <1>1, <1>6, <2>2, <2>3 DEF CurOK
<1> QED BY <1>7, <1>8 DEF CurInv

\* The steps of a write, and of a poll that receives, move the top call on.
LEMMA CurMoves ==
    ASSUME Inv1, CurInv, Write \/ WriteStep \/ CheckNoRead \/ CheckReadPart
    PROVE  CurInv'
<1>1. TypeOK
    BY DEF Inv1
<1>2. CASE Write
    <2>1. PICK u \in Trans, n \in 0 .. MaxWrite, pc \in {"copy1", "force"} :
              StartWrite(u, n, pc)
        BY <1>2 DEF Write, StartCopy, StartForce
    <2> DEFINE f == [Top EXCEPT !.pc = pc, !.dst = u, !.lo = written[u] + 1,
                                !.hi = written[u] + n]
    <2>2. /\ stack # <<>> /\ Top.pc = "run" /\ cur_source' = cur_source /\ stack' = SetTop(f)
        BY <2>1 DEF StartWrite, MayWrite, At
    <2>3. f \in Frame /\ f.t = Top.t /\ f.saved = Top.saved /\ f.pc = pc
        <3>1. Top \in Frame
            BY <1>1, <2>2, TopFacts
        <3>2. written[u] + 1 \in Nat /\ written[u] + n \in Nat
            <4>1. written[u] \in Nat /\ n \in Nat
                BY <1>1, TransAssumption DEF TypeOK
            <4>2. \A a \in Nat : a + 1 \in Nat /\ a + n \in Nat
                BY <4>1
            <4> QED BY <4>1, <4>2
        <3> QED BY <3>1, <3>2 DEF Frame, PCs
    <2> HIDE DEF f
    <2> QED BY <1>1, <2>2, <2>3, CurSame DEF Outside
<1>3. ASSUME NEW pc \in PCs, stack # <<>>, cur_source' = cur_source,
             pc \in Outside <=> Top.pc \in Outside,
             stack' = Goto(pc) \/ stack' = WriteDone(pc)
      PROVE  CurInv'
    <2>1. PICK f \in Frame : f.t = Top.t /\ f.saved = Top.saved /\ f.pc = pc /\ stack' = SetTop(f)
        <3>1. Top \in Frame
            BY <1>1, <1>3, TopFacts
        <3>2. CASE stack' = Goto(pc)
            <4> DEFINE g == [Top EXCEPT !.pc = pc]
            <4>1. g \in Frame /\ g.t = Top.t /\ g.saved = Top.saved /\ g.pc = pc
                BY <1>3, <3>1 DEF Frame
            <4> QED BY <3>2, <4>1 DEF Goto
        <3>3. CASE stack' = WriteDone(pc)
            <4> DEFINE g == [Top EXCEPT !.pc = pc, !.dst = Client, !.lo = 1, !.hi = 0]
            <4>1. g \in Frame /\ g.t = Top.t /\ g.saved = Top.saved /\ g.pc = pc
                BY <1>3, <3>1, TransAssumption DEF Frame
            <4> QED BY <3>3, <4>1 DEF WriteDone
        <3> QED BY <1>3, <3>2, <3>3
    <2> QED BY <1>1, <1>3, <2>1, CurSame
<1>4. CASE CopyLeftOver \/ CopyNew \/ ForceEnd
    <2>1. /\ stack # <<>> /\ cur_source' = cur_source
          /\ Top.pc \in {"copy1", "copy2", "force"}
          /\ \E pc \in {"run", "poll", "copy2"} : stack' = WriteDone(pc) \/ stack' = Goto(pc)
        BY <1>4 DEF CopyLeftOver, CopyNew, ForceEnd, At, AfterWrite
    <2> QED BY <1>3, <2>1 DEF PCs, Outside
<1>5. CASE ForceSend
    <2>1. stack # <<>> /\ Top.pc = "force" /\ cur_source' = cur_source
        BY <1>5 DEF ForceSend, At
    <2>2. CASE stack' = stack
        <3>1. Top' = Top /\ Innermost' = Innermost
            BY <2>2 DEF Top, Innermost
        <3> QED BY <2>1, <2>2, <3>1 DEF CurInv, CurOK, SavedOK
    <2>3. CASE stack' # stack
        <3>1. PICK k \in Takes(Top.dst, Top.hi - Top.lo + 1) :
                  stack' = SetTop([Top EXCEPT !.lo = Top.lo + k]) /\ Top.lo <= Top.hi
            BY <1>5, <2>3 DEF ForceSend
        <3>2. Top \in Frame
            BY <1>1, <2>1, TopFacts
        <3>3. Top.dst \in Trans /\ Top.lo \in Nat /\ Top.hi \in Nat
            BY <3>2 DEF Frame
        <3>4. k \in Nat
            <4>1. Top.hi - Top.lo + 1 \in Nat
                BY <3>1, <3>3
            <4> QED BY <1>1, <3>3, <4>1, TakesBound
        <3> DEFINE f == [Top EXCEPT !.lo = Top.lo + k]
        <3>5. f \in Frame /\ f.t = Top.t /\ f.saved = Top.saved /\ f.pc = Top.pc
            <4>1. Top.lo + k \in Nat
                BY <3>3, <3>4
            <4> QED BY <3>2, <4>1 DEF Frame
        <3>6. stack' = SetTop(f)
            BY <3>1
        <3> HIDE DEF f
        <3> QED BY <1>1, <2>1, <3>5, <3>6, CurSame
    <2> QED BY <2>2, <2>3
<1>6. CASE CheckNoRead \/ CheckReadPart
    <2>1. /\ stack # <<>> /\ Top.pc = "check" /\ cur_source' = cur_source
          /\ stack' = Goto("flush")
        BY <1>6 DEF CheckNoRead, CheckReadPart, At
    <2> QED BY <1>3, <2>1 DEF PCs, Outside
<1> QED BY <1>2, <1>4, <1>5, <1>6 DEF WriteStep

\* A poll begins in the main loop or in xrdp_mm_check_chan, and ends there.
LEMMA CurPolls ==
    ASSUME Inv1, CurInv,
           \/ \E t \in Trans : Poll(t)
           \/ CheckChan \/ CheckDown \/ CheckEof \/ Flush \/ CheckChanEnds
    PROVE  CurInv'
<1>1. TypeOK /\ StackOK
    BY DEF Inv1
<1>2. /\ stack # <<>> /\ cur_source' = cur_source
    BY DEF Poll, CheckChan, CheckDown, CheckEof, Flush, CheckChanEnds, At
<1>3. Top \in Frame /\ Len(stack) \in Nat \ {0} /\ Top = stack[Len(stack)] /\ stack \in Seq(Frame)
    BY <1>1, <1>2, TopFacts DEF TypeOK
<1>4. ASSUME NEW pc \in PCs
      PROVE  \E f \in Frame : /\ f.t = Top.t /\ f.saved = Top.saved /\ f.pc = pc
                              /\ Goto(pc) = SetTop(f)
    <2> DEFINE g == [Top EXCEPT !.pc = pc]
    <2>1. g \in Frame /\ g.t = Top.t /\ g.saved = Top.saved /\ g.pc = pc
        BY <1>3 DEF Frame
    <2> QED BY <2>1 DEF Goto
<1>5. ASSUME NEW pc \in {"run", "ckdel"}, Top.pc \notin Outside, stack' = Goto(pc)
      PROVE  CurInv'
    <2>1. PICK f \in Frame : f.t = Top.t /\ f.saved = Top.saved /\ f.pc = pc /\ Goto(pc) = SetTop(f)
        BY <1>4 DEF PCs
    <2> QED BY <1>1, <1>2, <1>5, <2>1, CurSame DEF Outside
<1>6. ASSUME NEW t \in Trans PROVE NewFrame(t, "check") \in Frame /\ NewFrame(t, "check").pc = "check"
    BY NewFrameType, TransAssumption DEF NewFrame
<1>7. CASE \E t \in Trans : Poll(t)
    <2>1. PICK t \in Trans : Top.pc = "run" /\ stack' = Append(stack, NewFrame(t, "check"))
        BY <1>7 DEF Poll, At
    <2> QED BY <1>2, <1>3, <1>6, <2>1, CurPush DEF Outside
<1>8. CASE CheckChan
    <2>1. Top.pc = "poll" /\ Chan \in Trans
        BY <1>8, TransAssumption DEF CheckChan, At
    <2>2. CASE stack' = Goto("run")
        BY <1>5, <2>1, <2>2 DEF Outside
    <2>3. CASE stack' = Append(Goto("ckdel"), NewFrame(Chan, "check"))
        <3>1. PICK f \in Frame : /\ f.t = Top.t /\ f.saved = Top.saved /\ f.pc = "ckdel"
                                 /\ Goto("ckdel") = SetTop(f)
            BY <1>4 DEF PCs
        <3>2. PICK s \in Seq(Frame) : s = SetTop(f)
            BY <1>1, <1>2, <3>1, SetTopLemma
        <3>3. Len(s) = Len(stack) /\ s[Len(stack)] = f /\ \A i \in 1 .. (Len(stack) - 1) : s[i] = stack[i]
            BY <1>1, <1>2, <3>2, SetTopLemma
        <3>4. \A i \in 1 .. Len(stack) : /\ s[i].t = stack[i].t /\ s[i].saved = stack[i].saved
                                         /\ s[i].pc \in Outside <=> stack[i].pc \in Outside
            <4> SUFFICES ASSUME NEW i \in 1 .. Len(stack)
                         PROVE  /\ s[i].t = stack[i].t /\ s[i].saved = stack[i].saved
                                /\ s[i].pc \in Outside <=> stack[i].pc \in Outside
                OBVIOUS
            <4>1. CASE i = Len(stack)
                BY <1>3, <2>1, <3>1, <3>3, <4>1 DEF Outside
            <4>2. CASE i # Len(stack)
                BY <1>3, <3>3, <4>2
            <4> QED BY <4>1, <4>2
        <3>5. stack' = Append(s, NewFrame(Chan, "check"))
            BY <2>3, <3>1, <3>2
        <3> QED BY <1>2, <1>3, <1>6, <2>1, <3>3, <3>4, <3>5, CurPush DEF Outside
    <2> QED BY <1>8, <2>2, <2>3 DEF CheckChan
<1>9. CASE CheckDown \/ CheckEof \/ Flush
    <2>1. Top.pc \in Outside /\ stack' = Pop
        BY <1>9 DEF CheckDown, CheckEof, Flush, Return, At, Outside
    <2> QED BY <1>1, <1>2, <2>1, CurPop
<1>10. CASE CheckChanEnds
    <2>1. Top.pc = "ckdel" /\ stack' = Goto("run")
        BY <1>10 DEF CheckChanEnds, At
    <2> QED BY <1>5, <2>1 DEF Outside
<1> QED BY <1>7, <1>8, <1>9, <1>10

\* The steps that leave the calls alone, and those that end the process.
LEMMA CurQuiet ==
    ASSUME CurInv, Peer \/ SignalTerm \/ DeleteChan \/ LoopBreaks \/ HandlerDies \/ UNCHANGED vars
    PROVE  CurInv'
<1>1. CASE LoopBreaks \/ HandlerDies
    <2>1. stack' = <<>>
        BY <1>1 DEF LoopBreaks, HandlerDies
    <2> QED BY <2>1 DEF CurInv, CurOK, SavedOK
<1>2. CASE Peer \/ SignalTerm \/ DeleteChan \/ UNCHANGED vars
    <2>1. stack' = stack /\ cur_source' = cur_source
        BY <1>2 DEF Peer, PeerReads, PeerSends, PeerCloses, SignalTerm, DeleteChan, vars
    <2>2. Top' = Top
        BY <2>1 DEF Top
    <2>3. Innermost' = Innermost
        BY <2>1, <2>2 DEF Innermost
    <2> QED BY <2>1, <2>3 DEF CurInv, CurOK, SavedOK
<1> QED BY <1>1, <1>2

LEMMA CurNext == Inv1 /\ CurInv /\ [Next]_vars => CurInv'
<1> QED BY CurMoves, CurPolls, CurQuiet, CurEnter, CurLeave DEF Next, CheckStep, Stopped

LEMMA CurIsInnermost == Inv1 /\ CurInv => CurSourceIsInnermost
<1> SUFFICES ASSUME Inv1, CurInv, stack # <<>> PROVE CurSourceIsInnermost
    BY DEF CurSourceIsInnermost
<1>1. PICK n \in Nat \ {0} : n = Len(stack) /\ Top = stack[n]
    BY TopFacts DEF Inv1
<1>2. \A i \in 1 .. (n - 1) : stack[i].pc \notin Outside
    BY <1>1 DEF Inv1, StackOK, Outside
<1>3. DOMAIN stack = 1 .. n
    BY <1>1 DEF Inv1, TypeOK
<1>4. PICK m \in 1 .. n : /\ stack[m].pc \notin Outside /\ Innermost = stack[m].t
                          /\ \A j \in 1 .. n : stack[j].pc \notin Outside => j <= m
    <2>1. CASE Top.pc \in Outside
        <3>1. n > 1
            BY <1>1, <2>1 DEF Inv1, StackOK, Outside
        <3>2. n - 1 \in 1 .. n /\ stack[n - 1].pc \notin Outside
            BY <1>2, <3>1
        <3>3. Innermost = stack[n - 1].t
            BY <1>1, <2>1 DEF Innermost
        <3>4. ASSUME NEW j \in 1 .. n, stack[j].pc \notin Outside PROVE j <= n - 1
            <4>1. j # n
                BY <1>1, <2>1, <3>4
            <4> QED BY <4>1
        <3> QED BY <3>2, <3>3, <3>4
    <2>2. CASE Top.pc \notin Outside
        <3>1. Innermost = stack[n].t /\ n \in 1 .. n
            BY <1>1, <2>2 DEF Innermost
        <3> QED BY <1>1, <2>2, <3>1
    <2> QED BY <2>1, <2>2
<1>5. cur_source = stack[m].t
    BY <1>4 DEF CurInv, CurOK
<1> QED BY <1>3, <1>4, <1>5 DEF CurSourceIsInnermost, Outside

\* si->cur_source is the transport whose handler is the innermost one running:
\* trans_check_wait_objs restores it on every path, so what a nested poll sends
\* is charged to the transport that caused it and what follows to the outer one.
THEOREM CurSourceIsInnermostHolds == Spec => []CurSourceIsInnermost
<1> QED BY CurInit, CurNext, CurIsInnermost, Inv1Always, PTL DEF Spec

=============================================================================

---------------------------- MODULE OrdersProofs ----------------------------
(***************************************************************************)
(* The drawing orders: what the client draws is what was asked for, no     *)
(* order is lost but the RAIL orders that are dropped, and nothing waits   *)
(* when the last update has ended.                                         *)
(***************************************************************************)
EXTENDS Orders, NaturalsInduction, WellFoundedInduction, TLAPS

-----------------------------------------------------------------------------
(* The kinds *)

LEMMA Kinds ==
    /\ DOMAIN Primary = {"rect", "screen_blt", "pat_blt", "dest_blt", "line", "mem_blt",
                         "composite_blt", "text"}
    /\ DOMAIN SecondaryKinds \cap DOMAIN Primary = {}
    /\ "same" \notin DOMAIN Primary
    BY DEF Primary, SecondaryKinds

\* The fields of each kind, one by one.
LEMMA KindIs ==
    /\ Primary["rect"] = Rect /\ Primary["screen_blt"] = ScreenBlt /\ Primary["pat_blt"] = PatBlt
    /\ Primary["dest_blt"] = DestBlt /\ Primary["line"] = Line /\ Primary["mem_blt"] = MemBlt
    /\ Primary["composite_blt"] = CompositeBlt /\ Primary["text"] = Text
    BY DEF Primary

LEMMA RectFields ==
    /\ DOMAIN Rect.fields = 1 .. 7
    /\ Rect.fields[1] = C("x") /\ Rect.fields[2] = C("y") /\ Rect.fields[3] = C("cx")
    /\ Rect.fields[4] = C("cy") /\ Rect.fields[5] = F("color0", 1) /\ Rect.fields[6] = F("color1", 1)
    /\ Rect.fields[7] = F("color2", 1)
    BY DEF Rect

LEMMA ScreenBltFields ==
    /\ DOMAIN ScreenBlt.fields = 1 .. 7
    /\ ScreenBlt.fields[1] = C("x") /\ ScreenBlt.fields[2] = C("y") /\ ScreenBlt.fields[3] = C("cx")
    /\ ScreenBlt.fields[4] = C("cy") /\ ScreenBlt.fields[5] = F("rop", 1) /\ ScreenBlt.fields[6] = C("srcx")
    /\ ScreenBlt.fields[7] = C("srcy")
    BY DEF ScreenBlt

LEMMA PatBltFields ==
    /\ DOMAIN PatBlt.fields = 1 .. 12
    /\ PatBlt.fields[1] = C("x") /\ PatBlt.fields[2] = C("y") /\ PatBlt.fields[3] = C("cx")
    /\ PatBlt.fields[4] = C("cy") /\ PatBlt.fields[5] = F("rop", 1) /\ PatBlt.fields[6] = F("bg_color", 3)
    /\ PatBlt.fields[7] = F("fg_color", 3) /\ PatBlt.fields[8] = F("x_origin", 1) /\ PatBlt.fields[9] = F("y_origin", 1)
    /\ PatBlt.fields[10] = F("style", 1) /\ PatBlt.fields[11] = F("pattern0", 1) /\ PatBlt.fields[12] = F("pattern1", 7)
    BY DEF PatBlt

LEMMA DestBltFields ==
    /\ DOMAIN DestBlt.fields = 1 .. 5
    /\ DestBlt.fields[1] = C("x") /\ DestBlt.fields[2] = C("y") /\ DestBlt.fields[3] = C("cx")
    /\ DestBlt.fields[4] = C("cy") /\ DestBlt.fields[5] = F("rop", 1)
    BY DEF DestBlt

LEMMA LineFields ==
    /\ DOMAIN Line.fields = 1 .. 10
    /\ Line.fields[1] = F("mix_mode", 2) /\ Line.fields[2] = C("startx") /\ Line.fields[3] = C("starty")
    /\ Line.fields[4] = C("endx") /\ Line.fields[5] = C("endy") /\ Line.fields[6] = F("bg_color", 3)
    /\ Line.fields[7] = F("rop", 1) /\ Line.fields[8] = F("pen_style", 1) /\ Line.fields[9] = F("pen_width", 1)
    /\ Line.fields[10] = F("pen_color", 3)
    BY DEF Line

LEMMA MemBltFields ==
    /\ DOMAIN MemBlt.fields = 1 .. 9
    /\ MemBlt.fields[1] = F("cache_id", 2) /\ MemBlt.fields[2] = C("x") /\ MemBlt.fields[3] = C("y")
    /\ MemBlt.fields[4] = C("cx") /\ MemBlt.fields[5] = C("cy") /\ MemBlt.fields[6] = F("rop", 1)
    /\ MemBlt.fields[7] = C("srcx") /\ MemBlt.fields[8] = C("srcy") /\ MemBlt.fields[9] = F("cache_idx", 2)
    BY DEF MemBlt

LEMMA CompositeBltFields ==
    /\ DOMAIN CompositeBlt.fields = 1 .. 21
    /\ CompositeBlt.fields[1] = F("srcidx", 2) /\ CompositeBlt.fields[2] = F("srcformat", 4) /\ CompositeBlt.fields[3] = C("srcwidth")
    /\ CompositeBlt.fields[4] = F("srcrepeat", 1) /\ CompositeBlt.fields[5] = F("transform0", 4) /\ CompositeBlt.fields[6] = F("transform1", 36)
    /\ CompositeBlt.fields[7] = F("mskflags", 1) /\ CompositeBlt.fields[8] = F("mskidx", 2) /\ CompositeBlt.fields[9] = F("mskformat", 4)
    /\ CompositeBlt.fields[10] = C("mskwidth") /\ CompositeBlt.fields[11] = F("mskrepeat", 1) /\ CompositeBlt.fields[12] = F("op", 1)
    /\ CompositeBlt.fields[13] = C("srcx") /\ CompositeBlt.fields[14] = C("srcy") /\ CompositeBlt.fields[15] = C("mskx")
    /\ CompositeBlt.fields[16] = C("msky") /\ CompositeBlt.fields[17] = C("dstx") /\ CompositeBlt.fields[18] = C("dsty")
    /\ CompositeBlt.fields[19] = C("width") /\ CompositeBlt.fields[20] = C("height") /\ CompositeBlt.fields[21] = F("dstformat", 4)
    BY DEF CompositeBlt

LEMMA TextFields ==
    /\ DOMAIN Text.fields = 1 .. 22
    /\ Text.fields[1] = F("font", 1) /\ Text.fields[2] = F("flags", 1) /\ Text.fields[3] = Hole
    /\ Text.fields[4] = F("mixmode", 1) /\ Text.fields[5] = F("fg_color", 3) /\ Text.fields[6] = F("bg_color", 3)
    /\ Text.fields[7] = F("clip_left", 2) /\ Text.fields[8] = F("clip_top", 2) /\ Text.fields[9] = F("clip_right", 2)
    /\ Text.fields[10] = F("clip_bottom", 2) /\ Text.fields[11] = F("box_left", 2) /\ Text.fields[12] = F("box_top", 2)
    /\ Text.fields[13] = F("box_right", 2) /\ Text.fields[14] = F("box_bottom", 2) /\ Text.fields[15] = Hole
    /\ Text.fields[16] = Hole /\ Text.fields[17] = Hole /\ Text.fields[18] = Hole
    /\ Text.fields[19] = Hole /\ Text.fields[20] = F("x", 2) /\ Text.fields[21] = F("y", 2)
    /\ Text.fields[22] = F("data", 1)
    BY DEF Text

\* The matrix of a composite order is no coordinate.
LEMMA CoordNames ==
    ASSUME NEW k \in DOMAIN Primary
    PROVE  /\ "transform1" \notin CoordsOf(k)
           /\ CoordsOf(k) \subseteq Names(k)
<1>1. CoordsOf(k) \subseteq Names(k)
    BY DEF CoordsOf, Names
<1>2. SUFFICES ASSUME NEW i \in DOMAIN Primary[k].fields, Primary[k].fields[i].coord
               PROVE  Primary[k].fields[i].name # "transform1"
    BY <1>1 DEF CoordsOf, Fields, Range
<1> USE DEF C, F, Hole
<1>3. CASE k = "rect"
    BY <1>2, <1>3, KindIs, RectFields
<1>4. CASE k = "screen_blt"
    BY <1>2, <1>4, KindIs, ScreenBltFields
<1>5. CASE k = "pat_blt"
    BY <1>2, <1>5, KindIs, PatBltFields
<1>6. CASE k = "dest_blt"
    BY <1>2, <1>6, KindIs, DestBltFields
<1>7. CASE k = "line"
    BY <1>2, <1>7, KindIs, LineFields
<1>8. CASE k = "mem_blt"
    BY <1>2, <1>8, KindIs, MemBltFields
<1>9. CASE k = "composite_blt"
    BY <1>2, <1>9, KindIs, CompositeBltFields
<1>10. CASE k = "text"
    BY <1>2, <1>10, KindIs, TextFields
<1> QED BY <1>3, <1>4, <1>5, <1>6, <1>7, <1>8, <1>9, <1>10, Kinds

\* No other order has a matrix.
LEMMA OnlyComposite ==
    ASSUME NEW k \in DOMAIN Primary, "transform1" \in Names(k)
    PROVE  k = "composite_blt"
<1>1. PICK i \in DOMAIN Primary[k].fields : Primary[k].fields[i].name = "transform1"
    BY DEF Names, Fields, Range
<1> USE DEF C, F, Hole
<1>2. k # "rect"
    BY <1>1, KindIs, RectFields
<1>3. k # "screen_blt"
    BY <1>1, KindIs, ScreenBltFields
<1>4. k # "pat_blt"
    BY <1>1, KindIs, PatBltFields
<1>5. k # "dest_blt"
    BY <1>1, KindIs, DestBltFields
<1>6. k # "line"
    BY <1>1, KindIs, LineFields
<1>7. k # "mem_blt"
    BY <1>1, KindIs, MemBltFields
<1>8. k # "text"
    BY <1>1, KindIs, TextFields
<1> QED BY <1>2, <1>3, <1>4, <1>5, <1>6, <1>7, <1>8, Kinds

-----------------------------------------------------------------------------
(* The difference coding.  One order, written by a server whose state      *)
(* agrees with the client's, is rebuilt by the client, and the states      *)
(* agree again.                                                            *)

LEMMA DeltaRead ==
    ASSUME NEW a \in Int, NEW b \in Int, Abs(a - b) < 128
    PROVE  b + Signed(Byte(a - b), 128) = a
    BY DEF Abs, Byte, Signed

LEMMA CoordInt == \A a \in Coord : a \in Int
    BY DEF Coord

LEMMA WordRead ==
    ASSUME NEW a \in Coord
    PROVE  Signed(Word(a), 32768) = a
<1>1. a \in Int /\ -32768 <= a /\ a <= 32767
    BY DEF Coord
<1>2. Signed(a % 65536, 32768) = a
    BY <1>1 DEF Signed
<1> QED BY <1>2 DEF Word

\* A state of the drawing orders; the client's clip is inclusive.
StateOK(s) ==
    /\ s.last_order \in DOMAIN Primary
    /\ s.clip \in [Sides -> Int]
    /\ DOMAIN s.fld = DOMAIN Primary
    /\ \A k \in DOMAIN Primary : s.fld[k] \in [Names(k) -> Int]

Outer(clip) == [clip EXCEPT !.right = @ + 1, !.bottom = @ + 1]

Agree(s, c) ==
    /\ StateOK(s) /\ StateOK(c)
    /\ s.last_order = c.last_order
    /\ s.clip = Outer(c.clip)
    /\ \A k \in DOMAIN Primary : \A n \in Names(k) \ {"transform1"} : s.fld[k][n] = c.fld[k][n]
    /\ \A k \in DOMAIN Primary : "transform1" \in Names(k) => s.fld[k]["transform1"] = 0

LEMMA OuterSides ==
    ASSUME NEW r \in [Sides -> Int]
    PROVE  /\ Outer(r) \in [Sides -> Int]
           /\ Outer(r)["left"] = r["left"] /\ Outer(r)["top"] = r["top"]
           /\ Outer(r)["right"] = r["right"] + 1 /\ Outer(r)["bottom"] = r["bottom"] + 1
<1> DEFINE q == [r EXCEPT !.right = @ + 1]
<1>1. r["right"] + 1 \in Int /\ r["bottom"] + 1 \in Int
    BY DEF Sides
<1>2. /\ q \in [Sides -> Int] /\ q["right"] = r["right"] + 1
      /\ \A s \in Sides \ {"right"} : q[s] = r[s]
    BY <1>1 DEF Sides
<1>3. Outer(r) = [q EXCEPT !.bottom = @ + 1]
    BY DEF Outer
<1> HIDE DEF q
<1> QED BY <1>1, <1>2, <1>3 DEF Sides

LEMMA StartsAgree == Agree(ServerStart, ClientStart)
<1>1. ASSUME NEW r \in Int PROVE StateOK(ZeroState(r))
    <2>1. ZeroState(r).last_order \in DOMAIN Primary
        BY Kinds DEF ZeroState
    <2>2. ZeroState(r).clip \in [Sides -> Int]
        BY <1>1 DEF ZeroState, Box, Sides
    <2> QED BY <2>1, <2>2 DEF StateOK, ZeroState
<1>2. ServerStart.clip = Outer(ClientStart.clip)
    <2>1. ServerStart.clip = Box(0, 0, 1, 1) /\ ClientStart.clip = Box(0, 0, 0, 0)
        BY DEF ServerStart, ClientStart, ZeroState
    <2>2. Box(0, 0, 0, 0) \in [Sides -> Int] /\ Box(0, 0, 1, 1) \in [Sides -> Int]
        BY DEF Box, Sides
    <2>3. \A s \in Sides : Box(0, 0, 1, 1)[s] = Outer(Box(0, 0, 0, 0))[s]
        BY <2>2, OuterSides DEF Box, Sides
    <2> QED BY <2>1, <2>2, <2>3, OuterSides
<1>3. /\ StateOK(ServerStart) /\ StateOK(ClientStart)
    BY <1>1 DEF ServerStart, ClientStart
<1>4. \A r \in {0, 1}, k \in DOMAIN Primary : \A n \in Names(k) : ZeroState(r).fld[k][n] = 0
    BY DEF ZeroState
<1>5. ServerStart.last_order = ClientStart.last_order
    BY DEF ServerStart, ClientStart, ZeroState
<1> QED BY <1>2, <1>3, <1>4, <1>5 DEF Agree, ServerStart, ClientStart

\* The clip: the client's sides after xrdp_orders_out_bounds.
LEMMA BoundsRead ==
    ASSUME NEW clip \in [Sides -> Int], NEW r, IsClip(r),
           NEW c, c.clip \in [Sides -> Int], clip = Outer(c.clip),
           NEW e, e.sides = OutBounds(clip, r)
    PROVE  /\ [s \in Sides |-> ClientSide(c, e, s)] \in [Sides -> Int]
           /\ Outer([s \in Sides |-> ClientSide(c, e, s)]) = r
<1> DEFINE d == [s \in Sides |-> ClientSide(c, e, s)]
           in(s) == s \in {"right", "bottom"}
<1>1. r \in [Sides -> Coord]
    BY DEF IsClip
<1>2. ASSUME NEW s \in Sides
      PROVE  d[s] = IF in(s) THEN r[s] - 1 ELSE r[s]
    <2>1. PICK a \in Int, b \in Int : a = r[s] /\ b = clip[s]
        BY <1>1, CoordInt
    <2>2. c.clip[s] = IF in(s) THEN b - 1 ELSE b
        BY <2>1, OuterSides DEF Sides
    <2>3. DOMAIN e.sides = {t \in Sides : r[t] # clip[t]}
        BY DEF OutBounds
    <2>4. d[s] = ClientSide(c, e, s)
        OBVIOUS
    <2>5. CASE a = b
        <3>1. s \notin DOMAIN e.sides
            BY <2>1, <2>3, <2>5
        <3> QED BY <2>1, <2>2, <2>4, <2>5, <3>1 DEF ClientSide
    <2>6. CASE a # b
        <3>1. s \in DOMAIN e.sides
            BY <2>1, <2>3, <2>6
        <3>2. CASE Abs(a - b) < 128
            <4>1. e.sides[s] = [delta |-> TRUE, n |-> Byte(a - b)]
                BY <2>1, <2>6, <3>2 DEF OutBounds
            <4>2. d[s] = c.clip[s] + Signed(Byte(a - b), 128)
                BY <2>4, <3>1, <4>1 DEF ClientSide
            <4>3. b + Signed(Byte(a - b), 128) = a
                BY <3>2, DeltaRead
            <4>4. PICK z \in Int : z = Signed(Byte(a - b), 128)
                BY DEF Signed, Byte
            <4> QED BY <2>1, <2>2, <4>2, <4>3, <4>4
        <3>3. CASE ~(Abs(a - b) < 128)
            <4> DEFINE w == IF in(s) THEN a - 1 ELSE a
            <4>1. e.sides[s] = [delta |-> FALSE, n |-> Word(w)]
                BY <2>1, <2>6, <3>3 DEF OutBounds
            <4>2. d[s] = Signed(Word(w), 32768)
                BY <2>4, <3>1, <4>1 DEF ClientSide
            <4>3. w \in Coord
                BY <1>1, <2>1 DEF IsClip
            <4> QED BY <2>1, <4>2, <4>3, WordRead
        <3> QED BY <3>2, <3>3
    <2> QED BY <2>5, <2>6
<1>3. d \in [Sides -> Int]
    <2>1. \A s \in Sides : r[s] \in Int
        BY <1>1, CoordInt
    <2> QED BY <1>2, <2>1
<1> HIDE DEF d
<1>4. Outer(d) \in [Sides -> Int] /\ \A s \in Sides : Outer(d)[s] = r[s]
    <2>1. \A s \in Sides : r[s] \in Int
        BY <1>1, CoordInt
    <2> QED BY <1>2, <1>3, <2>1, OuterSides DEF Sides
<1>5. Outer(d) = r
    BY <1>1, <1>4
<1> QED BY <1>3, <1>5 DEF d

\* The fields of an order as they are sent.
LEMMA EncodeFacts ==
    ASSUME NEW st, NEW op, NEW e, e = Encode(st, op)
    PROVE  LET k == op.kind
               v == op.val
               old == st.fld[k]
               bounded == op.rect # NoRect /\ \E b \in Boxes(k, v) : Exceeds(b, op.rect)
           IN  /\ e.primary /\ e.type = IF st.last_order # k THEN k ELSE "same"
               /\ e.bounds = IF ~bounded THEN "none"
                             ELSE IF op.rect = st.clip THEN "zero" ELSE "sides"
               /\ bounded => e.sides = OutBounds(st.clip, op.rect)
               /\ e.delta = (k # "text" /\ \A n \in CoordsOf(k) : Abs(v[n] - old[n]) < 128)
               /\ DOMAIN e.val = {n \in Names(k) : v[n] # old[n] \/ n = "data"}
               /\ \A n \in DOMAIN e.val :
                     e.val[n] = IF n \notin CoordsOf(k) THEN v[n]
                                ELSE IF e.delta THEN Byte(v[n] - old[n]) ELSE Word(v[n])
    BY DEF Encode

\* Each field of the order the client rebuilds.
LEMMA FieldRead ==
    ASSUME NEW st, NEW c, Agree(st, c), NEW op, IsPrimaryOp(op), NEW e, e = Encode(st, op),
           NEW n \in Names(op.kind)
    PROVE  ClientReads(c, e).fld[op.kind][n] =
              IF n = "transform1" /\ op.val[n] = 0 THEN c.fld[op.kind][n] ELSE op.val[n]
<1> DEFINE k == op.kind
           d == ClientReads(c, e)
<1>1. k \in DOMAIN Primary
    BY DEF IsPrimaryOp, IsPrimary
<1>2. (IF e.type = "same" THEN c.last_order ELSE e.type) = k
    BY <1>1, EncodeFacts, Kinds DEF Agree
<1>3. DOMAIN c.fld = DOMAIN Primary
    BY DEF Agree, StateOK
<1>4. d.fld[k][n] = IF n \notin DOMAIN e.val THEN c.fld[k][n]
                    ELSE IF n \notin CoordsOf(k) THEN e.val[n]
                    ELSE IF e.delta THEN c.fld[k][n] + Signed(e.val[n], 128)
                    ELSE Signed(e.val[n], 32768)
    BY <1>1, <1>2, <1>3 DEF ClientReads
<1>5. PICK a \in Int, b \in Int : a = op.val[n] /\ b = st.fld[k][n]
    BY <1>1 DEF IsPrimaryOp, Agree, StateOK
<1>6. n # "transform1" => b = c.fld[k][n]
    BY <1>1, <1>5 DEF Agree
<1>7. n = "transform1" => b = 0 /\ n \notin CoordsOf(k)
    BY <1>1, <1>5, CoordNames DEF Agree
<1>8. n \in DOMAIN e.val <=> (a # b \/ n = "data")
    BY <1>5, EncodeFacts
<1>9. CASE n \notin DOMAIN e.val
    BY <1>4, <1>5, <1>6, <1>7, <1>8, <1>9
<1>10. CASE n \in DOMAIN e.val /\ n \notin CoordsOf(k)
    <2>1. d.fld[k][n] = a
        BY <1>4, <1>5, <1>10, EncodeFacts
    <2>2. n = "transform1" => a # 0
        BY <1>7, <1>8, <1>10
    <2> QED BY <1>5, <2>1, <2>2
<1>11. CASE n \in DOMAIN e.val /\ n \in CoordsOf(k)
    <2>1. n # "transform1" /\ b = c.fld[k][n]
        BY <1>6, <1>7, <1>11
    <2>2. CASE e.delta
        <3>1. Abs(a - b) < 128
            BY <1>5, <1>11, <2>2, EncodeFacts
        <3>2. d.fld[k][n] = b + Signed(Byte(a - b), 128)
            <4>1. e.val[n] = Byte(op.val[n] - st.fld[k][n])
                BY <1>11, <2>2, EncodeFacts
            <4>2. d.fld[k][n] = c.fld[k][n] + Signed(e.val[n], 128)
                BY <1>4, <1>11, <2>2
            <4>3. e.val[n] = Byte(a - b)
                BY <1>5, <4>1
            <4> QED BY <2>1, <4>2, <4>3
        <3> QED BY <1>5, <2>1, <3>1, <3>2, DeltaRead
    <2>3. CASE ~e.delta
        <3>1. d.fld[k][n] = Signed(Word(a), 32768)
            BY <1>4, <1>5, <1>11, <2>3, EncodeFacts
        <3>2. a \in Coord
            BY <1>5, <1>11 DEF IsPrimaryOp
        <3> QED BY <1>5, <2>1, <3>1, <3>2, WordRead
    <2> QED BY <2>2, <2>3
<1> QED BY <1>9, <1>10, <1>11

\* A coded order is rebuilt and drawn as asked, and the states agree after it.
LEMMA OrderRead ==
    ASSUME NEW st, NEW c, Agree(st, c), NEW op, IsPrimaryOp(op), NEW e, e = Encode(st, op)
    PROVE  /\ Agree(After(st, op, e), ClientReads(c, e))
           /\ SameDrawing(op, Drawing(ClientReads(c, e), e))
<1> DEFINE k == op.kind
           v == op.val
           d == ClientReads(c, e)
           s == After(st, op, e)
           bounded == op.rect # NoRect /\ \E b \in Boxes(k, v) : Exceeds(b, op.rect)
<1>1. k \in DOMAIN Primary /\ v \in [Names(k) -> Int] /\ (op.rect = NoRect \/ IsClip(op.rect))
    BY DEF IsPrimaryOp, IsPrimary
<1>2. d.last_order = k /\ s.last_order = k
    BY <1>1, EncodeFacts, Kinds DEF Agree, ClientReads, After
<1>3. /\ DOMAIN d.fld = DOMAIN Primary /\ DOMAIN s.fld = DOMAIN Primary
      /\ \A j \in DOMAIN Primary \ {k} : d.fld[j] = c.fld[j] /\ s.fld[j] = st.fld[j]
    BY <1>1, EncodeFacts, Kinds DEF Agree, StateOK, ClientReads, After
<1>4. s.fld[k] = [n \in Names(k) |-> IF n = "transform1" THEN st.fld[k][n] ELSE v[n]]
    BY <1>1 DEF Agree, StateOK, After
<1>5. \A n \in Names(k) :
        d.fld[k][n] = IF n = "transform1" /\ v[n] = 0 THEN c.fld[k][n] ELSE v[n]
    BY FieldRead
<1>6. d.fld[k] \in [Names(k) -> Int] /\ s.fld[k] \in [Names(k) -> Int]
    <2>1. DOMAIN d.fld[k] = Names(k) /\ d.fld[k] = [n \in Names(k) |-> d.fld[k][n]]
        <3>1. (IF e.type = "same" THEN c.last_order ELSE e.type) = k
            BY <1>1, EncodeFacts, Kinds DEF Agree
        <3> DEFINE g == [n \in Names(k) |->
                IF n \notin DOMAIN e.val THEN c.fld[k][n]
                ELSE IF n \notin CoordsOf(k) THEN e.val[n]
                ELSE IF e.delta THEN c.fld[k][n] + Signed(e.val[n], 128)
                ELSE Signed(e.val[n], 32768)]
        <3>2. d.fld[k] = g
            BY <1>1, <3>1 DEF ClientReads, Agree, StateOK
        <3>3. g = [n \in Names(k) |-> g[n]]
            OBVIOUS
        <3> QED BY <3>2, <3>3
    <2>2. \A n \in Names(k) : c.fld[k][n] \in Int /\ st.fld[k][n] \in Int /\ v[n] \in Int
        BY <1>1 DEF Agree, StateOK
    <2> QED BY <1>4, <1>5, <2>1, <2>2
<1>d. Drawing(d, e).clip = IF e.bounds = "none" THEN NoRect ELSE Outer(d.clip)
    BY DEF Drawing, Outer
<1>7. /\ s.clip = Outer(d.clip) /\ d.clip \in [Sides -> Int] /\ s.clip \in [Sides -> Int]
      /\ \/ Drawing(d, e).clip = op.rect
         \/ Drawing(d, e).clip = NoRect /\ Within(k, v, op.rect)
    <2>7. CASE e.bounds = "sides"
        <3>1. bounded /\ op.rect # st.clip
            BY <2>7, EncodeFacts
        <3>2. IsClip(op.rect) /\ e.sides = OutBounds(st.clip, op.rect)
            BY <1>1, <3>1, EncodeFacts
        <3>3. s.clip = op.rect /\ d.clip = [t \in Sides |-> ClientSide(c, e, t)]
            BY <2>7 DEF After, ClientReads
        <3>4. /\ d.clip \in [Sides -> Int] /\ Outer(d.clip) = op.rect
            <4>1. st.clip \in [Sides -> Int] /\ c.clip \in [Sides -> Int] /\ st.clip = Outer(c.clip)
                BY DEF Agree, StateOK
            <4> QED BY <3>2, <3>3, <4>1, BoundsRead
        <3>5. s.clip = Outer(d.clip) /\ d.clip \in [Sides -> Int] /\ s.clip \in [Sides -> Int]
            BY <3>3, <3>4, OuterSides
        <3>6. Drawing(d, e).clip = op.rect
            BY <2>7, <1>d, <3>4
        <3> QED BY <3>5, <3>6
    <2>8. CASE e.bounds # "sides"
        <3>1. s.clip = st.clip /\ d.clip = c.clip
            BY <2>8 DEF After, ClientReads
        <3>2. s.clip = Outer(d.clip) /\ d.clip \in [Sides -> Int] /\ s.clip \in [Sides -> Int]
            BY <3>1 DEF Agree, StateOK
        <3>3. CASE e.bounds = "none"
            <4>1. ~bounded
                BY <3>3, EncodeFacts
            <4>2. Drawing(d, e).clip = NoRect
                BY <1>d, <3>3
            <4>3. op.rect # NoRect => Within(k, v, op.rect)
                BY <4>1 DEF Within
            <4> QED BY <3>2, <4>2, <4>3
        <3>4. CASE e.bounds # "none"
            <4>1. op.rect = st.clip
                BY <2>8, <3>4, EncodeFacts
            <4>2. Drawing(d, e).clip = Outer(d.clip)
                BY <1>d, <3>4
            <4> QED BY <3>1, <3>2, <4>1, <4>2
        <3> QED BY <3>3, <3>4
    <2> QED BY <2>7, <2>8
<1>8. StateOK(s) /\ StateOK(d)
    <2>1. \A j \in DOMAIN Primary \ {k} :
            c.fld[j] \in [Names(j) -> Int] /\ st.fld[j] \in [Names(j) -> Int]
        BY DEF Agree, StateOK
    <2> QED BY <1>1, <1>2, <1>3, <1>6, <1>7, <2>1 DEF StateOK
<1>9. Agree(s, d)
    <2>1. ASSUME NEW j \in DOMAIN Primary, NEW n \in Names(j) \ {"transform1"}
          PROVE  s.fld[j][n] = d.fld[j][n]
        <3>1. CASE j = k
            BY <1>4, <1>5, <3>1
        <3>2. CASE j # k
            BY <1>3, <3>2 DEF Agree
        <3> QED BY <3>1, <3>2
    <2>2. ASSUME NEW j \in DOMAIN Primary, "transform1" \in Names(j)
          PROVE  s.fld[j]["transform1"] = 0
        <3>1. st.fld[j]["transform1"] = 0
            BY <2>2 DEF Agree
        <3> QED BY <1>3, <1>4, <2>2, <3>1
    <2> QED BY <1>2, <1>7, <1>8, <2>1, <2>2 DEF Agree
<1>10. SameDrawing(op, Drawing(d, e))
    <2>1. Drawing(d, e).kind = k /\ Drawing(d, e).val = d.fld[k]
        BY <1>2 DEF Drawing
    <2>2. ASSUME NEW n \in DOMAIN v PROVE SameValue(op, Drawing(d, e), n)
        <3>1. n \in Names(k)
            BY <1>1
        <3>2. CASE n = "transform1" /\ v[n] = 0
            <4>1. k = "composite_blt"
                BY <1>1, <3>1, <3>2, OnlyComposite
            <4> QED BY <3>2, <4>1 DEF IsPrimaryOp, SameValue
        <3>3. CASE ~(n = "transform1" /\ v[n] = 0)
            BY <1>5, <2>1, <3>1, <3>3 DEF SameValue
        <3> QED BY <3>2, <3>3
    <2> QED BY <1>1, <1>7, <2>1, <2>2 DEF SameDrawing, IsPrimary
<1> QED BY <1>9, <1>10

-----------------------------------------------------------------------------
(* Recursion over a PDU.  The provers know no induction, so a property of  *)
(* a recursive function is shown for a least number where it would fail.   *)

LEMMA LeastElement ==
    ASSUME NEW S \in SUBSET Nat, S # {}
    PROVE  \E x \in S : \A y \in S : x <= y
<1> DEFINE R == {ss \in Nat \X Nat : ss[1] < ss[2]}
<1>1. IsWellFoundedOn(R, Nat)
    BY NatLessThanWellFounded DEF OpToRel
<1>2. PICK x \in S : \A y \in S : <<y, x>> \notin R
    <2> HIDE DEF R
    <2> QED BY <1>1, WFMin
<1>3. ASSUME NEW y \in S PROVE x <= y
    <2>1. <<y, x>> \in Nat \X Nat /\ <<y, x>>[1] = y /\ <<y, x>>[2] = x
        OBVIOUS
    <2>2. ~(y < x)
        BY <1>2, <2>1
    <2> QED BY <2>2
<1> QED BY <1>3

\* The states of the client while it reads pdu, as ClientAfter has them.
ReadUpTo(f, c, pdu, n) ==
    f = [i \in 0 .. n |-> IF i = 0 THEN c ELSE Reads(f[i - 1], pdu[i])]

LEMMA ReadExists ==
    ASSUME NEW c, NEW pdu, NEW m \in Nat
    PROVE  \E f : ReadUpTo(f, c, pdu, m)
<1> DEFINE Bad == {n \in Nat : ~\E f : ReadUpTo(f, c, pdu, n)}
<1>1. SUFFICES ASSUME Bad # {} PROVE FALSE
    OBVIOUS
<1>2. PICK n \in Bad : \A y \in Bad : n <= y
    <2>1. Bad \in SUBSET Nat
        OBVIOUS
    <2> HIDE DEF Bad
    <2> QED BY <1>1, <2>1, LeastElement
<1>3. n \in Nat /\ ~\E f : ReadUpTo(f, c, pdu, n)
    OBVIOUS
<1>4. CASE n = 0
    <2> DEFINE f == [i \in 0 .. n |-> c]
    <2>1. ReadUpTo(f, c, pdu, n)
        BY <1>4 DEF ReadUpTo
    <2> QED BY <1>3, <2>1
<1>5. CASE n # 0
    <2>1. n - 1 \in Nat /\ n - 1 \notin Bad
        BY <1>2, <1>3, <1>5
    <2>2. PICK f : ReadUpTo(f, c, pdu, n - 1)
        BY <2>1
    <2>3. \A i \in 0 .. n - 1 : f[i] = IF i = 0 THEN c ELSE Reads(f[i - 1], pdu[i])
        BY <2>2 DEF ReadUpTo
    <2> DEFINE g == [i \in 0 .. n |-> IF i < n THEN f[i] ELSE Reads(f[n - 1], pdu[n])]
    <2>4. ASSUME NEW i \in 0 .. n
          PROVE  g[i] = IF i = 0 THEN c ELSE Reads(g[i - 1], pdu[i])
        <3>1. CASE i = n
            <4>1. n - 1 \in 0 .. n /\ n - 1 < n
                BY <1>3, <1>5
            <4>2. g[n - 1] = f[n - 1]
                BY <4>1
            <4> QED BY <1>5, <3>1, <4>2
        <3>2. CASE i # n
            <4>1. i \in 0 .. n - 1 /\ i < n /\ (i # 0 => i - 1 \in 0 .. n /\ i - 1 < n)
                BY <1>3, <3>2
            <4>2. g[i] = f[i] /\ (i # 0 => g[i - 1] = f[i - 1])
                BY <4>1
            <4> QED BY <2>3, <4>1, <4>2
        <3> QED BY <3>1, <3>2
    <2>5. ReadUpTo(g, c, pdu, n)
        <3>1. g = [i \in 0 .. n |-> g[i]]
            OBVIOUS
        <3> HIDE DEF g
        <3> QED BY <2>4, <3>1 DEF ReadUpTo
    <2> QED BY <1>3, <2>5
<1> QED BY <1>4, <1>5

Reading(c, pdu) ==
    LET at[i \in 0 .. Len(pdu)] == IF i = 0 THEN c ELSE Reads(at[i - 1], pdu[i])
    IN  at

LEMMA ReadingIs ==
    ASSUME NEW c, NEW pdu, Len(pdu) \in Nat
    PROVE  /\ Reading(c, pdu)[0] = c
           /\ \A i \in 1 .. Len(pdu) : Reading(c, pdu)[i] = Reads(Reading(c, pdu)[i - 1], pdu[i])
<1>1. ReadUpTo(Reading(c, pdu), c, pdu, Len(pdu))
    <2>1. \E f : ReadUpTo(f, c, pdu, Len(pdu))
        BY ReadExists
    <2>2. Reading(c, pdu) = CHOOSE f : ReadUpTo(f, c, pdu, Len(pdu))
        BY DEF Reading, ReadUpTo
    <2> QED BY <2>1, <2>2
<1> HIDE DEF Reading
<1> QED BY <1>1 DEF ReadUpTo

-----------------------------------------------------------------------------
(* The orders of a PDU, one after the other *)

\* The sequences of the model hold orders of any kind.
AnySeq(q) == \E S : q \in Seq(S)

LEMMA SeqEmpty == AnySeq(<<>>) /\ Len(<<>>) = 0
    BY DEF AnySeq

LEMMA SeqAppend ==
    ASSUME NEW q, AnySeq(q), NEW x
    PROVE  /\ AnySeq(Append(q, x)) /\ Len(q) \in Nat /\ Len(Append(q, x)) = Len(q) + 1
           /\ Append(q, x)[Len(q) + 1] = x
           /\ \A i \in 1 .. Len(q) : Append(q, x)[i] = q[i]
<1>1. PICK S : q \in Seq(S)
    BY DEF AnySeq
<1>2. q \in Seq(S \cup {x})
    BY <1>1
<1>3. Append(q, x) \in Seq(S \cup {x})
    BY <1>2
<1> QED BY <1>2, <1>3 DEF AnySeq

LEMMA SeqJoin ==
    ASSUME NEW q, AnySeq(q), NEW r, AnySeq(r)
    PROVE  /\ AnySeq(q \o r) /\ Len(q) \in Nat /\ Len(r) \in Nat
           /\ Len(q \o r) = Len(q) + Len(r)
           /\ \A i \in 1 .. Len(q) : (q \o r)[i] = q[i]
           /\ \A i \in 1 .. Len(r) : (q \o r)[Len(q) + i] = r[i]
<1>1. PICK S, T : q \in Seq(S) /\ r \in Seq(T)
    BY DEF AnySeq
<1>2. q \in Seq(S \cup T) /\ r \in Seq(S \cup T)
    BY <1>1
<1>3. q \o r \in Seq(S \cup T)
    BY <1>2
<1> QED BY <1>2, <1>3 DEF AnySeq

\* One order takes the server from state s to state s2.
Step(s, item, s2) ==
    IF item.e.primary
    THEN IsPrimaryOp(item.op) /\ item.e = Encode(s, item.op) /\ s2 = After(s, item.op, item.e)
    ELSE IsSecondaryOp(item.op) /\ s2 = s

\* The orders of q take it from s to s2, through the states of h.
Run(h, q, s, s2) ==
    /\ h[0] = s /\ h[Len(q)] = s2
    /\ \A i \in 1 .. Len(q) : Step(h[i - 1], q[i], h[i])

Coded(q, s, s2) == \E h : Run(h, q, s, s2)

LEMMA CodedEmpty ==
    ASSUME NEW s
    PROVE  Coded(<<>>, s, s)
<1>1. Run([i \in {0} |-> s], <<>>, s, s)
    BY SeqEmpty DEF Run
<1> QED BY <1>1 DEF Coded

LEMMA CodedAppend ==
    ASSUME NEW q, AnySeq(q), NEW s, NEW s2, NEW s3, NEW x,
           Coded(q, s, s2), Step(s2, x, s3)
    PROVE  Coded(Append(q, x), s, s3)
<1>1. PICK h : Run(h, q, s, s2)
    BY DEF Coded
<1>2. PICK n \in Nat : /\ n = Len(q) /\ Len(Append(q, x)) = n + 1
                       /\ Append(q, x)[n + 1] = x
                       /\ \A i \in 1 .. n : Append(q, x)[i] = q[i]
    BY SeqAppend
<1> DEFINE g == [i \in 0 .. n + 1 |-> IF i <= n THEN h[i] ELSE s3]
<1>3. /\ g[0] = s /\ g[n + 1] = s3 /\ g[n] = s2
      /\ \A i \in 0 .. n : g[i] = h[i]
    BY <1>1, <1>2 DEF Run
<1> HIDE DEF g
<1>4. \A i \in 1 .. n + 1 : Step(g[i - 1], Append(q, x)[i], g[i])
    <2> SUFFICES ASSUME NEW i \in 1 .. n + 1
                 PROVE  Step(g[i - 1], Append(q, x)[i], g[i])
        OBVIOUS
    <2>1. CASE i = n + 1
        BY <1>2, <1>3, <2>1
    <2>2. CASE i # n + 1
        <3>1. i \in 1 .. n /\ i \in 0 .. n /\ i - 1 \in 0 .. n
            BY <2>2
        <3>2. g[i] = h[i] /\ g[i - 1] = h[i - 1] /\ Append(q, x)[i] = q[i]
            BY <1>2, <1>3, <3>1
        <3>3. Step(h[i - 1], q[i], h[i])
            BY <1>1, <1>2, <3>1 DEF Run
        <3> QED BY <3>2, <3>3
    <2> QED BY <2>1, <2>2
<1> QED BY <1>2, <1>3, <1>4 DEF Coded, Run

LEMMA CodedJoin ==
    ASSUME NEW q, AnySeq(q), NEW r, AnySeq(r), NEW s, NEW s2, NEW s3,
           Coded(q, s, s2), Coded(r, s2, s3)
    PROVE  Coded(q \o r, s, s3)
<1>1. PICK h, k : Run(h, q, s, s2) /\ Run(k, r, s2, s3)
    BY DEF Coded
<1>a. /\ Len(q) \in Nat /\ Len(r) \in Nat /\ Len(q \o r) = Len(q) + Len(r)
      /\ \A i \in 1 .. Len(q) : (q \o r)[i] = q[i]
      /\ \A i \in 1 .. Len(r) : (q \o r)[Len(q) + i] = r[i]
    BY SeqJoin
<1>2. PICK n \in Nat, m \in Nat :
        /\ n = Len(q) /\ m = Len(r) /\ Len(q \o r) = n + m
        /\ \A i \in 1 .. n : (q \o r)[i] = q[i]
        /\ \A i \in 1 .. m : (q \o r)[n + i] = r[i]
    BY <1>a
<1> DEFINE g == [i \in 0 .. n + m |-> IF i <= n THEN h[i] ELSE k[i - n]]
<1>3. \A i \in 0 .. n : g[i] = h[i]
    OBVIOUS
<1>4. \A i \in 0 .. m : g[n + i] = k[i]
    <2> SUFFICES ASSUME NEW i \in 0 .. m PROVE g[n + i] = k[i]
        OBVIOUS
    <2>1. CASE i = 0
        BY <1>1, <1>2, <2>1 DEF Run
    <2>2. CASE i # 0
        BY <2>2
    <2> QED BY <2>1, <2>2
<1> HIDE DEF g
<1>5. g[0] = s /\ g[n + m] = s3
    BY <1>1, <1>2, <1>3, <1>4 DEF Run
<1>6. \A i \in 1 .. n + m : Step(g[i - 1], (q \o r)[i], g[i])
    <2> SUFFICES ASSUME NEW i \in 1 .. n + m
                 PROVE  Step(g[i - 1], (q \o r)[i], g[i])
        OBVIOUS
    <2>1. CASE i <= n
        <3>1. i \in 1 .. n /\ i \in 0 .. n /\ i - 1 \in 0 .. n
            BY <2>1
        <3>2. g[i] = h[i] /\ g[i - 1] = h[i - 1] /\ (q \o r)[i] = q[i]
            BY <1>2, <1>3, <3>1
        <3>3. Step(h[i - 1], q[i], h[i])
            BY <1>1, <1>2, <3>1 DEF Run
        <3> QED BY <3>2, <3>3
    <2>2. CASE ~(i <= n)
        <3>1. PICK j \in 1 .. m : i = n + j /\ i - 1 = n + (j - 1) /\ j \in 0 .. m /\ j - 1 \in 0 .. m
            <4>1. i - n \in 1 .. m /\ i = n + (i - n) /\ i - 1 = n + ((i - n) - 1)
                BY <2>2
            <4> QED BY <4>1
        <3>2. g[i] = k[j] /\ g[i - 1] = k[j - 1] /\ (q \o r)[i] = r[j]
            BY <1>2, <1>4, <3>1
        <3>3. Step(k[j - 1], r[j], k[j])
            BY <1>1, <1>2, <3>1 DEF Run
        <3> QED BY <3>2, <3>3
    <2> QED BY <2>1, <2>2
<1> QED BY <1>2, <1>5, <1>6 DEF Coded, Run

\* What the client draws for the order i of q, when it starts in state c.
DrawnFor(c, q, i) ==
    IF q[i].e.primary THEN Drawing(Reading(c, q)[i], q[i].e)
    ELSE [kind |-> q[i].op.kind, val |-> q[i].op.val]

\* A PDU is drawn as asked, and the states agree after it.
LEMMA PduRead ==
    ASSUME NEW q, AnySeq(q), NEW c, NEW s, NEW s2, Agree(s, c), Coded(q, s, s2)
    PROVE  /\ Agree(s2, Reading(c, q)[Len(q)])
           /\ \A i \in 1 .. Len(q) : SameDrawing(q[i].op, DrawnFor(c, q, i))
<1>1. PICK h : Run(h, q, s, s2)
    BY DEF Coded
<1>2. PICK n \in Nat : n = Len(q)
    BY SeqAppend
<1> DEFINE at == Reading(c, q)
<1>3. at[0] = c /\ \A i \in 1 .. n : at[i] = Reads(at[i - 1], q[i])
    BY <1>2, ReadingIs
<1> HIDE DEF at
<1>4. ASSUME NEW i \in 1 .. n, Agree(h[i - 1], at[i - 1])
      PROVE  /\ Agree(h[i], at[i])
             /\ SameDrawing(q[i].op, IF q[i].e.primary THEN Drawing(at[i], q[i].e)
                                     ELSE [kind |-> q[i].op.kind, val |-> q[i].op.val])
    <2>1. Step(h[i - 1], q[i], h[i])
        BY <1>1, <1>2 DEF Run
    <2>2. CASE q[i].e.primary
        <3>1. /\ IsPrimaryOp(q[i].op) /\ q[i].e = Encode(h[i - 1], q[i].op)
              /\ h[i] = After(h[i - 1], q[i].op, q[i].e)
            BY <2>1, <2>2 DEF Step
        <3>2. at[i] = ClientReads(at[i - 1], q[i].e)
            BY <1>3, <2>2 DEF Reads
        <3> QED BY <1>4, <2>2, <3>1, <3>2, OrderRead
    <2>3. CASE ~q[i].e.primary
        <3>1. IsSecondaryOp(q[i].op) /\ h[i] = h[i - 1]
            BY <2>1, <2>3 DEF Step
        <3>2. at[i] = at[i - 1]
            BY <1>3, <2>3 DEF Reads
        <3>3. ~IsPrimary(q[i].op.kind)
            BY <3>1, Kinds DEF IsSecondaryOp, IsPrimary
        <3>4. SameDrawing(q[i].op, [kind |-> q[i].op.kind, val |-> q[i].op.val])
            BY <3>3 DEF SameDrawing
        <3> QED BY <1>4, <2>3, <3>1, <3>2, <3>4
    <2> QED BY <2>2, <2>3
<1>5. \A i \in 0 .. n : Agree(h[i], at[i])
    <2> DEFINE Bad == {i \in 0 .. n : ~Agree(h[i], at[i])}
    <2>1. SUFFICES ASSUME Bad # {} PROVE FALSE
        OBVIOUS
    <2>2. PICK i \in Bad : \A j \in Bad : i <= j
        <3>1. Bad \in SUBSET Nat
            OBVIOUS
        <3> HIDE DEF Bad
        <3> QED BY <2>1, <3>1, LeastElement
    <2>3. i # 0
        BY <1>1, <1>3 DEF Run
    <2>4. i \in 1 .. n /\ i - 1 \in 0 .. n /\ i - 1 \notin Bad
        BY <2>2, <2>3
    <2>5. Agree(h[i - 1], at[i - 1])
        BY <2>4
    <2> QED BY <1>4, <2>4, <2>5
<1>6. Agree(s2, at[n])
    BY <1>1, <1>2, <1>5 DEF Run
<1>7. ASSUME NEW i \in 1 .. n PROVE SameDrawing(q[i].op, DrawnFor(c, q, i))
    <2>1. i - 1 \in 0 .. n
        OBVIOUS
    <2> QED BY <1>4, <1>5, <2>1 DEF DrawnFor, at
<1> QED BY <1>2, <1>6, <1>7 DEF at

-----------------------------------------------------------------------------
(* The stream of orders *)

\* What waits in out_s: an inactive stream holds nothing that may still leave.
Waiting(o) == IF o.order_level > 0 THEN o.out ELSE <<>>

\* The counters of the stream say what it holds.
StreamOK(o) ==
    /\ DOMAIN o = {"order_level", "order_count", "out", "size"}
    /\ o.order_level \in Nat /\ o.order_count \in Nat /\ o.size \in Nat
    /\ AnySeq(Waiting(o)) /\ o.order_count = Len(Waiting(o))

LEMMA WholePdu ==
    ASSUME NEW o, StreamOK(o), o.order_level > 0
    PROVE  Pdu(o) = o.out
<1>1. PICK S : o.out \in Seq(S)
    BY DEF StreamOK, Waiting, AnySeq
<1>2. o.order_count = Len(o.out)
    BY DEF StreamOK, Waiting
<1>3. PICK n \in Nat : n = Len(o.out)
    BY <1>1
<1>4. SubSeq(o.out, 1, n) \in Seq(S) /\ Len(SubSeq(o.out, 1, n)) = n
    BY <1>1, <1>3
<1>5. \A i \in 1 .. n : SubSeq(o.out, 1, n)[i] = o.out[i]
    BY <1>1, <1>3
<1> QED BY <1>1, <1>2, <1>3, <1>4, <1>5 DEF Pdu

\* A sequence of length zero is empty.
LEMMA NoneWaiting ==
    ASSUME NEW o, StreamOK(o), o.order_count = 0
    PROVE  Waiting(o) = <<>>
<1>1. PICK S : Waiting(o) \in Seq(S)
    BY DEF StreamOK, AnySeq
<1>2. PICK q \in Seq(S) : q = Waiting(o) /\ Len(q) = 0
    BY <1>1 DEF StreamOK
<1>3. q = <<>>
    BY <1>2
<1> QED BY <1>2, <1>3

LEMMA InitStream ==
    ASSUME NEW o, StreamOK(o)
    PROVE  /\ StreamOK(OrdersInit(o)) /\ Waiting(OrdersInit(o)) = Waiting(o)
           /\ OrdersInit(o).order_level = o.order_level + 1
           /\ OrdersInit(o).size = IF o.order_level = 0 THEN Header ELSE o.size
<1>1. CASE o.order_level = 0
    BY <1>1, SeqEmpty DEF StreamOK, Waiting, OrdersInit, Header
<1>2. CASE o.order_level # 0
    <2> DEFINE p == [o EXCEPT !.order_level = @ + 1]
    <2>1. /\ DOMAIN p = DOMAIN o /\ p.order_level = o.order_level + 1
          /\ p.order_count = o.order_count /\ p.out = o.out /\ p.size = o.size
        BY DEF StreamOK
    <2>2. OrdersInit(o) = p
        BY <1>2 DEF OrdersInit
    <2> HIDE DEF p
    <2> QED BY <1>2, <2>1, <2>2 DEF StreamOK, Waiting
<1> QED BY <1>1, <1>2

LEMMA ForcedStream ==
    ASSUME NEW o, StreamOK(o)
    PROVE  /\ StreamOK(ForceSend(o)) /\ Waiting(ForceSend(o)) = <<>>
           /\ ForceSend(o).order_level = 0 /\ Forced(o) = Waiting(o)
<1> DEFINE p == ForceSend(o)
<1>1. /\ DOMAIN p = DOMAIN o /\ p.order_level = 0 /\ p.order_count = 0 /\ p.size = o.size
    BY DEF StreamOK, ForceSend
<1>2. Forced(o) = Waiting(o)
    BY WholePdu DEF Forced, Waiting, StreamOK
<1> HIDE DEF p
<1>3. Waiting(p) = <<>>
    BY <1>1 DEF Waiting
<1>4. StreamOK(p)
    BY <1>1, <1>3, SeqEmpty DEF StreamOK
<1> QED BY <1>1, <1>2, <1>3, <1>4 DEF p

\* The PDU that the outermost xrdp_orders_send sends, if any.
Sent(o) == IF SendsPdu(o) THEN Pdu(o) ELSE <<>>

LEMMA SentStream ==
    ASSUME NEW o, StreamOK(o)
    PROVE  /\ StreamOK(OrdersSend(o))
           /\ OrdersSend(o).order_level = IF o.order_level = 0 THEN 0 ELSE o.order_level - 1
           /\ OrdersSend(o).size = o.size
           /\ \/ o.order_level = 1 /\ Sent(o) = Waiting(o) /\ Waiting(OrdersSend(o)) = <<>>
              \/ o.order_level # 1 /\ Sent(o) = <<>> /\ Waiting(OrdersSend(o)) = Waiting(o)
<1> DEFINE p == OrdersSend(o)
<1>0. o.order_level \in Nat /\ o.order_count \in Nat
    BY DEF StreamOK
<1>1. CASE o.order_level = 0
    BY <1>1 DEF OrdersSend, Waiting, Sent, SendsPdu
<1>2. CASE o.order_level # 0
    <2>1. /\ DOMAIN p = DOMAIN o /\ p.order_level = o.order_level - 1
          /\ p.order_count = (IF SendsPdu(o) THEN 0 ELSE o.order_count)
          /\ p.out = o.out /\ p.size = o.size
        BY <1>2 DEF StreamOK, OrdersSend
    <2> HIDE DEF p
    <2>2. CASE o.order_level = 1
        <3>1. Waiting(p) = <<>> /\ p.order_count = 0 /\ p.order_level = 0
            BY <1>0, <2>1, <2>2 DEF Waiting, SendsPdu
        <3>2. StreamOK(p)
            BY <2>1, <3>1, SeqEmpty DEF StreamOK
        <3>3. Sent(o) = Waiting(o)
            <4>1. CASE o.order_count = 0
                BY <4>1, NoneWaiting DEF Sent, SendsPdu
            <4>2. CASE o.order_count # 0
                BY <1>0, <2>2, <4>2, WholePdu DEF Sent, SendsPdu, Waiting
            <4> QED BY <4>1, <4>2
        <3> QED BY <2>1, <2>2, <3>1, <3>2, <3>3 DEF p
    <2>3. CASE o.order_level # 1
        <3>1. p.order_level > 0 /\ p.order_level \in Nat /\ p.order_count = o.order_count
            BY <1>0, <1>2, <2>1, <2>3 DEF SendsPdu
        <3>2. Waiting(p) = Waiting(o)
            BY <1>0, <1>2, <2>1, <3>1 DEF Waiting
        <3>3. StreamOK(p) /\ Sent(o) = <<>>
            BY <2>1, <2>3, <3>1, <3>2 DEF StreamOK, Sent, SendsPdu
        <3> QED BY <2>1, <1>2, <2>3, <3>2, <3>3 DEF p
    <2> QED BY <2>2, <2>3
<1> QED BY <1>1, <1>2

\* What leaves when xrdp_orders_check finds the stream full.
Overflow(o, max) == IF Full(o, max) THEN Forced(o) ELSE <<>>

LEMMA CheckedStream ==
    ASSUME NEW o, StreamOK(o), NEW max
    PROVE  /\ StreamOK(OrdersCheck(o, max))
           /\ OrdersCheck(o, max).order_level \in Nat
           /\ OrdersCheck(o, max).order_level > 0
           /\ OrdersCheck(o, max).order_level <= o.order_level \/ OrdersCheck(o, max).order_level = 1
           /\ \/ /\ Full(o, max) /\ Overflow(o, max) = Waiting(o)
                 /\ Waiting(OrdersCheck(o, max)) = <<>> /\ OrdersCheck(o, max).order_level = 1
                 /\ OrdersCheck(o, max).size = Header
              \/ /\ ~Full(o, max) /\ Overflow(o, max) = <<>>
                 /\ Waiting(OrdersCheck(o, max)) = Waiting(o)
                 /\ OrdersCheck(o, max).size = IF o.order_level = 0 THEN Header ELSE o.size
<1>0. o.order_level \in Nat
    BY DEF StreamOK
<1>1. CASE o.order_level = 0
    <2>1. ~Full(o, max) /\ OrdersCheck(o, max) = OrdersInit(o)
        BY <1>1 DEF Full, OrdersCheck
    <2> QED BY <1>1, <2>1, InitStream DEF Overflow
<1>2. CASE o.order_level # 0 /\ Full(o, max)
    <2> DEFINE p == ForceSend(o)
    <2>1. StreamOK(p) /\ Waiting(p) = <<>> /\ p.order_level = 0 /\ Forced(o) = Waiting(o)
        BY ForcedStream
    <2>2. OrdersCheck(o, max) = OrdersInit(p) /\ Overflow(o, max) = Waiting(o)
        BY <1>2, <2>1 DEF OrdersCheck, Overflow
    <2> HIDE DEF p
    <2> QED BY <1>2, <2>1, <2>2, InitStream
<1>3. CASE o.order_level # 0 /\ ~Full(o, max)
    <2>1. OrdersCheck(o, max) = o /\ Overflow(o, max) = <<>>
        BY <1>3 DEF OrdersCheck, Overflow
    <2> QED BY <1>0, <1>3, <2>1
<1> QED BY <1>1, <1>2, <1>3

\* The bytes an order takes in the stream.
Written(op, e) == IF e.primary THEN EncodedSize(op, e)
                  ELSE SecondaryKinds[op.kind].bytes + op.val.row * op.val.rows

LEMMA OutStream ==
    ASSUME NEW o, StreamOK(o), o.order_level > 0, NEW op, NEW e, Written(op, e) \in Nat
    PROVE  /\ StreamOK(Out(o, op, e)) /\ Out(o, op, e).order_level = o.order_level
           /\ Waiting(Out(o, op, e)) = Append(Waiting(o), [op |-> op, e |-> e])
           /\ Out(o, op, e).size = o.size + Written(op, e)
<1> DEFINE p == Out(o, op, e)
           item == [op |-> op, e |-> e]
<1>1. /\ DOMAIN p = DOMAIN o /\ p.order_level = o.order_level
      /\ p.order_count = o.order_count + 1 /\ p.out = Append(o.out, item)
      /\ p.size = o.size + Written(op, e)
    BY DEF StreamOK, Out, Written
<1> HIDE DEF p, item
<1>2. Waiting(o) = o.out /\ Waiting(p) = Append(o.out, item)
    BY <1>1 DEF Waiting
<1>3. /\ AnySeq(Append(o.out, item)) /\ Len(o.out) \in Nat
      /\ Len(Append(o.out, item)) = Len(o.out) + 1
    BY <1>2, SeqAppend DEF StreamOK
<1>4. PICK a \in Nat, b \in Nat : a = o.size /\ b = Written(op, e)
    BY DEF StreamOK
<1>5. p.size \in Nat /\ p.order_count \in Nat
    BY <1>1, <1>4 DEF StreamOK
<1>6. StreamOK(p)
    BY <1>1, <1>2, <1>3, <1>5 DEF StreamOK
<1> QED BY <1>1, <1>2, <1>6 DEF p, item

-----------------------------------------------------------------------------
(* The size of an order.  Its fields never take more than it announces; its *)
(* header takes at most 14 bytes more.                                      *)

\* The bytes of one field, as EncodedSize has them.
Width(f, op, e) == IF f.coord /\ e.delta THEN 1
                   ELSE IF f.name = "data" THEN 1 + op.val.data ELSE f.bytes

SentBits(fields, e) == {i \in DOMAIN fields : fields[i].name \in DOMAIN e.val}

FieldBytes(fields, op, e) ==
    LET upto[i \in 0 .. Len(fields)] ==
            IF i = 0 THEN 0
            ELSE upto[i - 1] + (IF i \in SentBits(fields, e) THEN Width(fields[i], op, e) ELSE 0)
    IN  upto

SideBytes(e, s) == IF s \notin DOMAIN e.sides THEN 0 ELSE IF e.sides[s].delta THEN 1 ELSE 2
MaskByte(fields, e, n) == IF \E i \in SentBits(fields, e) : i > 8 * n THEN 1 ELSE 0

LEMMA SizeParts ==
    ASSUME NEW op, NEW e
    PROVE  LET fields == Primary[op.kind].fields
           IN  EncodedSize(op, e) =
                 1 + (IF e.type = "same" THEN 0 ELSE 1) + MaskByte(fields, e, 0)
                 + MaskByte(fields, e, 1) + MaskByte(fields, e, 2)
                 + (IF e.bounds = "sides"
                    THEN 1 + SideBytes(e, "left") + SideBytes(e, "top") + SideBytes(e, "right")
                           + SideBytes(e, "bottom") ELSE 0)
                 + FieldBytes(fields, op, e)[Len(fields)]
    BY DEF EncodedSize, MaskByte, SideBytes, FieldBytes, SentBits, Width

BytesUpTo(u, fields, op, e, n) ==
    u = [i \in 0 .. n |->
           IF i = 0 THEN 0
           ELSE u[i - 1] + (IF i \in SentBits(fields, e) THEN Width(fields[i], op, e) ELSE 0)]

LEMMA BytesExist ==
    ASSUME NEW fields, NEW op, NEW e, NEW m \in Nat
    PROVE  \E u : BytesUpTo(u, fields, op, e, m)
<1> DEFINE Bad == {n \in Nat : ~\E u : BytesUpTo(u, fields, op, e, n)}
           w(i) == IF i \in SentBits(fields, e) THEN Width(fields[i], op, e) ELSE 0
<1>1. SUFFICES ASSUME Bad # {} PROVE FALSE
    OBVIOUS
<1>2. PICK n \in Bad : \A y \in Bad : n <= y
    <2>1. Bad \in SUBSET Nat
        OBVIOUS
    <2> HIDE DEF Bad
    <2> QED BY <1>1, <2>1, LeastElement
<1>3. n \in Nat /\ ~\E u : BytesUpTo(u, fields, op, e, n)
    OBVIOUS
<1>4. CASE n = 0
    <2> DEFINE u == [i \in 0 .. n |-> 0]
    <2>1. BytesUpTo(u, fields, op, e, n)
        BY <1>4 DEF BytesUpTo
    <2> QED BY <1>3, <2>1
<1>5. CASE n # 0
    <2>1. n - 1 \in Nat /\ n - 1 \notin Bad
        BY <1>2, <1>3, <1>5
    <2>2. PICK u : BytesUpTo(u, fields, op, e, n - 1)
        BY <2>1
    <2>3. \A i \in 0 .. n - 1 : u[i] = IF i = 0 THEN 0 ELSE u[i - 1] + w(i)
        BY <2>2 DEF BytesUpTo
    <2> DEFINE g == [i \in 0 .. n |-> IF i < n THEN u[i] ELSE u[n - 1] + w(n)]
    <2>4. ASSUME NEW i \in 0 .. n
          PROVE  g[i] = IF i = 0 THEN 0 ELSE g[i - 1] + w(i)
        <3> HIDE DEF w
        <3>1. CASE i = n
            <4>1. n - 1 \in 0 .. n /\ n - 1 < n
                BY <1>3, <1>5
            <4>2. g[n - 1] = u[n - 1]
                BY <4>1
            <4> QED BY <1>5, <3>1, <4>2
        <3>2. CASE i # n
            <4>1. i \in 0 .. n - 1 /\ i < n /\ (i # 0 => i - 1 \in 0 .. n /\ i - 1 < n)
                BY <1>3, <3>2
            <4>2. g[i] = u[i] /\ (i # 0 => g[i - 1] = u[i - 1])
                BY <4>1
            <4> QED BY <2>3, <4>1, <4>2
        <3> QED BY <3>1, <3>2
    <2>5. BytesUpTo(g, fields, op, e, n)
        <3>1. g = [i \in 0 .. n |-> g[i]]
            OBVIOUS
        <3> HIDE DEF g
        <3> QED BY <2>4, <3>1 DEF BytesUpTo
    <2> QED BY <1>3, <2>5
<1> QED BY <1>4, <1>5

LEMMA FieldBytesAre ==
    ASSUME NEW fields, Len(fields) \in Nat, NEW op, NEW e
    PROVE  /\ FieldBytes(fields, op, e)[0] = 0
           /\ \A i \in 1 .. Len(fields) :
                FieldBytes(fields, op, e)[i] =
                   FieldBytes(fields, op, e)[i - 1]
                   + (IF i \in SentBits(fields, e) THEN Width(fields[i], op, e) ELSE 0)
<1>1. BytesUpTo(FieldBytes(fields, op, e), fields, op, e, Len(fields))
    <2>1. \E u : BytesUpTo(u, fields, op, e, Len(fields))
        BY BytesExist
    <2>2. FieldBytes(fields, op, e) = CHOOSE u : BytesUpTo(u, fields, op, e, Len(fields))
        BY DEF FieldBytes, BytesUpTo
    <2> QED BY <2>1, <2>2
<1> HIDE DEF FieldBytes
<1> QED BY <1>1 DEF BytesUpTo

LEMMA BelowSum ==
    ASSUME NEW x \in Nat, NEW y \in Nat, NEW z \in Nat, NEW w \in Nat, x <= y, y + w <= z
    PROVE  x + w <= z /\ x <= z /\ x + w \in Nat
    OBVIOUS

\* A bound on the bytes of each field bounds the bytes of all of them.
LEMMA FieldBytesBounded ==
    ASSUME NEW fields, NEW n \in Nat, n = Len(fields), NEW op, NEW e,
           NEW b, b[0] = 0, \A i \in 0 .. n : b[i] \in Nat,
           \A i \in 1 .. n : /\ Width(fields[i], op, e) \in Nat
                             /\ b[i - 1] + Width(fields[i], op, e) <= b[i]
    PROVE  FieldBytes(fields, op, e)[n] \in Nat /\ FieldBytes(fields, op, e)[n] <= b[n]
<1> DEFINE u == FieldBytes(fields, op, e)
           Bad == {i \in 0 .. n : ~(u[i] \in Nat /\ u[i] <= b[i])}
<1>1. /\ u[0] = 0
      /\ \A i \in 1 .. n :
           u[i] = u[i - 1] + (IF i \in SentBits(fields, e) THEN Width(fields[i], op, e) ELSE 0)
    BY FieldBytesAre, SMTT(40)
<1> HIDE DEF u
<1>2. Bad = {}
    <2>1. SUFFICES ASSUME Bad # {} PROVE FALSE
        OBVIOUS
    <2>2. PICK i \in Bad : \A j \in Bad : i <= j
        <3>1. Bad \in SUBSET Nat
            OBVIOUS
        <3> HIDE DEF Bad
        <3> QED BY <2>1, <3>1, LeastElement
    <2>3. i # 0
        BY <1>1
    <2>4. i \in 1 .. n /\ i - 1 \in 0 .. n /\ i - 1 \notin Bad
        BY <2>2, <2>3
    <2>5. PICK x \in Nat, y \in Nat, z \in Nat, w \in Nat :
             /\ x = u[i - 1] /\ y = b[i - 1] /\ z = b[i] /\ w = Width(fields[i], op, e)
             /\ x <= y
        BY <2>4
    <2>6. y + w <= z
        BY <2>4, <2>5
    <2> HIDE DEF Bad
    <2>7. u[i] = x + w \/ u[i] = x + 0
        BY <1>1, <2>4, <2>5
    <2>8. PICK v : v = u[i]
        OBVIOUS
    <2>9. v \in Nat /\ v <= z
        <3>1. v = x + w \/ v = x
            BY <2>5, <2>7, <2>8
        <3>2. x <= y
            BY <2>5
        <3>3. x + w <= z /\ x <= z /\ x + w \in Nat
            BY <2>6, <3>2, BelowSum
        <3> QED BY <3>1, <3>3
    <2> QED BY <2>2, <2>5, <2>8, <2>9 DEF Bad
<1>3. n \in 0 .. n /\ n \notin Bad
    BY <1>2
<1> QED BY <1>3 DEF u

LEMMA FieldsWithin ==
    ASSUME NEW fields, NEW n \in Nat, n = Len(fields), NEW op, NEW e, NEW M \in Nat,
           NEW b, b[0] = 0, \A i \in 0 .. n : b[i] \in Nat, b[n] <= M,
           \A i \in 1 .. n : /\ Width(fields[i], op, e) \in Nat
                             /\ b[i - 1] + Width(fields[i], op, e) <= b[i]
    PROVE  /\ FieldBytes(fields, op, e)[Len(fields)] \in Nat
           /\ FieldBytes(fields, op, e)[Len(fields)] <= M
<1>1. FieldBytes(fields, op, e)[n] \in Nat /\ FieldBytes(fields, op, e)[n] <= b[n]
    BY FieldBytesBounded
<1>2. PICK x \in Nat, y \in Nat : x = FieldBytes(fields, op, e)[n] /\ y = b[n] /\ x <= y
    BY <1>1
<1> QED BY <1>2

\* What each kind announces, and its number of fields.
LEMMA RectSize == Rect.max = 23 /\ Len(Rect.fields) = 7
    BY DEF Rect
LEMMA ScreenBltSize == ScreenBlt.max = 25 /\ Len(ScreenBlt.fields) = 7
    BY DEF ScreenBlt
LEMMA PatBltSize == PatBlt.max = 39 /\ Len(PatBlt.fields) = 12
    BY DEF PatBlt
LEMMA DestBltSize == DestBlt.max = 21 /\ Len(DestBlt.fields) = 5
    BY DEF DestBlt
LEMMA LineSize == Line.max = 32 /\ Len(Line.fields) = 10
    BY DEF Line
LEMMA MemBltSize == MemBlt.max = 30 /\ Len(MemBlt.fields) = 9
    BY DEF MemBlt
LEMMA CompositeBltSize == CompositeBlt.max = 80 /\ Len(CompositeBlt.fields) = 21
    BY DEF CompositeBlt
LEMMA TextSize == Text.max = 44 /\ Len(Text.fields) = 22
    BY DEF Text

LEMMA PrimaryMax ==
    ASSUME NEW op, IsPrimary(op.kind)
    PROVE  MaxSize(op) = IF op.kind = "text" THEN 44 + op.val["data"] ELSE Primary[op.kind].max
    BY TextSize DEF MaxSize

LEMMA RectFit ==
    ASSUME NEW op, NEW e
    PROVE  /\ FieldBytes(Rect.fields, op, e)[Len(Rect.fields)] \in Nat
           /\ FieldBytes(Rect.fields, op, e)[Len(Rect.fields)] <= 23
<1> DEFINE b == [i \in 0 .. 7 |-> 2 * i]
<1>1. \A i \in 1 .. 7 : Width(Rect.fields[i], op, e) \in 0 .. 2
    BY RectFields DEF Width, C, F
<1>2. /\ \A i \in 0 .. 7 : b[i] \in Nat
      /\ \A i \in 1 .. 7 : Width(Rect.fields[i], op, e) \in Nat
                           /\ b[i - 1] + Width(Rect.fields[i], op, e) <= b[i]
      /\ b[0] = 0 /\ b[7] <= 23
    BY <1>1
<1> HIDE DEF b
<1> QED BY <1>2, RectSize, FieldsWithin

LEMMA ScreenBltFit ==
    ASSUME NEW op, NEW e
    PROVE  /\ FieldBytes(ScreenBlt.fields, op, e)[Len(ScreenBlt.fields)] \in Nat
           /\ FieldBytes(ScreenBlt.fields, op, e)[Len(ScreenBlt.fields)] <= 25
<1> DEFINE b == [i \in 0 .. 7 |-> 2 * i]
<1>1. \A i \in 1 .. 7 : Width(ScreenBlt.fields[i], op, e) \in 0 .. 2
    BY ScreenBltFields DEF Width, C, F
<1>2. /\ \A i \in 0 .. 7 : b[i] \in Nat
      /\ \A i \in 1 .. 7 : Width(ScreenBlt.fields[i], op, e) \in Nat
                           /\ b[i - 1] + Width(ScreenBlt.fields[i], op, e) <= b[i]
      /\ b[0] = 0 /\ b[7] <= 25
    BY <1>1
<1> HIDE DEF b
<1> QED BY <1>2, ScreenBltSize, FieldsWithin

LEMMA PatBltFit ==
    ASSUME NEW op, NEW e
    PROVE  /\ FieldBytes(PatBlt.fields, op, e)[Len(PatBlt.fields)] \in Nat
           /\ FieldBytes(PatBlt.fields, op, e)[Len(PatBlt.fields)] <= 39
<1> DEFINE b == [i \in 0 .. 12 |-> IF i <= 5 THEN 2 * i ELSE IF i <= 11 THEN 3 * i - 5 ELSE 35]
<1>1. \A i \in 1 .. 12 : Width(PatBlt.fields[i], op, e) \in 0 .. (IF i <= 5 THEN 2 ELSE IF i <= 11 THEN 3 ELSE 7)
    BY PatBltFields DEF Width, C, F
<1>2. /\ \A i \in 0 .. 12 : b[i] \in Nat
      /\ \A i \in 1 .. 12 : Width(PatBlt.fields[i], op, e) \in Nat
                           /\ b[i - 1] + Width(PatBlt.fields[i], op, e) <= b[i]
      /\ b[0] = 0 /\ b[12] <= 39
    BY <1>1
<1> HIDE DEF b
<1> QED BY <1>2, PatBltSize, FieldsWithin, ZenonT(40)

LEMMA DestBltFit ==
    ASSUME NEW op, NEW e
    PROVE  /\ FieldBytes(DestBlt.fields, op, e)[Len(DestBlt.fields)] \in Nat
           /\ FieldBytes(DestBlt.fields, op, e)[Len(DestBlt.fields)] <= 21
<1> DEFINE b == [i \in 0 .. 5 |-> 2 * i]
<1>1. \A i \in 1 .. 5 : Width(DestBlt.fields[i], op, e) \in 0 .. 2
    BY DestBltFields DEF Width, C, F
<1>2. /\ \A i \in 0 .. 5 : b[i] \in Nat
      /\ \A i \in 1 .. 5 : Width(DestBlt.fields[i], op, e) \in Nat
                           /\ b[i - 1] + Width(DestBlt.fields[i], op, e) <= b[i]
      /\ b[0] = 0 /\ b[5] <= 21
    BY <1>1
<1> HIDE DEF b
<1> QED BY <1>2, DestBltSize, FieldsWithin

LEMMA LineFit ==
    ASSUME NEW op, NEW e
    PROVE  /\ FieldBytes(Line.fields, op, e)[Len(Line.fields)] \in Nat
           /\ FieldBytes(Line.fields, op, e)[Len(Line.fields)] <= 32
<1> DEFINE b == [i \in 0 .. 10 |-> 3 * i]
<1>1. \A i \in 1 .. 10 : Width(Line.fields[i], op, e) \in 0 .. 3
    BY LineFields DEF Width, C, F
<1>2. /\ \A i \in 0 .. 10 : b[i] \in Nat
      /\ \A i \in 1 .. 10 : Width(Line.fields[i], op, e) \in Nat
                           /\ b[i - 1] + Width(Line.fields[i], op, e) <= b[i]
      /\ b[0] = 0 /\ b[10] <= 32
    BY <1>1
<1> HIDE DEF b
<1> QED BY <1>2, LineSize, FieldsWithin

LEMMA MemBltFit ==
    ASSUME NEW op, NEW e
    PROVE  /\ FieldBytes(MemBlt.fields, op, e)[Len(MemBlt.fields)] \in Nat
           /\ FieldBytes(MemBlt.fields, op, e)[Len(MemBlt.fields)] <= 30
<1> DEFINE b == [i \in 0 .. 9 |-> 2 * i]
<1>1. \A i \in 1 .. 9 : Width(MemBlt.fields[i], op, e) \in 0 .. 2
    BY MemBltFields DEF Width, C, F
<1>2. /\ \A i \in 0 .. 9 : b[i] \in Nat
      /\ \A i \in 1 .. 9 : Width(MemBlt.fields[i], op, e) \in Nat
                           /\ b[i - 1] + Width(MemBlt.fields[i], op, e) <= b[i]
      /\ b[0] = 0 /\ b[9] <= 30
    BY <1>1
<1> HIDE DEF b
<1> QED BY <1>2, MemBltSize, FieldsWithin

LEMMA CompositeBltFit ==
    ASSUME NEW op, NEW e
    PROVE  /\ FieldBytes(CompositeBlt.fields, op, e)[Len(CompositeBlt.fields)] \in Nat
           /\ FieldBytes(CompositeBlt.fields, op, e)[Len(CompositeBlt.fields)] <= 80
<1> DEFINE b == [i \in 0 .. 21 |-> <<0, 2, 6, 8, 9, 13, 49, 50, 52, 56, 58, 59, 60, 62, 64, 66,
                               68, 70, 72, 74, 76, 80>>[i + 1]]
<1>1. \A i \in 1 .. 21 : Width(CompositeBlt.fields[i], op, e) \in 0 .. <<2, 4, 2, 1, 4, 36, 1, 2, 4, 2, 1, 1, 2, 2, 2, 2, 2, 2, 2, 2, 4>>[i]
    BY CompositeBltFields DEF Width, C, F
<1>2. /\ \A i \in 0 .. 21 : b[i] \in Nat
      /\ \A i \in 1 .. 21 : Width(CompositeBlt.fields[i], op, e) \in Nat
                           /\ b[i - 1] + Width(CompositeBlt.fields[i], op, e) <= b[i]
      /\ b[0] = 0 /\ b[21] <= 80
    BY <1>1
<1> HIDE DEF b
<1>3. PICK n \in Nat, M \in Nat : n = 21 /\ M = 80
    OBVIOUS
<1>4. /\ \A i \in 0 .. n : b[i] \in Nat
      /\ \A i \in 1 .. n : Width(CompositeBlt.fields[i], op, e) \in Nat
                           /\ b[i - 1] + Width(CompositeBlt.fields[i], op, e) <= b[i]
      /\ b[0] = 0 /\ b[n] <= M /\ n = Len(CompositeBlt.fields)
    BY <1>2, <1>3, CompositeBltSize
<1> QED BY <1>3, <1>4, FieldsWithin, ZenonT(40)

LEMMA TextFit ==
    ASSUME NEW op, op.val["data"] \in Nat, NEW e
    PROVE  /\ FieldBytes(Text.fields, op, e)[Len(Text.fields)] \in Nat
           /\ FieldBytes(Text.fields, op, e)[Len(Text.fields)] <= 44 + op.val["data"]
<1> DEFINE b == [i \in 0 .. 22 |-> IF i <= 4 THEN i ELSE IF i <= 6 THEN 3 * i - 8
                                   ELSE IF i <= 21 THEN 2 * i - 2 ELSE 41 + op.val["data"]]
<1>1. \A i \in 1 .. 22 : Width(Text.fields[i], op, e) \in
         0 .. (IF i <= 4 THEN 1 ELSE IF i <= 6 THEN 3 ELSE IF i <= 21 THEN 2
               ELSE 1 + op.val["data"])
    BY TextFields DEF Width, C, F, Hole
<1>2. /\ \A i \in 0 .. 22 : b[i] \in Nat
      /\ \A i \in 1 .. 22 : Width(Text.fields[i], op, e) \in Nat
                           /\ b[i - 1] + Width(Text.fields[i], op, e) <= b[i]
      /\ b[0] = 0 /\ b[22] <= 44 + op.val["data"]
    BY <1>1
<1> HIDE DEF b
<1>3. PICK M \in Nat : M = 44 + op.val["data"]
    OBVIOUS
<1> QED BY <1>2, <1>3, TextSize, FieldsWithin, ZenonT(40)

\* The fields of an order take no more than it announces.
LEMMA FieldsFit ==
    ASSUME NEW op, IsPrimaryOp(op), NEW e
    PROVE  LET fields == Primary[op.kind].fields
           IN  /\ MaxSize(op) \in Nat
               /\ FieldBytes(fields, op, e)[Len(fields)] \in Nat
               /\ FieldBytes(fields, op, e)[Len(fields)] <= MaxSize(op)
<1>1. op.kind \in DOMAIN Primary /\ IsPrimary(op.kind)
    BY DEF IsPrimaryOp, IsPrimary
<1>2. CASE op.kind = "rect"
    BY <1>1, <1>2, PrimaryMax, KindIs, RectSize, RectFit
<1>3. CASE op.kind = "screen_blt"
    BY <1>1, <1>3, PrimaryMax, KindIs, ScreenBltSize, ScreenBltFit
<1>4. CASE op.kind = "pat_blt"
    BY <1>1, <1>4, PrimaryMax, KindIs, PatBltSize, PatBltFit
<1>5. CASE op.kind = "dest_blt"
    BY <1>1, <1>5, PrimaryMax, KindIs, DestBltSize, DestBltFit
<1>6. CASE op.kind = "line"
    BY <1>1, <1>6, PrimaryMax, KindIs, LineSize, LineFit
<1>7. CASE op.kind = "mem_blt"
    BY <1>1, <1>7, PrimaryMax, KindIs, MemBltSize, MemBltFit
<1>8. CASE op.kind = "composite_blt"
    BY <1>1, <1>8, PrimaryMax, KindIs, CompositeBltSize, CompositeBltFit
<1>9. CASE op.kind = "text"
    <2>1. op.val["data"] \in Nat
        BY <1>9 DEF IsPrimaryOp
    <2> QED BY <1>1, <1>9, <2>1, PrimaryMax, KindIs, TextFit
<1> QED BY <1>1, <1>2, <1>3, <1>4, <1>5, <1>6, <1>7, <1>8, <1>9, Kinds

LEMMA PrimaryFits ==
    ASSUME NEW op, IsPrimaryOp(op), NEW e
    PROVE  /\ EncodedSize(op, e) \in Nat /\ MaxSize(op) \in Nat
           /\ EncodedSize(op, e) <= MaxSize(op) + 14
<1> DEFINE fields == Primary[op.kind].fields
           header == 1 + (IF e.type = "same" THEN 0 ELSE 1) + MaskByte(fields, e, 0)
                     + MaskByte(fields, e, 1) + MaskByte(fields, e, 2)
                     + (IF e.bounds = "sides"
                        THEN 1 + SideBytes(e, "left") + SideBytes(e, "top")
                               + SideBytes(e, "right") + SideBytes(e, "bottom") ELSE 0)
<1>1. /\ \A n \in {0, 1, 2} : MaskByte(fields, e, n) \in 0 .. 1
      /\ \A s \in Sides : SideBytes(e, s) \in 0 .. 2
    BY DEF MaskByte, SideBytes
<1>2. header \in Nat /\ header <= 14
    BY <1>1 DEF Sides
<1>3. PICK h \in Nat, f \in Nat, m \in Nat :
         /\ h = header /\ f = FieldBytes(fields, op, e)[Len(fields)] /\ m = MaxSize(op)
         /\ h <= 14 /\ f <= m
    <2> HIDE DEF header
    <2> QED BY <1>2, FieldsFit
<1>4. EncodedSize(op, e) = h + f
    BY <1>3, SizeParts
<1> QED BY <1>3, <1>4

\* A window or secondary order writes at most 7 bytes more than it announces.
LEMMA SecondarySizes ==
    ASSUME NEW k \in DOMAIN SecondaryKinds
    PROVE  /\ SecondaryKinds[k].max \in Nat /\ SecondaryKinds[k].bytes \in Nat
           /\ SecondaryKinds[k].bytes <= SecondaryKinds[k].max + 7
    BY DEF SecondaryKinds, Secondary, Palette, RawBitmap, Bitmap, CacheGlyph, CacheGlyphV2,
           RawBitmap2, Bitmap2, BitmapV3, Brush, CreateOsSurface, SwitchOsSurface, WindowDelete,
           WindowCachedIcon, WindowIcon, WindowNewUpdate, NotifyDelete, NotifyNewUpdate,
           MonitoredDesktop

LEMMA SecondaryFits ==
    ASSUME NEW op, IsSecondaryOp(op)
    PROVE  /\ Written(op, [primary |-> FALSE]) \in Nat /\ MaxSize(op) \in Nat
           /\ Written(op, [primary |-> FALSE]) <= MaxSize(op) + 14
<1>1. op.kind \in DOMAIN SecondaryKinds /\ ~IsPrimary(op.kind) /\ op.kind # "text"
    BY Kinds DEF IsSecondaryOp, IsPrimary
<1>2. PICK r \in Nat, n \in Nat, p \in Nat : r = op.val.row /\ n = op.val.rows /\ p = r * n
    BY DEF IsSecondaryOp
<1>3. PICK m \in Nat, b \in Nat : /\ m = SecondaryKinds[op.kind].max
                                  /\ b = SecondaryKinds[op.kind].bytes /\ b <= m + 7
    BY <1>1, SecondarySizes
<1>4. MaxSize(op) = m + p /\ Written(op, [primary |-> FALSE]) = b + p
    BY <1>1, <1>2, <1>3 DEF MaxSize, Written
<1> QED BY <1>2, <1>3, <1>4

-----------------------------------------------------------------------------
(* The order that is drawn for the order asked for *)

LEMMA FittingRowsNat ==
    ASSUME NEW op, IsSecondaryOp(op)
    PROVE  FittingRows(op.kind, op.val) \in Nat
<1> DEFINE Fit == {r \in 0 .. op.val.rows :
                     r = 0 \/ op.val.row * r + SecondaryKinds[op.kind].max <= MaxOrderSize}
<1>1. PICK n \in Nat : n = op.val.rows
    BY DEF IsSecondaryOp
<1>2. Max(Fit) \in Nat
    <2> DEFINE Rest == {i \in 0 .. n : n - i \in Fit}
    <2>1. n \in Rest
        BY <1>1
    <2>2. PICK i \in Rest : \A j \in Rest : i <= j
        <3>1. Rest \in SUBSET Nat /\ Rest # {}
            BY <2>1
        <3> HIDE DEF Rest
        <3> QED BY <3>1, LeastElement
    <2>3. n - i \in Fit /\ \A r \in Fit : n - i >= r
        <3>1. ASSUME NEW r \in Fit PROVE n - i >= r
            <4>1. r \in 0 .. n /\ n - r \in 0 .. n /\ n - (n - r) = r
                BY <1>1
            <4>2. n - r \in Rest
                BY <4>1
            <4>3. i \in Nat /\ i <= n - r
                <5>1. i \in 0 .. n
                    OBVIOUS
                <5> HIDE DEF Rest
                <5> QED BY <2>2, <4>2, <5>1
            <4> HIDE DEF Rest, Fit
            <4> QED BY <4>1, <4>3
        <3> QED BY <3>1
    <2>4. Fit \subseteq Nat
        BY <1>1
    <2> HIDE DEF Fit
    <2>5. Max(Fit) \in Fit
        BY <2>3 DEF Max
    <2> QED BY <2>4, <2>5
<1> QED BY <1>1, <1>2 DEF FittingRows

LEMMA NormalLine ==
    ASSUME NEW op, IsPrimaryOp(op), op.kind = "line"
    PROVE  IsPrimaryOp(Normal(op))
<1> DEFINE v == [op.val EXCEPT !.mix_mode = IF @ \in 1 .. 2 THEN @ ELSE 1]
           w == [v EXCEPT !.rop = IF @ \in 1 .. 16 THEN @ ELSE 13]
           p == Normal(op)
<1>1. /\ op.val \in [Names("line") -> Int] /\ DOMAIN op = {"kind", "val", "rect"}
      /\ \A n \in CoordsOf("line") : op.val[n] \in Coord
      /\ op.rect = NoRect \/ IsClip(op.rect)
    BY DEF IsPrimaryOp
<1>2. CoordsOf("line") \subseteq Names("line")
    BY CoordNames, Kinds
<1>3. /\ v \in [Names("line") -> Int]
      /\ \A n \in CoordsOf("line") : v[n] \in Coord
    BY <1>1, <1>2 DEF Coord
<1> HIDE DEF v
<1>4. /\ w \in [Names("line") -> Int]
      /\ \A n \in CoordsOf("line") : w[n] \in Coord
    BY <1>2, <1>3 DEF Coord
<1>5. p.val = w /\ p.kind = op.kind /\ p.rect = op.rect /\ DOMAIN p = DOMAIN op
    BY <1>1 DEF Normal, v
<1> HIDE DEF w, p
<1>6. IsPrimaryOp(p)
    BY <1>1, <1>4, <1>5, Kinds DEF IsPrimaryOp, IsPrimary
<1> QED BY <1>6 DEF p

LEMMA NormalOp ==
    ASSUME NEW op, IsPrimaryOp(op) \/ IsSecondaryOp(op)
    PROVE  IsPrimaryOp(Normal(op)) \/ IsSecondaryOp(Normal(op))
<1>1. CASE IsPrimaryOp(op) /\ op.kind = "line"
    BY <1>1, NormalLine
<1>2. CASE IsPrimaryOp(op) /\ op.kind # "line"
    BY <1>2 DEF Normal, IsPrimaryOp
<1>3. CASE IsSecondaryOp(op)
    <2> DEFINE r == FittingRows(op.kind, op.val)
               p == [op EXCEPT !.val.rows = r]
               v == [op.val EXCEPT !.rows = r]
    <2>1. op.kind # "line" /\ ~IsPrimary(op.kind)
        BY <1>3, Kinds DEF IsSecondaryOp, IsPrimary
    <2>2. Normal(op) = p
        BY <2>1 DEF Normal
    <2>3. r \in Nat
        BY <1>3, FittingRowsNat
    <2> HIDE DEF r
    <2>4. v \in [row : Nat, rows : Nat]
        BY <1>3, <2>3 DEF IsSecondaryOp
    <2>5. p.val = v /\ p.kind = op.kind /\ DOMAIN p = DOMAIN op
        BY <1>3 DEF IsSecondaryOp
    <2> HIDE DEF p, v
    <2> QED BY <1>3, <2>2, <2>4, <2>5 DEF IsSecondaryOp
<1> QED BY <1>1, <1>2, <1>3

-----------------------------------------------------------------------------
(* The inductive invariant: the orders that wait take the server from the  *)
(* client's state to orders_state, and the counters say where each order   *)
(* is.                                                                      *)

OrdersInv ==
    /\ StreamOK(orders) /\ depth \in Nat /\ orders.order_level <= depth
    /\ drawn \in Nat /\ total \in Nat /\ lost \in Nat
    /\ total = drawn + orders.order_count + lost
    /\ \E s : Agree(s, client) /\ Coded(Waiting(orders), s, orders_state)

\* An order is written by the server in state s.
LEMMA Writes ==
    ASSUME NEW op, IsPrimaryOp(op) \/ IsSecondaryOp(op)
    PROVE  /\ Step(orders_state, [op |-> op, e |-> Encoding(op)], StateAfter(op))
           /\ Written(op, Encoding(op)) \in Nat /\ MaxSize(op) \in Nat
           /\ Written(op, Encoding(op)) <= MaxSize(op) + 14
<1>1. CASE IsPrimaryOp(op)
    <2>1. IsPrimary(op.kind)
        BY <1>1 DEF IsPrimaryOp
    <2> DEFINE e == Encode(orders_state, op)
    <2>2. Encoding(op) = e /\ StateAfter(op) = After(orders_state, op, e)
        BY <2>1 DEF Encoding, StateAfter
    <2>3. e.primary
        BY EncodeFacts
    <2> HIDE DEF e
    <2>4. Written(op, e) = EncodedSize(op, e)
        BY <2>3 DEF Written
    <2>5. Step(orders_state, [op |-> op, e |-> e], After(orders_state, op, e))
        BY <1>1, <2>3 DEF Step, e
    <2> QED BY <1>1, <2>2, <2>4, <2>5, PrimaryFits
<1>2. CASE IsSecondaryOp(op)
    <2>1. ~IsPrimary(op.kind)
        BY <1>2, Kinds DEF IsSecondaryOp, IsPrimary
    <2>2. Encoding(op) = [primary |-> FALSE] /\ StateAfter(op) = orders_state
        BY <2>1 DEF Encoding, StateAfter
    <2>3. Step(orders_state, [op |-> op, e |-> [primary |-> FALSE]], orders_state)
        BY <1>2 DEF Step
    <2> QED BY <1>2, <2>2, <2>3, SecondaryFits
<1> QED BY <1>1, <1>2

\* A PDU is delivered: the client follows the server, and draws what was
\* asked for unless the PDU was garbled.
LEMMA Delivered ==
    ASSUME NEW pdu, AnySeq(pdu), NEW s, NEW s2, Agree(s, client), Coded(pdu, s, s2),
           NEW garbled \in BOOLEAN, Shows(pdu, garbled)
    PROVE  /\ client' = ClientAfter(pdu)[Len(pdu)] => Agree(s2, client')
           /\ ~garbled \/ Len(pdu) = 0 => DrawnAsAsked'
           /\ drawn' = drawn + Len(pdu)
<1>1. ClientAfter(pdu) = Reading(client, pdu)
    BY DEF ClientAfter, Reading
<1>2. /\ Agree(s2, Reading(client, pdu)[Len(pdu)])
      /\ \A i \in 1 .. Len(pdu) : SameDrawing(pdu[i].op, DrawnFor(client, pdu, i))
    BY PduRead
<1>3. DOMAIN pdu = 1 .. Len(pdu) /\ Len(pdu) \in Nat
    <2>1. PICK S : pdu \in Seq(S)
        BY DEF AnySeq
    <2> QED BY <2>1
<1> DEFINE c == Reading(client, pdu)
           shows == [i \in DOMAIN pdu |->
                       [asked |-> pdu[i].op,
                        drawn |-> IF garbled THEN [kind |-> "garbage"]
                                  ELSE IF pdu[i].e.primary THEN Drawing(c[i], pdu[i].e)
                                  ELSE [kind |-> pdu[i].op.kind, val |-> pdu[i].op.val]]]
<1>4. shown' = shows /\ drawn' = drawn + Len(pdu)
    BY <1>1 DEF Shows
<1>5. ASSUME ~garbled \/ Len(pdu) = 0, NEW i \in DOMAIN pdu
      PROVE  SameDrawing(shows[i].asked, shows[i].drawn)
    <2>1. ~garbled /\ i \in 1 .. Len(pdu)
        BY <1>3, <1>5
    <2>2. shows[i].asked = pdu[i].op /\ shows[i].drawn = DrawnFor(client, pdu, i)
        BY <2>1 DEF DrawnFor
    <2> HIDE DEF shows
    <2> QED BY <1>2, <2>1, <2>2
<1>6. DOMAIN shows = DOMAIN pdu
    OBVIOUS
<1> HIDE DEF shows, c
<1>7. ~garbled \/ Len(pdu) = 0 => DrawnAsAsked'
    BY <1>4, <1>5, <1>6 DEF DrawnAsAsked
<1> QED BY <1>1, <1>2, <1>4, <1>7

-----------------------------------------------------------------------------
(* One step of each caller *)

LEMMA BeginUpdateStep ==
    ASSUME OrdersInv, BeginUpdate
    PROVE  OrdersInv' /\ DrawnAsAsked' /\ (OneFragment => OneFragment')
<1>1. PICK s : Agree(s, client) /\ Coded(Waiting(orders), s, orders_state)
    BY DEF OrdersInv
<1>2. orders' = OrdersInit(orders) /\ Deliver(<<>>, FALSE) /\ depth' = depth + 1
      /\ UNCHANGED <<orders_state, total, lost>>
    BY DEF BeginUpdate
<1>3. StreamOK(orders)
    BY DEF OrdersInv
<1>4. /\ StreamOK(orders') /\ Waiting(orders') = Waiting(orders)
      /\ orders'.order_level = orders.order_level + 1
    BY <1>2, <1>3, InitStream
<1>5. Agree(s, client') /\ DrawnAsAsked' /\ drawn' = drawn + 0
    BY <1>1, <1>2, CodedEmpty, SeqEmpty, Delivered DEF Deliver
<1>6. orders'.order_count = orders.order_count
    BY <1>3, <1>4 DEF StreamOK
<1>7. Coded(Waiting(orders'), s, orders_state')
    BY <1>1, <1>2, <1>4
<1>8. depth' \in Nat /\ orders'.order_level <= depth'
    BY <1>2, <1>4 DEF OrdersInv, StreamOK
<1>9. /\ drawn' \in Nat /\ total' \in Nat /\ lost' \in Nat
      /\ total' = drawn' + orders'.order_count + lost'
    <2>1. drawn' = drawn
        BY <1>5 DEF OrdersInv
    <2> QED BY <1>2, <1>6, <2>1 DEF OrdersInv
<1>10. OneFragment => OneFragment'
    <2>1. CASE orders.order_level = 0
        <3>1. orders'.order_count = 0
            BY <1>3, <1>6, <2>1, SeqEmpty DEF StreamOK, Waiting
        <3> QED BY <3>1 DEF OneFragment
    <2>2. CASE orders.order_level # 0
        <3>1. orders'.size = orders.size
            BY <1>2, <1>3, <2>2, InitStream
        <3> QED BY <1>6, <3>1 DEF OneFragment
    <2> QED BY <2>1, <2>2
<1> QED BY <1>4, <1>5, <1>7, <1>8, <1>9, <1>10 DEF OrdersInv

LEMMA EndUpdateStep ==
    ASSUME OrdersInv, EndUpdate
    PROVE  /\ OrdersInv' /\ (OneFragment => OneFragment')
           /\ OneFragment \/ RailOps = {} => DrawnAsAsked'
<1>1. PICK s : Agree(s, client) /\ Coded(Waiting(orders), s, orders_state)
    BY DEF OrdersInv
<1>2. StreamOK(orders)
    BY DEF OrdersInv
<1>3. PICK garbled \in {FALSE, RailOps # {} /\ orders.size + Layers > FragSize} :
         Deliver(Sent(orders), garbled)
    BY DEF EndUpdate, Sent
<1>4. orders' = OrdersSend(orders) /\ depth > 0 /\ depth' = depth - 1
      /\ UNCHANGED <<orders_state, total, lost>>
    BY DEF EndUpdate
<1>5. /\ StreamOK(orders')
      /\ orders'.order_level = IF orders.order_level = 0 THEN 0 ELSE orders.order_level - 1
      /\ \/ orders.order_level = 1 /\ Sent(orders) = Waiting(orders) /\ Waiting(orders') = <<>>
         \/ orders.order_level # 1 /\ Sent(orders) = <<>> /\ Waiting(orders') = Waiting(orders)
    BY <1>2, <1>4, SentStream
<1>6. depth' \in Nat /\ orders'.order_level <= depth'
    BY <1>4, <1>5 DEF OrdersInv, StreamOK
<1>7. OneFragment \/ RailOps = {} => ~garbled \/ Len(Sent(orders)) = 0
    <2>a. RailOps = {} => ~garbled
        BY <1>3
    <2> SUFFICES ASSUME OneFragment PROVE ~garbled \/ Len(Sent(orders)) = 0
        BY <2>a
    <2>1. CASE orders.order_count = 0
        BY <1>2, <1>5, <2>1, NoneWaiting, SeqEmpty
    <2>2. CASE orders.order_count # 0
        <3>1. orders.order_count > 0
            BY <1>2, <2>2 DEF StreamOK
        <3>2. orders.size \in Nat
            BY <1>2 DEF StreamOK
        <3>3. orders.size + Layers <= FragSize
            BY <3>1 DEF OneFragment
        <3>4. PICK x \in Nat : x = orders.size /\ x + 4 <= FragSize
            BY <3>2, <3>3 DEF Layers
        <3>5. ~(x + 4 > FragSize)
            BY <3>4, OrdersAssumption
        <3>6. ~(orders.size + Layers > FragSize)
            BY <3>4, <3>5 DEF Layers
        <3> QED BY <1>3, <3>6
    <2> QED BY <2>1, <2>2
<1>8. garbled \in BOOLEAN /\ AnySeq(Waiting(orders))
    BY <1>2 DEF StreamOK
<1>9. CASE orders.order_level = 1
    <2>1. Sent(orders) = Waiting(orders) /\ Waiting(orders') = <<>>
        BY <1>5, <1>9
    <2>2. /\ Agree(orders_state, client') /\ (OneFragment \/ RailOps = {} => DrawnAsAsked')
          /\ drawn' = drawn + Len(Waiting(orders))
        BY <1>1, <1>3, <1>7, <1>8, <2>1, Delivered DEF Deliver
    <2>3. Coded(Waiting(orders'), orders_state, orders_state')
        BY <1>4, <2>1, CodedEmpty
    <2>4. drawn' = drawn + orders.order_count /\ orders'.order_count = 0
        BY <1>2, <1>5, <2>1, <2>2, SeqEmpty DEF StreamOK
    <2>5. /\ drawn' \in Nat /\ total' \in Nat /\ lost' \in Nat
          /\ total' = drawn' + orders'.order_count + lost'
        BY <1>4, <2>4 DEF OrdersInv, StreamOK
    <2>6. OneFragment'
        BY <2>4 DEF OneFragment
    <2> QED BY <1>5, <1>6, <2>2, <2>3, <2>5, <2>6 DEF OrdersInv
<1>10. CASE orders.order_level # 1
    <2>1. Sent(orders) = <<>> /\ Waiting(orders') = Waiting(orders)
        BY <1>5, <1>10
    <2>2. Agree(s, client') /\ (OneFragment \/ RailOps = {} => DrawnAsAsked') /\ drawn' = drawn + 0
        BY <1>1, <1>3, <1>7, <1>8, <2>1, CodedEmpty, SeqEmpty, Delivered DEF Deliver
    <2>3. Coded(Waiting(orders'), s, orders_state')
        BY <1>1, <1>4, <2>1
    <2>4. drawn' = drawn /\ orders'.order_count = orders.order_count
        BY <1>2, <1>5, <2>1, <2>2 DEF StreamOK, OrdersInv
    <2>5. /\ drawn' \in Nat /\ total' \in Nat /\ lost' \in Nat
          /\ total' = drawn' + orders'.order_count + lost'
        BY <1>4, <2>4 DEF OrdersInv
    <2>6. OneFragment => OneFragment'
        BY <1>2, <1>4, <2>4, SentStream DEF OneFragment
    <2> QED BY <1>5, <1>6, <2>2, <2>3, <2>5, <2>6 DEF OrdersInv
<1> QED BY <1>9, <1>10

\* An order goes to the stream that xrdp_orders_check leaves.
Taken(o, op, e) == Out(OrdersCheck(o, MaxSize(op)), op, e)

LEMMA TakenStream ==
    ASSUME NEW o, StreamOK(o), NEW op, NEW e, Written(op, e) \in Nat
    PROVE  /\ StreamOK(Taken(o, op, e))
           /\ Taken(o, op, e).order_level > 0
           /\ Taken(o, op, e).order_level <= o.order_level \/ Taken(o, op, e).order_level = 1
           /\ \/ /\ Full(o, MaxSize(op)) /\ Overflow(o, MaxSize(op)) = Waiting(o)
                 /\ Waiting(Taken(o, op, e)) = Append(<<>>, [op |-> op, e |-> e])
                 /\ Taken(o, op, e).order_level = 1
              \/ /\ ~Full(o, MaxSize(op)) /\ Overflow(o, MaxSize(op)) = <<>>
                 /\ Waiting(Taken(o, op, e)) = Append(Waiting(o), [op |-> op, e |-> e])
<1> DEFINE p == OrdersCheck(o, MaxSize(op))
<1>1. StreamOK(p) /\ p.order_level > 0 /\ (p.order_level <= o.order_level \/ p.order_level = 1)
    BY CheckedStream
<1>2. \/ /\ Full(o, MaxSize(op)) /\ Overflow(o, MaxSize(op)) = Waiting(o)
         /\ Waiting(p) = <<>> /\ p.order_level = 1
      \/ /\ ~Full(o, MaxSize(op)) /\ Overflow(o, MaxSize(op)) = <<>> /\ Waiting(p) = Waiting(o)
    BY CheckedStream
<1> HIDE DEF p
<1>3. /\ StreamOK(Out(p, op, e)) /\ Out(p, op, e).order_level = p.order_level
      /\ Waiting(Out(p, op, e)) = Append(Waiting(p), [op |-> op, e |-> e])
    BY <1>1, OutStream
<1>4. Taken(o, op, e) = Out(p, op, e)
    BY DEF Taken, p
<1> QED BY <1>1, <1>2, <1>3, <1>4

\* What xrdp_orders_check promises about the size.
LEMMA TakenSize ==
    ASSUME NEW o, StreamOK(o), NEW op, NEW e, Written(op, e) \in Nat, MaxSize(op) \in Nat,
           Written(op, e) <= MaxSize(op) + 14, MaxOrderSize <= FragSize,
           MaxSize(op) + 20 <= FragSize
    PROVE  Taken(o, op, e).size + Layers <= FragSize
<1> DEFINE p == OrdersCheck(o, MaxSize(op))
<1>1. StreamOK(p) /\ p.order_level > 0
    BY CheckedStream
<1>2. \/ p.size = Header
      \/ o.order_level # 0 /\ ~Full(o, MaxSize(op)) /\ p.size = o.size
    BY CheckedStream
<1> HIDE DEF p
<1>3. Taken(o, op, e) = Out(p, op, e) /\ Out(p, op, e).size = p.size + Written(op, e)
    BY <1>1, OutStream DEF Taken, p
<1>4. PICK w \in Nat, m \in Nat, x \in Nat, y \in Nat, l \in Nat, z \in {Taken(o, op, e).size} :
         /\ w = Written(op, e) /\ m = MaxSize(op) /\ x = p.size /\ y = o.size
         /\ l = o.order_level /\ z = Taken(o, op, e).size
    BY <1>1 DEF StreamOK
<1>5. z = x + w /\ w <= m + 14 /\ m + 20 <= FragSize
    BY <1>3, <1>4
<1>6. x = 2 \/ (y + m + 100 <= MaxOrderSize /\ x = y)
    <2>1. CASE p.size = Header
        <3>1. x = p.size
            BY <1>4
        <3>2. x = 2
            BY <2>1, <3>1 DEF Header
        <3> QED BY <3>2
    <2>2. CASE o.order_level # 0 /\ ~Full(o, MaxSize(op)) /\ p.size = o.size
        <3>1. l > 0 /\ x = y
            BY <1>4, <2>2
        <3>2. ~(y + m + 100 > MaxOrderSize)
            BY <1>4, <2>2, <3>1 DEF Full, Slack
        <3> QED BY <1>4, <3>1, <3>2, OrdersAssumption
    <2> QED BY <1>2, <2>1, <2>2
<1>7. z + 4 <= FragSize
    BY <1>4, <1>5, <1>6, OrdersAssumption
<1> QED BY <1>4, <1>7 DEF Layers

\* The sizes for which no PDU needs a second fragment: a batch is at most the
\* fragment that the client takes, and an order fits one by itself.  So it is
\* with the 16128 bytes of MAX_ORDERS_SIZE when the client sets no fragment size.
SizesFit ==
    /\ MaxOrderSize <= FragSize
    /\ \A op \in Ops : MaxSize(Normal(op)) + 20 <= FragSize
    /\ \A op \in RailOps : MaxSize(op) + 20 <= FragSize

LEMMA DrawStep ==
    ASSUME OrdersInv, NEW asked \in Ops, Draw(asked)
    PROVE  OrdersInv' /\ DrawnAsAsked' /\ (SizesFit => OneFragment')
<1> DEFINE op == Normal(asked)
           e == Encoding(op)
           forced == Overflow(orders, MaxSize(op))
           item == [op |-> op, e |-> e]
<1>1. PICK s : Agree(s, client) /\ Coded(Waiting(orders), s, orders_state)
    BY DEF OrdersInv
<1>2. StreamOK(orders) /\ AnySeq(Waiting(orders))
    BY DEF OrdersInv, StreamOK
<1>3. IsPrimaryOp(op) \/ IsSecondaryOp(op)
    BY NormalOp, OrdersAssumption
<1>4. /\ Step(orders_state, item, StateAfter(op)) /\ Written(op, e) \in Nat
      /\ MaxSize(op) \in Nat /\ Written(op, e) <= MaxSize(op) + 14
    BY <1>3, Writes
<1>5. /\ depth > 0 /\ orders' = Taken(orders, op, e) /\ orders_state' = StateAfter(op)
      /\ Deliver(forced, FALSE) /\ Asked(1, forced) /\ depth' = depth
    BY DEF Draw, Taken, Overflow
<1> HIDE DEF op, e, forced
<1>6. /\ StreamOK(orders') /\ orders'.order_level > 0
      /\ orders'.order_level <= orders.order_level \/ orders'.order_level = 1
      /\ \/ forced = Waiting(orders) /\ Waiting(orders') = Append(<<>>, item)
         \/ forced = <<>> /\ Waiting(orders') = Append(Waiting(orders), item)
    BY <1>2, <1>4, <1>5, TakenStream DEF forced
<1>7. depth' \in Nat /\ orders'.order_level <= depth'
    BY <1>5, <1>6 DEF OrdersInv, StreamOK
<1>8. SizesFit => OneFragment'
    BY <1>2, <1>4, <1>5, TakenSize DEF SizesFit, OneFragment, op
<1>9. CASE forced = <<>> /\ Waiting(orders') = Append(Waiting(orders), item)
    <2>1. Agree(s, client') /\ DrawnAsAsked' /\ drawn' = drawn + 0
        BY <1>1, <1>5, <1>9, CodedEmpty, SeqEmpty, Delivered DEF Deliver
    <2>2. Coded(Waiting(orders'), s, orders_state')
        BY <1>1, <1>2, <1>4, <1>5, <1>9, CodedAppend
    <2>3. orders'.order_count = orders.order_count + 1
        BY <1>2, <1>6, <1>9, SeqAppend DEF StreamOK
    <2>4. total' = total + 1 /\ lost' = lost
        BY <1>5, <1>9 DEF Asked
    <2>5. /\ drawn' \in Nat /\ total' \in Nat /\ lost' \in Nat
          /\ total' = drawn' + orders'.order_count + lost'
        BY <1>2, <2>1, <2>3, <2>4 DEF OrdersInv, StreamOK
    <2> QED BY <1>6, <1>7, <1>8, <2>1, <2>2, <2>5 DEF OrdersInv
<1>10. CASE forced = Waiting(orders) /\ Waiting(orders') = Append(<<>>, item)
    <2>1. /\ Agree(orders_state, client') /\ DrawnAsAsked'
          /\ drawn' = drawn + orders.order_count
        BY <1>1, <1>2, <1>5, <1>10, Delivered DEF Deliver, StreamOK
    <2>2. Coded(Waiting(orders'), orders_state, orders_state')
        BY <1>4, <1>5, <1>10, CodedEmpty, SeqEmpty, CodedAppend
    <2>3. orders'.order_count = 1
        BY <1>6, <1>10, SeqEmpty, SeqAppend DEF StreamOK
    <2>4. \/ total' = total + 1 /\ lost' = lost
          \/ total' = total + 1 + 1 /\ lost' = lost + 1
        BY <1>5 DEF Asked
    <2>5. /\ drawn' \in Nat /\ total' \in Nat /\ lost' \in Nat
          /\ total' = drawn' + orders'.order_count + lost'
        BY <1>2, <2>1, <2>3, <2>4 DEF OrdersInv, StreamOK
    <2> QED BY <1>6, <1>7, <1>8, <2>1, <2>2, <2>5 DEF OrdersInv
<1> QED BY <1>6, <1>9, <1>10

\* The palette and the RAIL orders are no primary orders.
Plain == [primary |-> FALSE]

LEMMA WritesPlain ==
    ASSUME NEW op, IsSecondaryOp(op), NEW s
    PROVE  /\ Step(s, [op |-> op, e |-> Plain], s)
           /\ Written(op, Plain) \in Nat /\ MaxSize(op) \in Nat
           /\ Written(op, Plain) <= MaxSize(op) + 14
    BY SecondaryFits DEF Step, Plain

LEMMA DrawRefusedStep ==
    ASSUME OrdersInv, NEW asked \in Ops, DrawRefused(asked)
    PROVE  OrdersInv' /\ DrawnAsAsked' /\ (OneFragment => OneFragment')
<1>1. PICK s : Agree(s, client) /\ Coded(Waiting(orders), s, orders_state)
    BY DEF OrdersInv
<1>2. Deliver(<<>>, FALSE) /\ UNCHANGED <<orders, orders_state, depth, total, lost>>
    BY DEF DrawRefused
<1>3. Agree(s, client') /\ DrawnAsAsked' /\ drawn' = drawn + 0
    BY <1>1, <1>2, CodedEmpty, SeqEmpty, Delivered DEF Deliver
<1>4. drawn' = drawn
    BY <1>3 DEF OrdersInv
<1>5. OneFragment => OneFragment'
    BY <1>2 DEF OneFragment
<1> QED BY <1>1, <1>2, <1>3, <1>4, <1>5 DEF OrdersInv

\* Two PDUs of one step, read one after the other.
LEMMA EmptyJoin ==
    ASSUME NEW q, AnySeq(q)
    PROVE  <<>> \o q = q /\ q \o <<>> = q
<1>1. PICK S : q \in Seq(S)
    BY DEF AnySeq
<1> QED BY <1>1

LEMMA RailOrderStep ==
    ASSUME OrdersInv, NEW asked \in RailOps, RailOrder(asked)
    PROVE  OrdersInv' /\ DrawnAsAsked' /\ (SizesFit /\ OneFragment => OneFragment')
<1> DEFINE o == OrdersInit(orders)
           after == Taken(o, asked, Plain)
           forced == Overflow(o, MaxSize(asked))
           item == [op |-> asked, e |-> Plain]
<1>1. PICK s : Agree(s, client) /\ Coded(Waiting(orders), s, orders_state)
    BY DEF OrdersInv
<1>2. StreamOK(orders) /\ AnySeq(Waiting(orders)) /\ orders.order_level \in Nat
    BY DEF OrdersInv, StreamOK
<1>3. /\ StreamOK(o) /\ Waiting(o) = Waiting(orders)
      /\ o.order_level = orders.order_level + 1
    BY <1>2, InitStream
<1>4. IsSecondaryOp(asked)
    BY OrdersAssumption
<1>5. /\ Step(orders_state, item, orders_state) /\ Written(asked, Plain) \in Nat
      /\ MaxSize(asked) \in Nat /\ Written(asked, Plain) <= MaxSize(asked) + 14
    BY <1>4, WritesPlain
<1>6. /\ orders' = OrdersSend(after) /\ Deliver(forced \o Sent(after), FALSE)
      /\ Asked(1, forced) /\ orders_state' = orders_state /\ depth' = depth
    BY DEF RailOrder, Taken, Overflow, Sent, Plain
<1>7. /\ StreamOK(after) /\ after.order_level > 0
      /\ after.order_level <= o.order_level \/ after.order_level = 1
      /\ \/ /\ forced = Waiting(orders) /\ Waiting(after) = Append(<<>>, item)
            /\ after.order_level = 1
         \/ forced = <<>> /\ Waiting(after) = Append(Waiting(orders), item)
    BY <1>3, <1>5, TakenStream
<1>8. SizesFit => after.size + Layers <= FragSize
    BY <1>3, <1>5, TakenSize DEF SizesFit
<1> HIDE DEF o, after, forced, item
<1>9. /\ StreamOK(orders') /\ orders'.order_level = after.order_level - 1
      /\ orders'.size = after.size
      /\ \/ after.order_level = 1 /\ Sent(after) = Waiting(after) /\ Waiting(orders') = <<>>
         \/ after.order_level # 1 /\ Sent(after) = <<>> /\ Waiting(orders') = Waiting(after)
    BY <1>6, <1>7, SentStream
<1>10. depth' \in Nat /\ orders'.order_level <= depth'
    BY <1>2, <1>3, <1>6, <1>7, <1>9, SMTT(40) DEF OrdersInv, StreamOK
<1>11. SizesFit => OneFragment'
    BY <1>8, <1>9 DEF OneFragment
<1>12. /\ Coded(Append(<<>>, item), orders_state, orders_state)
       /\ AnySeq(Append(<<>>, item)) /\ Len(Append(<<>>, item)) = 1
    <2>1. AnySeq(Append(<<>>, item)) /\ Len(Append(<<>>, item)) = 0 + 1
        BY SeqEmpty, SeqAppend
    <2>2. Coded(Append(<<>>, item), orders_state, orders_state)
        BY <1>5, CodedEmpty, SeqEmpty, CodedAppend DEF item
    <2> QED BY <2>1, <2>2
<1>13. /\ Coded(Append(Waiting(orders), item), s, orders_state)
       /\ AnySeq(Append(Waiting(orders), item))
       /\ Len(Append(Waiting(orders), item)) = orders.order_count + 1
    BY <1>1, <1>2, <1>5, SeqAppend, CodedAppend DEF StreamOK
<1>14. CASE forced = Waiting(orders) /\ Waiting(after) = Append(<<>>, item) /\ after.order_level = 1
    <2> DEFINE pdu == Waiting(orders) \o Append(<<>>, item)
    <2>1. Deliver(pdu, FALSE) /\ Waiting(orders') = <<>>
        BY <1>6, <1>9, <1>14
    <2>2. Coded(pdu, s, orders_state) /\ AnySeq(pdu) /\ Len(pdu) = orders.order_count + 1
        BY <1>1, <1>2, <1>12, SeqJoin, CodedJoin DEF StreamOK
    <2> HIDE DEF pdu
    <2>3. Agree(orders_state, client') /\ DrawnAsAsked' /\ drawn' = drawn + (orders.order_count + 1)
        BY <1>1, <2>1, <2>2, Delivered DEF Deliver
    <2>4. Coded(Waiting(orders'), orders_state, orders_state')
        BY <1>6, <2>1, CodedEmpty
    <2>5. orders'.order_count = 0
        BY <1>9, <2>1, SeqEmpty DEF StreamOK
    <2>6. \/ total' = total + 1 /\ lost' = lost
          \/ total' = total + 1 + 1 /\ lost' = lost + 1
        BY <1>6 DEF Asked
    <2>7. /\ drawn' \in Nat /\ total' \in Nat /\ lost' \in Nat
          /\ total' = drawn' + orders'.order_count + lost'
        BY <1>2, <2>3, <2>5, <2>6 DEF OrdersInv, StreamOK
    <2> QED BY <1>9, <1>10, <1>11, <2>3, <2>4, <2>7 DEF OrdersInv
<1>15. CASE forced = <<>> /\ Waiting(after) = Append(Waiting(orders), item)
    <2>1. total' = total + 1 /\ lost' = lost
        BY <1>6, <1>15 DEF Asked
    <2>2. CASE after.order_level = 1
        <3>1. Deliver(Append(Waiting(orders), item), FALSE) /\ Waiting(orders') = <<>>
            BY <1>6, <1>9, <1>13, <1>15, <2>2, EmptyJoin
        <3>2. /\ Agree(orders_state, client') /\ DrawnAsAsked'
              /\ drawn' = drawn + (orders.order_count + 1)
            BY <1>1, <1>13, <3>1, Delivered DEF Deliver
        <3>3. Coded(Waiting(orders'), orders_state, orders_state')
            BY <1>6, <3>1, CodedEmpty
        <3>4. orders'.order_count = 0
            BY <1>9, <3>1, SeqEmpty DEF StreamOK
        <3>5. /\ drawn' \in Nat /\ total' \in Nat /\ lost' \in Nat
              /\ total' = drawn' + orders'.order_count + lost'
            BY <1>2, <2>1, <3>2, <3>4 DEF OrdersInv, StreamOK
        <3> QED BY <1>9, <1>10, <1>11, <3>2, <3>3, <3>5 DEF OrdersInv
    <2>3. CASE after.order_level # 1
        <3>1. Deliver(<<>>, FALSE) /\ Waiting(orders') = Append(Waiting(orders), item)
            BY <1>6, <1>9, <1>15, <2>3, EmptyJoin, SeqEmpty
        <3>2. Agree(s, client') /\ DrawnAsAsked' /\ drawn' = drawn + 0
            BY <1>1, <3>1, CodedEmpty, SeqEmpty, Delivered DEF Deliver
        <3>3. Coded(Waiting(orders'), s, orders_state')
            BY <1>6, <1>13, <3>1
        <3>4. orders'.order_count = orders.order_count + 1
            BY <1>9, <1>13, <3>1 DEF StreamOK
        <3>5. /\ drawn' \in Nat /\ total' \in Nat /\ lost' \in Nat
              /\ total' = drawn' + orders'.order_count + lost'
            BY <1>2, <2>1, <3>2, <3>4 DEF OrdersInv, StreamOK
        <3> QED BY <1>9, <1>10, <1>11, <3>2, <3>3, <3>5 DEF OrdersInv
    <2> QED BY <2>2, <2>3
<1> QED BY <1>7, <1>14, <1>15

LEMMA SendPaletteStep ==
    ASSUME OrdersInv, SendPalette
    PROVE  OrdersInv' /\ DrawnAsAsked' /\ OneFragment'
<1> DEFINE op == [kind |-> "palette", val |-> [row |-> 1024, rows |-> 1], rect |-> NoRect]
           first == ForceSend(orders)
           o == OrdersInit(first)
           after == Taken(o, op, Plain)
           item == [op |-> op, e |-> Plain]
           pdu == Waiting(orders) \o Append(<<>>, item)
<1>1. PICK s : Agree(s, client) /\ Coded(Waiting(orders), s, orders_state)
    BY DEF OrdersInv
<1>2. StreamOK(orders) /\ AnySeq(Waiting(orders)) /\ orders.order_count = Len(Waiting(orders))
    BY DEF OrdersInv, StreamOK
<1>3. /\ StreamOK(first) /\ Waiting(first) = <<>> /\ first.order_level = 0
      /\ Forced(orders) = Waiting(orders)
    BY <1>2, ForcedStream
<1>4. /\ orders' = OrdersSend(after) /\ orders_state' = orders_state /\ depth' = depth
      /\ Deliver(Forced(orders) \o Pdu(after), FALSE) /\ Asked(1, Forced(orders))
    BY ZenonT(40) DEF SendPalette, Taken, Plain
<1>5. IsSecondaryOp(op)
    BY DEF IsSecondaryOp, SecondaryKinds
<1>6. Step(orders_state, item, orders_state) /\ Written(op, Plain) \in Nat
    BY <1>5, WritesPlain
<1> HIDE DEF op, first
<1>7. StreamOK(o) /\ Waiting(o) = <<>> /\ o.order_level = 0 + 1
    BY <1>3, InitStream
<1> HIDE DEF o
<1>8. /\ StreamOK(after) /\ after.order_level > 0
      /\ after.order_level <= o.order_level \/ after.order_level = 1
      /\ Waiting(after) = Append(<<>>, item)
    BY <1>6, <1>7, TakenStream
<1> HIDE DEF after, item
<1>9. after.order_level = 1 /\ Pdu(after) = Append(<<>>, item)
    <2>1. after.order_level = 1
        BY <1>7, <1>8 DEF StreamOK
    <2> QED BY <1>8, <2>1, WholePdu DEF Waiting
<1>10. StreamOK(orders') /\ orders'.order_level = 1 - 1 /\ Waiting(orders') = <<>>
    BY <1>4, <1>8, <1>9, SentStream
<1>11. Deliver(pdu, FALSE)
    BY <1>3, <1>4, <1>9
<1>12. AnySeq(Append(<<>>, item)) /\ Len(Append(<<>>, item)) = 0 + 1
    BY SeqEmpty, SeqAppend
<1>13. Coded(Append(<<>>, item), orders_state, orders_state)
    BY <1>6, CodedEmpty, SeqEmpty, CodedAppend DEF item
<1>14. Coded(pdu, s, orders_state)
    BY <1>1, <1>2, <1>12, <1>13, CodedJoin
<1>15. AnySeq(pdu) /\ Len(pdu) = orders.order_count + 1
    BY <1>2, <1>12, SeqJoin
<1> HIDE DEF pdu
<1>16. /\ Agree(orders_state, client') /\ DrawnAsAsked'
       /\ drawn' = drawn + (orders.order_count + 1)
    BY <1>1, <1>11, <1>14, <1>15, Delivered DEF Deliver
<1>17. Coded(Waiting(orders'), orders_state, orders_state')
    BY <1>4, <1>10, CodedEmpty
<1>18. orders'.order_count = 0
    BY <1>10, SeqEmpty DEF StreamOK
<1>19. \/ total' = total + 1 /\ lost' = lost
       \/ total' = total + 1 + 1 /\ lost' = lost + 1
    BY <1>4 DEF Asked
<1>20. /\ drawn' \in Nat /\ total' \in Nat /\ lost' \in Nat
       /\ total' = drawn' + orders'.order_count + lost'
    BY <1>16, <1>18, <1>19 DEF OrdersInv, StreamOK
<1>21. depth' \in Nat /\ orders'.order_level <= depth'
    BY <1>4, <1>10 DEF OrdersInv
<1>22. OneFragment'
    BY <1>18 DEF OneFragment
<1> QED BY <1>10, <1>16, <1>17, <1>20, <1>21, <1>22 DEF OrdersInv

LEMMA ResetStep ==
    ASSUME OrdersInv, Reset
    PROVE  OrdersInv' /\ DrawnAsAsked' /\ OneFragment'
<1>1. PICK s : Agree(s, client) /\ Coded(Waiting(orders), s, orders_state)
    BY DEF OrdersInv
<1>2. StreamOK(orders) /\ AnySeq(Waiting(orders)) /\ orders.order_count = Len(Waiting(orders))
    BY DEF OrdersInv, StreamOK
<1> DEFINE o == ForceSend(orders)
           p == [o EXCEPT !.size = 0]
<1>3. StreamOK(o) /\ Waiting(o) = <<>> /\ o.order_level = 0 /\ Forced(orders) = Waiting(orders)
    BY <1>2, ForcedStream
<1>4. /\ orders' = p /\ orders_state' = ServerStart /\ client' = ClientStart /\ depth' = depth
      /\ Shows(Waiting(orders), FALSE) /\ Asked(0, Waiting(orders))
    BY <1>3 DEF Reset
<1> HIDE DEF o
<1>5. /\ DOMAIN p = DOMAIN o /\ p.order_level = o.order_level
      /\ p.order_count = o.order_count /\ p.out = o.out /\ p.size = 0
    BY <1>3 DEF StreamOK
<1> HIDE DEF p
<1>6. Waiting(p) = <<>>
    BY <1>3, <1>5 DEF Waiting
<1>7. StreamOK(orders') /\ Waiting(orders') = <<>> /\ orders'.order_level = 0
    BY <1>3, <1>4, <1>5, <1>6 DEF StreamOK
<1>8. orders'.order_count = 0
    BY <1>7, SeqEmpty DEF StreamOK
<1>9. DrawnAsAsked' /\ drawn' = drawn + orders.order_count
    BY <1>1, <1>2, <1>4, Delivered
<1>10. Agree(orders_state', client') /\ Coded(Waiting(orders'), orders_state', orders_state')
    BY <1>4, <1>7, CodedEmpty, StartsAgree
<1>11. \/ total' = total + 0 /\ lost' = lost
       \/ total' = total + 0 + 1 /\ lost' = lost + 1
    BY <1>4 DEF Asked
<1>12. /\ drawn' \in Nat /\ total' \in Nat /\ lost' \in Nat
       /\ total' = drawn' + orders'.order_count + lost'
    BY <1>8, <1>9, <1>11 DEF OrdersInv, StreamOK
<1>13. depth' \in Nat /\ orders'.order_level <= depth'
    BY <1>4, <1>7 DEF OrdersInv
<1>14. OneFragment'
    BY <1>8 DEF OneFragment
<1> QED BY <1>7, <1>9, <1>10, <1>12, <1>13, <1>14 DEF OrdersInv

-----------------------------------------------------------------------------
(* The theorems *)

LEMMA OrdersInitially == Init => OrdersInv /\ OneFragment /\ DrawnAsAsked /\ depth <= MaxDepth
<1> SUFFICES ASSUME Init PROVE OrdersInv /\ OneFragment /\ DrawnAsAsked /\ depth <= MaxDepth
    OBVIOUS
<1> USE DEF Init, EmptyOrders
<1>1. Waiting(orders) = <<>>
    BY DEF Waiting
<1>2. StreamOK(orders)
    BY <1>1, SeqEmpty DEF StreamOK
<1>3. Agree(orders_state, client) /\ Coded(Waiting(orders), orders_state, orders_state)
    BY <1>1, CodedEmpty, StartsAgree
<1>4. OrdersInv
    BY <1>2, <1>3 DEF OrdersInv
<1>5. OneFragment
    BY DEF OneFragment
<1>6. DrawnAsAsked
    BY SeqEmpty DEF DrawnAsAsked
<1> QED BY <1>4, <1>5, <1>6, OrdersAssumption

\* A step of any caller.
LEMMA OrdersStep ==
    ASSUME OrdersInv, depth <= MaxDepth, [Next]_vars
    PROVE  /\ OrdersInv' /\ depth' <= MaxDepth
           /\ SizesFit /\ OneFragment => OneFragment'
           /\ (OneFragment \/ RailOps = {}) /\ DrawnAsAsked => DrawnAsAsked'
<1>0. depth \in Nat
    BY DEF OrdersInv
<1>1. CASE BeginUpdate
    <2>1. depth' <= MaxDepth
        BY <1>0, <1>1, OrdersAssumption DEF BeginUpdate
    <2> QED BY <1>1, <2>1, BeginUpdateStep
<1>2. CASE EndUpdate
    <2>1. depth' <= MaxDepth
        BY <1>0, <1>2, OrdersAssumption DEF EndUpdate
    <2> QED BY <1>2, <2>1, EndUpdateStep
<1>3. CASE SendPalette
    <2>1. depth' <= MaxDepth
        BY <1>3 DEF SendPalette
    <2> QED BY <1>3, <2>1, SendPaletteStep
<1>4. CASE Reset
    <2>1. depth' <= MaxDepth
        BY <1>4 DEF Reset
    <2> QED BY <1>4, <2>1, ResetStep
<1>5. ASSUME NEW op \in Ops, Draw(op) PROVE
           /\ OrdersInv' /\ depth' <= MaxDepth /\ (SizesFit => OneFragment') /\ DrawnAsAsked'
    <2>1. depth' <= MaxDepth
        BY <1>5 DEF Draw
    <2> QED BY <1>5, <2>1, DrawStep
<1>6. ASSUME NEW op \in Ops, DrawRefused(op) PROVE
           /\ OrdersInv' /\ depth' <= MaxDepth /\ (OneFragment => OneFragment') /\ DrawnAsAsked'
    <2>1. depth' <= MaxDepth
        BY <1>6 DEF DrawRefused
    <2> QED BY <1>6, <2>1, DrawRefusedStep
<1>7. ASSUME NEW op \in RailOps, RailOrder(op) PROVE
           /\ OrdersInv' /\ depth' <= MaxDepth /\ (SizesFit /\ OneFragment => OneFragment')
           /\ DrawnAsAsked'
    <2>1. depth' <= MaxDepth
        BY <1>7 DEF RailOrder
    <2> QED BY <1>7, <2>1, RailOrderStep
<1>8. CASE UNCHANGED vars
    BY <1>8 DEF vars, OrdersInv, OneFragment, DrawnAsAsked
<1> QED BY <1>1, <1>2, <1>3, <1>4, <1>5, <1>6, <1>7, <1>8 DEF Next

\* In every reachable state the waiting orders are written against the state
\* the client has (libxrdp/xrdp_orders.c: orders_state, out_s), and the
\* counters account for every order.
THEOREM OrdersInvHolds == Spec => [](OrdersInv /\ depth <= MaxDepth)
<1>1. Init => OrdersInv /\ depth <= MaxDepth
    BY OrdersInitially
<1>2. OrdersInv /\ depth <= MaxDepth /\ [Next]_vars => (OrdersInv /\ depth <= MaxDepth)'
    BY OrdersStep
<1> QED BY <1>1, <1>2, PTL DEF Spec

\* The stream's level, count and size are never negative, and both states name
\* a kind of order as the last one (struct xrdp_orders, xrdp_orders_reset).
THEOREM OrdersTypeOK == Spec => []TypeOK
<1>1. OrdersInv /\ depth <= MaxDepth => TypeOK
    <2> SUFFICES ASSUME OrdersInv, depth <= MaxDepth PROVE TypeOK
        OBVIOUS
    <2>1. PICK s : Agree(s, client) /\ Coded(Waiting(orders), s, orders_state)
        BY DEF OrdersInv
    <2>2. StreamOK(orders) /\ AnySeq(Waiting(orders))
        BY DEF OrdersInv, StreamOK
    <2>3. StateOK(orders_state) /\ StateOK(client)
        BY <2>1, <2>2, PduRead DEF Agree
    <2>4. depth \in 0 .. MaxDepth
        BY OrdersAssumption DEF OrdersInv
    <2> QED BY <2>2, <2>3, <2>4 DEF OrdersInv, TypeOK, StreamOK, StateOK
<1> QED BY <1>1, OrdersInvHolds, PTL

\* When nothing waits, the server's idea of the client's state is the client's
\* state (xrdp_orders_reset and every xrdp_orders_* function).
THEOREM StatesAgreeHolds == Spec => []StatesAgree
<1>1. OrdersInv => StatesAgree
    <2> SUFFICES ASSUME OrdersInv, orders.order_count = 0
                 PROVE  Agree(orders_state, client)
        BY DEF StatesAgree, Agree, Outer
    <2>1. PICK s : Agree(s, client) /\ Coded(Waiting(orders), s, orders_state)
        BY DEF OrdersInv
    <2>2. Waiting(orders) = <<>>
        BY NoneWaiting DEF OrdersInv
    <2>3. PICK h : Run(h, <<>>, s, orders_state)
        BY <2>1, <2>2 DEF Coded
    <2>4. s = orders_state
        BY <2>3, SeqEmpty DEF Run
    <2> QED BY <2>1, <2>4
<1> QED BY <1>1, OrdersInvHolds, PTL

\* Every order asked for is drawn, waiting, or a RAIL order that was dropped
\* (xrdp_orders_init, xrdp_orders_send, xrdp_orders_force_send).
THEOREM NoOrderLostHolds == Spec => []NoOrderLost
<1>1. OrdersInv => NoOrderLost
    BY DEF OrdersInv, NoOrderLost
<1> QED BY <1>1, OrdersInvHolds, PTL

\* The last end of an update leaves nothing in out_s, whatever a forced send
\* did to order_level in between.
THEOREM NothingLeftWaitingHolds == Spec => []NothingLeftWaiting
<1>1. OrdersInv => NothingLeftWaiting
    <2> SUFFICES ASSUME OrdersInv, depth = 0 PROVE orders.order_count = 0
        BY DEF NothingLeftWaiting
    <2>1. orders.order_level = 0
        BY DEF OrdersInv, StreamOK
    <2> QED BY <2>1, SeqEmpty DEF OrdersInv, StreamOK, Waiting
<1> QED BY <1>1, OrdersInvHolds, PTL

\* When each order fits a fragment, so does each PDU: xrdp_orders_check
\* leaves room for what the orders write beyond what they announce.
THEOREM OneFragmentHolds == SizesFit /\ Spec => []OneFragment
<1> DEFINE I == OrdersInv /\ depth <= MaxDepth /\ OneFragment
<1>1. Init => I
    BY OrdersInitially
<1>2. SizesFit /\ I /\ [Next]_vars => I'
    BY OrdersStep
<1>3. I => OneFragment
    OBVIOUS
<1> HIDE DEF I
<1>4. SizesFit => (Spec => []I)
    <2> SUFFICES ASSUME SizesFit PROVE Spec => []I
        OBVIOUS
    <2>1. I /\ [Next]_vars => I'
        BY <1>2
    <2> QED BY <1>1, <2>1, PTL DEF Spec
<1> QED BY <1>3, <1>4, PTL

\* What the client rebuilds from the coded orders is what the callers asked
\* for, for every sequence of orders whose coordinates fit the wire, when a
\* PDU fits one fragment or there are no RAIL orders to overwrite its rest.
THEOREM DrawnAsAskedHolds == (SizesFit \/ RailOps = {}) /\ Spec => []DrawnAsAsked
<1> DEFINE I == /\ OrdersInv /\ depth <= MaxDepth /\ DrawnAsAsked
                /\ OneFragment \/ RailOps = {}
<1>1. Init => I
    BY OrdersInitially
<1>2. (SizesFit \/ RailOps = {}) /\ I /\ [Next]_vars => I'
    BY OrdersStep
<1>3. I => DrawnAsAsked
    OBVIOUS
<1> HIDE DEF I
<1>4. SizesFit \/ RailOps = {} => (Spec => []I)
    <2> SUFFICES ASSUME SizesFit \/ RailOps = {} PROVE Spec => []I
        OBVIOUS
    <2>1. I /\ [Next]_vars => I'
        BY <1>2
    <2> QED BY <1>1, <2>1, PTL DEF Spec
<1> QED BY <1>3, <1>4, PTL
=============================================================================

------------------------------- MODULE Orders -------------------------------
(***************************************************************************)
(* The drawing orders of one session: libxrdp/xrdp_orders.c and            *)
(* xrdp_orders_rail.c.  Orders are collected in one stream, out_s, between *)
(* xrdp_orders_init and the xrdp_orders_send that brings order_level back  *)
(* to zero, and leave early when the stream is full.  A primary order is   *)
(* written against orders_state: only the fields that differ from the last *)
(* order of its kind, coordinates as differences when all are small, the   *)
(* clip only where the order exceeds it.  The client keeps the same state  *)
(* and rebuilds the order from it, so one order lost, repeated or sent     *)
(* with the wrong flags spoils the ones after it.                          *)
(*                                                                         *)
(* Every PDU that is sent calls back into the window manager (0x5556),     *)
(* which may find a RAIL order from the channel server and write it to the *)
(* same stream while xrdp_orders_force_send is still on the stack.         *)
(*                                                                         *)
(* The transport is reliable and ordered (module Trans), so the client     *)
(* reads a PDU in the step that sends it.  A send that fails ends the      *)
(* session and is left out.                                                *)
(***************************************************************************)
EXTENDS Integers, Sequences, FiniteSets, SequencesExt

CONSTANTS Ops,           \* the orders callers draw: [kind, val, rect]
          RailOps,       \* the RAIL orders chansrv asks for
          MaxOrderSize,  \* MAX_ORDERS_SIZE(client_info)
          FragSize,      \* FASTPATH_FRAG_SIZE
          Sync,          \* whether libxrdp_reset and libxrdp_send_palette are called
          MaxDepth,      \* bound: nesting of begin and end of an update
          MaxOrders      \* bound: orders drawn

NoRect == [none |-> TRUE]
Sides  == {"left", "top", "right", "bottom"}

-----------------------------------------------------------------------------
(* The kinds of order.  A primary order has its size announced to          *)
(* xrdp_orders_check, the bytes of its present mask and its fields in the  *)
(* order of the bits of that mask; F is a field of n bytes, C a coordinate,*)
(* Hole a bit that is never set.                                           *)

F(f, n) == [name |-> f, bytes |-> n, coord |-> FALSE]
C(f)    == [name |-> f, bytes |-> 2, coord |-> TRUE]
Hole    == F("none", 0)

Rect == [max |-> 23, present |-> 1, fields |->
    <<C("x"), C("y"), C("cx"), C("cy"), F("color0", 1), F("color1", 1), F("color2", 1)>>]

ScreenBlt == [max |-> 25, present |-> 1, fields |->
    <<C("x"), C("y"), C("cx"), C("cy"), F("rop", 1), C("srcx"), C("srcy")>>]

PatBlt == [max |-> 39, present |-> 2, fields |->
    <<C("x"), C("y"), C("cx"), C("cy"), F("rop", 1), F("bg_color", 3), F("fg_color", 3),
      F("x_origin", 1), F("y_origin", 1), F("style", 1), F("pattern0", 1), F("pattern1", 7)>>]

DestBlt == [max |-> 21, present |-> 1, fields |->
    <<C("x"), C("y"), C("cx"), C("cy"), F("rop", 1)>>]

Line == [max |-> 32, present |-> 2, fields |->
    <<F("mix_mode", 2), C("startx"), C("starty"), C("endx"), C("endy"), F("bg_color", 3),
      F("rop", 1), F("pen_style", 1), F("pen_width", 1), F("pen_color", 3)>>]

\* cache_id and color_table are one field.
MemBlt == [max |-> 30, present |-> 2, fields |->
    <<F("cache_id", 2), C("x"), C("y"), C("cx"), C("cy"), F("rop", 1), C("srcx"), C("srcy"),
      F("cache_idx", 2)>>]

\* transform1 stands for srctransform[1] to [9].
CompositeBlt == [max |-> 80, present |-> 3, fields |->
    <<F("srcidx", 2), F("srcformat", 4), C("srcwidth"), F("srcrepeat", 1), F("transform0", 4),
      F("transform1", 36), F("mskflags", 1), F("mskidx", 2), F("mskformat", 4), C("mskwidth"),
      F("mskrepeat", 1), F("op", 1), C("srcx"), C("srcy"), C("mskx"), C("msky"), C("dstx"),
      C("dsty"), C("width"), C("height"), F("dstformat", 4)>>]

\* The value of data stands for data_len; it is announced and written on top.
Text == [max |-> 44, present |-> 3, fields |->
    <<F("font", 1), F("flags", 1), Hole, F("mixmode", 1), F("fg_color", 3), F("bg_color", 3),
      F("clip_left", 2), F("clip_top", 2), F("clip_right", 2), F("clip_bottom", 2),
      F("box_left", 2), F("box_top", 2), F("box_right", 2), F("box_bottom", 2),
      Hole, Hole, Hole, Hole, Hole, F("x", 2), F("y", 2), F("data", 1)>>]

Primary == [rect |-> Rect, screen_blt |-> ScreenBlt, pat_blt |-> PatBlt, dest_blt |-> DestBlt,
            line |-> Line, mem_blt |-> MemBlt, composite_blt |-> CompositeBlt, text |-> Text]

Fields(k) == {f \in Range(Primary[k].fields) : f # Hole}
Names(k)  == {f.name : f \in Fields(k)}
CoordsOf(k) == {f.name : f \in {g \in Fields(k) : g.coord}}

\* A secondary or window order carries row * rows bytes of payload.  max is
\* what it announces and bytes what it writes, both beyond the payload.
Secondary(m, b) == [max |-> m, bytes |-> b]
Palette         == Secondary(976, 9)
RawBitmap       == Secondary(16, 15)
Bitmap          == Secondary(16, 23)
CacheGlyph      == Secondary(18, 18)
CacheGlyphV2    == Secondary(15, 15)
RawBitmap2      == Secondary(14, 12)
Bitmap2         == Secondary(14, 12)
BitmapV3        == Secondary(30, 28)
Brush           == Secondary(12, 12)
CreateOsSurface == Secondary(7, 7)
SwitchOsSurface == Secondary(3, 3)
WindowDelete     == Secondary(11, 11)
WindowCachedIcon == Secondary(14, 14)
WindowIcon       == Secondary(23, 23)
WindowNewUpdate  == Secondary(11, 11)
NotifyDelete     == Secondary(15, 15)
NotifyNewUpdate  == Secondary(15, 15)
MonitoredDesktop == Secondary(7, 7)

SecondaryKinds ==
    [palette |-> Palette, raw_bitmap |-> RawBitmap, bitmap |-> Bitmap, glyph |-> CacheGlyph,
     glyph_v2 |-> CacheGlyphV2, raw_bitmap2 |-> RawBitmap2, bitmap2 |-> Bitmap2,
     bitmap_v3 |-> BitmapV3, brush |-> Brush, create_os_surface |-> CreateOsSurface,
     switch_os_surface |-> SwitchOsSurface, window_delete |-> WindowDelete,
     window_cached_icon |-> WindowCachedIcon, window_icon |-> WindowIcon,
     window_new_update |-> WindowNewUpdate, notify_delete |-> NotifyDelete,
     notify_new_update |-> NotifyNewUpdate, monitored_desktop |-> MonitoredDesktop]

IsPrimary(k) == k \in DOMAIN Primary

\* What a coordinate holds on the wire, and a clip whose right and bottom do
\* so when they are inclusive.
Coord == {n \in Int : -32768 <= n /\ n <= 32767}
IsClip(r) == r \in [Sides -> Coord] /\ r.right - 1 \in Coord /\ r.bottom - 1 \in Coord

\* The orders callers draw: the screen is smaller than the coordinates, and a
\* transform that is used (transform0) has a matrix that is not all zero.
IsPrimaryOp(op) ==
    /\ IsPrimary(op.kind) /\ DOMAIN op = {"kind", "val", "rect"}
    /\ op.val \in [Names(op.kind) -> Int]
    /\ \A n \in CoordsOf(op.kind) : op.val[n] \in Coord
    /\ op.rect = NoRect \/ IsClip(op.rect)
    /\ op.kind = "composite_blt" /\ op.val["transform1"] = 0 => op.val["transform0"] = 0
    /\ op.kind = "text" => op.val["data"] \in Nat

IsSecondaryOp(op) ==
    /\ op.kind \in DOMAIN SecondaryKinds /\ DOMAIN op = {"kind", "val", "rect"}
    /\ op.val \in [row : Nat, rows : Nat]

ASSUME OrdersAssumption ==
    /\ \A op \in Ops : IsPrimaryOp(op) \/ IsSecondaryOp(op)
    /\ \A op \in RailOps : IsSecondaryOp(op)
    /\ MaxOrderSize \in Nat /\ FragSize \in Nat /\ MaxDepth \in Nat /\ Sync \in BOOLEAN

\* A bitmap loses rows from its end until what it announces fits an order.
FittingRows(k, v) ==
    IF k \in {"raw_bitmap", "bitmap", "raw_bitmap2", "bitmap2"}
    THEN Max({r \in 0 .. v.rows : r = 0 \/ v.row * r + SecondaryKinds[k].max <= MaxOrderSize})
    ELSE v.rows

\* xrdp_orders_line puts a mix mode or raster operation out of range right;
\* every other order is taken as it is.
Normal(op) ==
    IF op.kind = "line"
    THEN [op EXCEPT !.val.mix_mode = IF @ \in 1 .. 2 THEN @ ELSE 1,
                    !.val.rop = IF @ \in 1 .. 16 THEN @ ELSE 13]
    ELSE IF IsPrimary(op.kind) THEN op
    ELSE [op EXCEPT !.val.rows = FittingRows(op.kind, op.val)]

\* max_size of the call of xrdp_orders_check.
MaxSize(op) == IF op.kind = "text" THEN Text.max + op.val.data
               ELSE IF IsPrimary(op.kind) THEN Primary[op.kind].max
               ELSE SecondaryKinds[op.kind].max + op.val.row * op.val.rows

-----------------------------------------------------------------------------
(* Writing a primary order *)

Box(l, t, r, b) == [left |-> l, top |-> t, right |-> r, bottom |-> b]

\* The rectangles the clip is compared with: right and bottom are exclusive.
Boxes(k, v) ==
    CASE k = "line" ->
           {Box(Min({v.startx, v.endx}), Min({v.starty, v.endy}),
                Max({v.startx, v.endx}) + 1, Max({v.starty, v.endy}) + 1)}
      [] k = "composite_blt" ->
           {Box(v.dstx, v.dsty, v.dstx + v.width, v.dsty + v.height)}
      [] k = "text" ->
           {Box(v.clip_left, v.clip_top, v.clip_right, v.clip_bottom)} \cup
           (IF v.box_right - v.box_left > 1
            THEN {Box(v.box_left, v.box_top, v.box_right, v.box_bottom)} ELSE {})
      [] OTHER -> {Box(v.x, v.y, v.x + v.cx, v.y + v.cy)}

Exceeds(b, r) == b.left < r.left \/ b.top < r.top \/ b.right > r.right \/ b.bottom > r.bottom

Abs(n) == IF n < 0 THEN -n ELSE n
Byte(n) == n % 256
Word(n) == n % 65536

\* Mutant of OutBounds: the right and bottom clip are written as they are.
OutBoundsExclusive(clip, r) ==
    [s \in {s \in Sides : r[s] # clip[s]} |->
       IF Abs(r[s] - clip[s]) < 128 THEN [delta |-> TRUE, n |-> Byte(r[s] - clip[s])]
       ELSE [delta |-> FALSE, n |-> Word(r[s])]]

\* xrdp_orders_out_bounds: the sides that changed, as differences or whole.
OutBounds(clip, r) ==
    [s \in {s \in Sides : r[s] # clip[s]} |->
       IF Abs(r[s] - clip[s]) < 128
       THEN [delta |-> TRUE, n |-> Byte(r[s] - clip[s])]
       ELSE [delta |-> FALSE, n |-> Word(IF s \in {"right", "bottom"} THEN r[s] - 1 ELSE r[s])]]

\* The bytes of one primary order, as flags and fields.
Encode(st, op) ==
    LET k == op.kind
        v == op.val
        old == st.fld[k]
        bounded == op.rect # NoRect /\ \E b \in Boxes(k, v) : Exceeds(b, op.rect)
        delta == k # "text" /\ \A c \in CoordsOf(k) : Abs(v[c] - old[c]) < 128
        sent == {n \in Names(k) : v[n] # old[n] \/ n = "data"}
    IN  [primary |-> TRUE,
         type    |-> IF st.last_order # k THEN k ELSE "same",
         bounds  |-> IF ~bounded THEN "none"
                     ELSE IF op.rect = st.clip THEN "zero" ELSE "sides",
         sides   |-> IF bounded THEN OutBounds(st.clip, op.rect) ELSE <<>>,
         delta   |-> delta,
         val     |-> [n \in sent |-> IF n \notin CoordsOf(k) THEN v[n]
                                     ELSE IF delta THEN Byte(v[n] - old[n]) ELSE Word(v[n])]]

\* Mutant of After: the clip is stored for an order that was sent without it.
AfterAnyClip(st, op, e) ==
    [last_order |-> op.kind, clip |-> IF op.rect = NoRect THEN st.clip ELSE op.rect,
     fld |-> [st.fld EXCEPT ![op.kind] =
                 [n \in DOMAIN @ |-> IF n = "transform1" THEN @[n] ELSE op.val[n]]]]

\* orders_state after the order.  The copy of srctransform[1] to [9] is
\* compared with and never stored.
After(st, op, e) ==
    [last_order |-> op.kind,
     clip |-> IF e.bounds = "sides" THEN op.rect ELSE st.clip,
     fld  |-> [st.fld EXCEPT ![op.kind] =
                 [n \in DOMAIN @ |-> IF n = "transform1" THEN @[n] ELSE op.val[n]]]]

\* The order's size; trailing zero bytes of the present mask are cut
\* (xrdp_order_pack_small_or_tiny).
EncodedSize(op, e) ==
    LET k == op.kind
        width(f) == IF f.coord /\ e.delta THEN 1
                    ELSE IF f.name = "data" THEN 1 + op.val.data ELSE f.bytes
        fields == Primary[k].fields
        bits == {i \in DOMAIN fields : fields[i].name \in DOMAIN e.val}
        mask(n) == IF \E i \in bits : i > 8 * n THEN 1 ELSE 0
        side(s) == IF s \notin DOMAIN e.sides THEN 0 ELSE IF e.sides[s].delta THEN 1 ELSE 2
        upto[i \in 0 .. Len(fields)] ==
            IF i = 0 THEN 0 ELSE upto[i - 1] + (IF i \in bits THEN width(fields[i]) ELSE 0)
    IN  1 + (IF e.type = "same" THEN 0 ELSE 1) + mask(0) + mask(1) + mask(2)
        + (IF e.bounds = "sides"
           THEN 1 + side("left") + side("top") + side("right") + side("bottom") ELSE 0)
        + upto[Len(fields)]

-----------------------------------------------------------------------------
(* The client: it decodes with the state the protocol prescribes.  Its     *)
(* right and bottom are inclusive.                                         *)

\* A number of one byte or two, of which the upper half is negative.
Signed(b, half) == IF b >= half THEN b - 2 * half ELSE b

ClientSide(c, e, s) ==
    IF s \notin DOMAIN e.sides THEN c.clip[s]
    ELSE IF e.sides[s].delta THEN c.clip[s] + Signed(e.sides[s].n, 128)
    ELSE Signed(e.sides[s].n, 32768)

ClientReads(c, e) ==
    LET k == IF e.type = "same" THEN c.last_order ELSE e.type
        old == c.fld[k]
        new(n) == IF n \notin DOMAIN e.val THEN old[n]
                  ELSE IF n \notin CoordsOf(k) THEN e.val[n]
                  ELSE IF e.delta THEN old[n] + Signed(e.val[n], 128)
                  ELSE Signed(e.val[n], 32768)
    IN  [last_order |-> k,
         clip |-> IF e.bounds = "sides" THEN [s \in Sides |-> ClientSide(c, e, s)] ELSE c.clip,
         fld  |-> [c.fld EXCEPT ![k] = [n \in Names(k) |-> new(n)]]]

\* What the client draws: the order it rebuilt and the clip it uses.
Drawing(c, e) ==
    [kind |-> c.last_order, val |-> c.fld[c.last_order],
     clip |-> IF e.bounds = "none" THEN NoRect
              ELSE [c.clip EXCEPT !.right = @ + 1, !.bottom = @ + 1]]

-----------------------------------------------------------------------------
VARIABLES
    orders,        \* struct xrdp_orders: order_level, order_count, the orders
                   \* in out_s and size = out_s->p - order_count_ptr
    orders_state,  \* what the server takes the client's state to be
    client,        \* what it is
    depth,         \* updates begun and not ended (begin_end_level)
    shown,         \* the last step's drawings, each with the order asked for
    drawn, total,  \* orders drawn by the client, orders asked for
    lost           \* RAIL orders that were dropped

vars == <<orders, orders_state, client, depth, shown, drawn, total, lost>>

Header == 2      \* number of orders
Slack  == 100
Layers == 4      \* the fastpath update header, compression flags included

\* All zero, with the right and bottom clip at 1 ("silly rdp right clip");
\* last_order 0 is RDP_ORDER_DESTBLT.
ZeroState(r) ==
    [last_order |-> "dest_blt", clip |-> Box(0, 0, r, r),
     fld |-> [k \in DOMAIN Primary |-> [n \in Names(k) |-> 0]]]

ServerStart == ZeroState(1)
ClientStart == ZeroState(0)

EmptyOrders == [order_level |-> 0, order_count |-> 0, out |-> <<>>, size |-> 0]

Init ==
    /\ orders = EmptyOrders /\ orders_state = ServerStart /\ client = ClientStart
    /\ depth = 0 /\ shown = <<>> /\ drawn = 0 /\ total = 0 /\ lost = 0

\* Mutant of OrdersInit: every call starts a new stream.
OrdersInitAlways(o) ==
    [order_level |-> o.order_level + 1, order_count |-> 0, out |-> <<>>, size |-> Header]

\* xrdp_orders_init: the outermost call starts a new stream.
OrdersInit(o) ==
    IF o.order_level = 0
    THEN [order_level |-> 1, order_count |-> 0, out |-> <<>>, size |-> Header]
    ELSE [o EXCEPT !.order_level = @ + 1]

\* The PDU that leaves: the client reads order_count orders of out_s.
Pdu(o) == SubSeq(o.out, 1, o.order_count)

\* Mutant of OrdersSend: order_level is not compared with zero.
OrdersSendUnbalanced(o) ==
    [o EXCEPT !.order_level = @ - 1,
              !.order_count = IF o.order_level = 1 THEN 0 ELSE @]

\* xrdp_orders_send: whether a PDU leaves, and what is left.
SendsPdu(o) == o.order_level = 1 /\ o.order_count > 0
OrdersSend(o) ==
    IF o.order_level = 0 THEN o
    ELSE [o EXCEPT !.order_level = @ - 1,
                   !.order_count = IF SendsPdu(o) THEN 0 ELSE @]

\* Mutant of ForceSend: order_level is not reset.
ForceSendKeepsLevel(o) == [o EXCEPT !.order_count = 0]

\* xrdp_orders_force_send: the PDU that leaves, if any, and what is left.
Forced(o) == IF o.order_level > 0 THEN Pdu(o) ELSE <<>>
ForceSend(o) == [o EXCEPT !.order_level = 0, !.order_count = 0]

\* Mutant of Full: the order to come is not counted.
FullIgnoresMax(o, max) == o.order_level > 0 /\ o.size + Slack > MaxOrderSize

\* xrdp_orders_check: refuse, start a stream, or send it first when it is full.
Refuses(o, max) == o.order_level = 0 /\ max > MaxOrderSize
Full(o, max)    == o.order_level > 0 /\ o.size + max + Slack > MaxOrderSize
OrdersCheck(o, max) ==
    IF o.order_level = 0 THEN OrdersInit(o)
    ELSE IF Full(o, max) THEN OrdersInit(ForceSend(o)) ELSE o

\* The order goes to the end of the stream.
Out(o, op, e) ==
    [o EXCEPT !.order_count = @ + 1,
              !.out = Append(@, [op |-> op, e |-> e]),
              !.size = @ + (IF e.primary THEN EncodedSize(op, e)
                            ELSE SecondaryKinds[op.kind].bytes + op.val.row * op.val.rows)]

\* Writing op after xrdp_orders_check: the stream and orders_state.
Encoding(op) == IF IsPrimary(op.kind) THEN Encode(orders_state, op) ELSE [primary |-> FALSE]
StateAfter(op) ==
    IF IsPrimary(op.kind) THEN After(orders_state, op, Encoding(op)) ELSE orders_state

\* The client reads the orders of pdus; garbled when bytes of the stream were
\* overwritten before they left.
Reads(c, item) == IF item.e.primary THEN ClientReads(c, item.e) ELSE c
ClientAfter(pdu) ==
    LET at[i \in 0 .. Len(pdu)] == IF i = 0 THEN client ELSE Reads(at[i - 1], pdu[i])
    IN  at

Shows(pdu, garbled) ==
    LET c == ClientAfter(pdu)
    IN  /\ shown' = [i \in DOMAIN pdu |->
                       [asked |-> pdu[i].op,
                        drawn |-> IF garbled THEN [kind |-> "garbage"]
                                  ELSE IF pdu[i].e.primary THEN Drawing(c[i], pdu[i].e)
                                  ELSE [kind |-> pdu[i].op.kind, val |-> pdu[i].op.val]]]
        /\ drawn' = drawn + Len(pdu)

Deliver(pdu, garbled) == client' = ClientAfter(pdu)[Len(pdu)] /\ Shows(pdu, garbled)

\* n orders are asked for.  While a forced PDU leaves, the callback may handle
\* one more, for RAIL: orders_init makes the level one higher, out_s->p points
\* at the header of the PDU by then, so xrdp_orders_check reports a negative
\* size and the order is dropped.  ForceSend then resets the level.
Asked(n, forced) ==
    \/ total' = total + n /\ lost' = lost
    \/ forced # <<>> /\ RailOps # {} /\ total' = total + n + 1 /\ lost' = lost + 1

-----------------------------------------------------------------------------
(* The callers *)

\* xrdp_painter_begin_update
BeginUpdate ==
    /\ depth < MaxDepth /\ depth' = depth + 1
    /\ orders' = OrdersInit(orders) /\ Deliver(<<>>, FALSE)
    /\ UNCHANGED <<orders_state, total, lost>>

\* xrdp_painter_end_update.  When the PDU has several fragments, a RAIL order
\* handled after the first one starts a new stream in the same buffer and
\* sends it ahead of the rest.
EndUpdate ==
    /\ depth > 0 /\ depth' = depth - 1
    /\ orders' = OrdersSend(orders)
    /\ \E garbled \in {FALSE, RailOps # {} /\ orders.size + Layers > FragSize} :
          Deliver(IF SendsPdu(orders) THEN Pdu(orders) ELSE <<>>, garbled)
    /\ UNCHANGED <<orders_state, total, lost>>

\* xrdp_orders_rect and its like, between begin and end of an update.
Draw(asked) ==
    LET op == Normal(asked)
        max == MaxSize(op)
        forced == IF Full(orders, max) THEN Forced(orders) ELSE <<>>
    IN  /\ depth > 0 /\ total < MaxOrders /\ ~Refuses(orders, max)
        /\ orders' = Out(OrdersCheck(orders, max), op, Encoding(op))
        /\ orders_state' = StateAfter(op)
        /\ Deliver(forced, FALSE) /\ Asked(1, forced)
        /\ UNCHANGED depth

\* An order that is too big for a stream of its own: xrdp_orders_check says so.
DrawRefused(asked) ==
    /\ depth > 0 /\ Refuses(orders, MaxSize(Normal(asked)))
    /\ Deliver(<<>>, FALSE) /\ UNCHANGED <<orders, orders_state, depth, total, lost>>

\* xrdp_mm_process_rail_*: init, the window order, send.
RailOrder(asked) ==
    LET o == OrdersInit(orders)
        max == MaxSize(asked)
        forced == IF Full(o, max) THEN Forced(o) ELSE <<>>
        after == Out(OrdersCheck(o, max), asked, [primary |-> FALSE])
    IN  /\ total < MaxOrders
        /\ orders' = OrdersSend(after)
        /\ Deliver(forced \o (IF SendsPdu(after) THEN Pdu(after) ELSE <<>>), FALSE)
        /\ Asked(1, forced)
        /\ UNCHANGED <<orders_state, depth>>

\* libxrdp_send_palette: the orders so far, the palette update, then the
\* palette as an order of its own.
SendPalette ==
    LET op == [kind |-> "palette", val |-> [row |-> 1024, rows |-> 1], rect |-> NoRect]
        start == OrdersCheck(OrdersInit(ForceSend(orders)), MaxSize(op))
        after == Out(start, op, [primary |-> FALSE])
    IN  /\ Sync /\ total < MaxOrders
        /\ orders' = OrdersSend(after)
        /\ Deliver(Forced(orders) \o Pdu(after), FALSE)
        /\ Asked(1, Forced(orders))
        /\ UNCHANGED <<orders_state, depth>>

\* libxrdp_reset: xrdp_orders_reset sends any lingering orders, then the
\* client is deactivated and starts over.
Reset ==
    /\ Sync
    /\ orders' = [ForceSend(orders) EXCEPT !.size = 0]
    /\ orders_state' = ServerStart /\ client' = ClientStart
    /\ Shows(Forced(orders), FALSE)
    /\ Asked(0, Forced(orders))
    /\ UNCHANGED depth

Next == \/ BeginUpdate \/ EndUpdate \/ SendPalette \/ Reset
        \/ \E op \in Ops : Draw(op) \/ DrawRefused(op)
        \/ \E op \in RailOps : RailOrder(op)

Spec == Init /\ [][Next]_vars

-----------------------------------------------------------------------------
(* Properties *)

\* The stream and the counters are well formed.
TypeOK ==
    /\ orders.order_level \in Nat /\ orders.order_count \in Nat /\ orders.size \in Nat
    /\ depth \in 0 .. MaxDepth /\ drawn \in Nat /\ total \in Nat /\ lost \in Nat
    /\ orders_state.last_order \in DOMAIN Primary
    /\ client.last_order \in DOMAIN Primary

Within(k, v, r) == \A b \in Boxes(k, v) : ~Exceeds(b, r)

\* A transform of zero is not used, so its matrix may be the one before.
SameValue(asked, d, n) ==
    d.val[n] = asked.val[n] \/ (n = "transform1" /\ asked.val["transform0"] = 0)

SameDrawing(asked, d) ==
    /\ d.kind = asked.kind
    /\ IF IsPrimary(asked.kind)
       THEN /\ \A n \in DOMAIN asked.val : SameValue(asked, d, n)
            /\ \/ d.clip = asked.rect
               \/ d.clip = NoRect /\ Within(asked.kind, asked.val, asked.rect)
       ELSE d.val = asked.val

\* What the client rebuilds from a PDU is what was asked for: the kind, every
\* field, and the clip wherever the order exceeds it, although an order is
\* written as differences against a state that other orders, PDUs and a reset
\* have changed since (TS_TYPE_CHANGE, TS_BOUNDS, TS_ZERO_BOUNDS_DELTAS,
\* TS_DELTA_COORDINATES and the present mask of every xrdp_orders_* function).
DrawnAsAsked == \A i \in DOMAIN shown : SameDrawing(shown[i].asked, shown[i].drawn)

\* With no order waiting, orders_state is the client's state: the difference
\* coding of the next order starts from common ground whatever was sent,
\* forced out or reset before.  transform1 is never stored by the server.
StatesAgree ==
    orders.order_count = 0 =>
        /\ orders_state.last_order = client.last_order
        /\ orders_state.clip = [client.clip EXCEPT !.right = @ + 1, !.bottom = @ + 1]
        /\ \A k \in DOMAIN Primary : \A n \in Names(k) \ {"transform1"} :
              orders_state.fld[k][n] = client.fld[k][n]

\* Every order asked for is drawn, waiting, or a RAIL order that was dropped:
\* nothing is overwritten by an inner orders_init and nothing leaves twice.
NoOrderLost == total = drawn + orders.order_count + lost

\* When every update has ended nothing waits in out_s, although a forced send
\* in a nested update resets order_level under the outer ones.
NothingLeftWaiting == depth = 0 => orders.order_count = 0

\* A PDU of orders that each fit never needs a second fragment, so a RAIL
\* order handled in the callback never overwrites what is still to be sent:
\* the slack of xrdp_orders_check pays for the orders that write more than
\* they announce (xrdp_orders_composite_blt, xrdp_orders_send_bitmap).
OneFragment == orders.order_count > 0 => orders.size + Layers <= FragSize

\* "This is needed so the module can send any high priority mcs packets"
\* (xrdp_mcs.c): an order handled in the callback of a PDU is sent.
CallbackOrdersSent == lost = 0

=============================================================================

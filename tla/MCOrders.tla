------------------------------ MODULE MCOrders ------------------------------
(* Sample orders for Orders: every kind, with coordinates on both sides of *)
(* the limit of a difference, clips that are needed, not needed, repeated  *)
(* and changed by little and by much.                                      *)
EXTENDS Orders

Near == Box(0, 0, 140, 100)
Far  == Box(6, 0, 150, 300)

\* The first coordinate is a and the others b; every other field is p.
Sample(k, a, b, p, r) ==
    [kind |-> k, rect |-> r,
     val |-> [n \in Names(k) |->
                IF n \in {"x", "startx", "dstx", "clip_right", "box_right"} THEN a
                ELSE IF n \in CoordsOf(k) \/ n \in {"clip_bottom", "box_bottom"} THEN b ELSE p]]

SampleSecondary(k, row, rows) ==
    [kind |-> k, val |-> [row |-> row, rows |-> rows], rect |-> NoRect]

MCOps ==
    {Sample(k, 5, 5, 1, Near) : k \in DOMAIN Primary} \cup
    {Sample(k, 133, 10, 2, Near) : k \in {"rect", "line", "mem_blt", "text"}} \cup
    {Sample("rect", 132, 5, 1, Far), Sample("composite_blt", 133, 5, 0, Far)} \cup
    {SampleSecondary("bitmap", 40, 2), SampleSecondary("raw_bitmap2", 160, 2),
     SampleSecondary("bitmap_v3", 250, 1)}

MCRailOps == {SampleSecondary("window_delete", 0, 1)}

=============================================================================

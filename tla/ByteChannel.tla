----------------------------- MODULE ByteChannel -----------------------------
(***************************************************************************)
(* What a struct trans promises to who writes on it: bytes are numbered in *)
(* the order they were accepted, and while the connection is up they leave *)
(* in that order, each of them once.  Nothing that was accepted is given   *)
(* up before the connection breaks.                                        *)
(***************************************************************************)
EXTENDS Naturals, Sequences

VARIABLES up,         \* whether the connection works
          pending,    \* the bytes accepted and not sent
          delivered   \* the bytes sent

vars == <<delivered, up, pending>>

Init == up = TRUE /\ pending = <<>> /\ delivered = <<>>

Accept ==
    LET last == Len(delivered) + Len(pending)
        n == Len(pending') - Len(pending)
    IN
    /\ n > 0
    /\ pending' = pending \o [i \in 1 .. n |-> last + i]
    /\ UNCHANGED <<up, delivered>>

Deliver ==
    LET n == Len(delivered') - Len(delivered) IN
    /\ n \in 1 .. Len(pending)
    /\ delivered' = delivered \o SubSeq(pending, 1, n)
    /\ pending' = SubSeq(pending, n + 1, Len(pending))
    /\ UNCHANGED up

Break == up' = FALSE /\ pending' = <<>> /\ UNCHANGED delivered

Next == up /\ (Accept \/ Deliver \/ Break)

Spec == Init /\ [][Next]_vars

=============================================================================

---------------------------- MODULE TransChannel ----------------------------
(* Each transport of Trans is a ByteChannel. *)
EXTENDS Trans

Up(t) == status[t] = "UP" /\ ~closed[t]

\* The bytes of the waiting streams of t, first stream first.
Waiting(t) ==
    LET bytes[k \in 0 .. Len(wait_s[t])] ==
            IF k = 0 THEN <<>> ELSE bytes[k - 1] \o Bytes(wait_s[t][k].lo, wait_s[t][k].hi)
    IN  bytes[Len(wait_s[t])]

\* The bytes of the write in progress on t, which come after them.
InProgress(t) ==
    IF stack # <<>> /\ Top.pc \in {"copy1", "copy2", "force"} /\ Top.dst = t
    THEN Bytes(Top.lo, Top.hi) ELSE <<>>

\* The bytes accepted on a transport are, in order, those on the wire, those that wait
\* and those of the write in progress, and what is on the wire of a broken
\* connection is a beginning of them: the state in which trans_write_copy_s,
\* trans_force_write_s, trans_send_waiting and their nested calls leave the streams.
BytesInOrder ==
    \A t \in Trans :
        /\ wire[t] = Bytes(1, Len(wire[t]))
        /\ Up(t) => wire[t] \o Waiting(t) \o InProgress(t) = Bytes(1, written[t])

Channel(t) == INSTANCE ByteChannel WITH
    up <- Up(t),
    pending <- IF Up(t) THEN Waiting(t) \o InProgress(t) ELSE <<>>,
    delivered <- wire[t]

\* Every byte accepted on a transport reaches the wire once and in the order of the
\* writes, and none is forgotten while the connection lives, whatever mixture of
\* direct sends, partial sends, waiting streams, blocking writes and nested polls
\* carries it (trans_write_copy_s, trans_force_write_s, trans_send_waiting).
\* This is Channel(t)!Spec for every t, with the quantifier inside the box, where TLC
\* can evaluate it.
ReliableBytes ==
    /\ \A t \in Trans : Channel(t)!Init
    /\ [][\A t \in Trans : [Channel(t)!Next]_(Channel(t)!vars)]_vars

=============================================================================

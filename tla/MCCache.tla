------------------------------ MODULE MCCache ------------------------------
(* Bitmaps of two classes and one that is too big; two bitmaps of the first *)
(* class have the same crc16.                                               *)
EXTENDS Cache

MCCrc16   == [a |-> 1, b |-> 1, c |-> 2, d |-> 2, e |-> 1, f |-> 2, big |-> 1]
MCClassOf == [a |-> 0, b |-> 0, c |-> 0, d |-> 0, e |-> 1, f |-> 1, big |-> 3]
MCEntries == 0 :> 3 @@ 1 :> 1
MCLowIdx  == [pointer |-> 2, char |-> 0, brush |-> 0]
MCHighIdx == [pointer |-> 3, char |-> 1, brush |-> 2]
MCStatic  == 0 :> "arrow" @@ 1 :> "hand"

=============================================================================

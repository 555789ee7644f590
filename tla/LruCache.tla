------------------------------ MODULE LruCache ------------------------------
(***************************************************************************)
(* What the client's caches promise to a caller who draws through them:    *)
(* the caller names an item, the client draws that item, and when the      *)
(* cache is full the item used longest ago makes room.  How the server     *)
(* finds an item, numbers the entries and orders them by use is not said.  *)
(***************************************************************************)
EXTENDS Naturals, Sequences, SequencesExt

CONSTANTS Caches, Items, Size,   \* the caches, what goes into each, and how many
          Nothing                \* what the client shows before the first use

VARIABLES cached,   \* the items of each cache, the one used last at the end
          got       \* what the client drew last from each

Empty ==
    /\ cached = [c \in Caches |-> <<>>]
    /\ got = [c \in Caches |-> Nothing[c]]

Init == Empty

\* The item is there: it becomes the newest.
Again(c, i) ==
    \E k \in 1 .. Len(cached[c]) :
        /\ cached[c][k] = i
        /\ cached' = [cached EXCEPT ![c] = Append(RemoveAt(@, k), i)]

\* It is not: it is put in, and the oldest makes room when there is none.
Anew(c, i) ==
    /\ \A k \in 1 .. Len(cached[c]) : cached[c][k] # i
    /\ cached' = [cached EXCEPT ![c] = Append(IF Len(@) = Size[c] THEN Tail(@) ELSE @, i)]

Use(c, i) ==
    /\ Again(c, i) \/ Anew(c, i)
    /\ got' = [got EXCEPT ![c] = i]

\* The client starts over.
Clear == Empty'

Next == Clear \/ \E c \in Caches : \E i \in Items[c] : Use(c, i)

Spec == Init /\ [][Next]_<<cached, got>>

=============================================================================

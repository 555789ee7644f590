------------------------------- MODULE Cache -------------------------------
(***************************************************************************)
(* The server's copies of the client's caches: xrdp/xrdp_cache.c.  Bitmaps *)
(* are in three classes by size; in each, a doubly linked list of array    *)
(* indices orders the entries by use and a table of index lists, one per   *)
(* crc16, finds a bitmap.  Glyphs, pointers and brushes are in arrays with *)
(* a stamp per entry.  The client is told of every new entry and draws     *)
(* from its own copy by index (xrdp_painter_copy, xrdp_painter_draw_text,  *)
(* xrdp_wm_set_pointer), so an index must mean the same on both sides.     *)
(*                                                                         *)
(* All of it runs in the main thread of the session and no callback        *)
(* reaches a cache, so a call is one step.                                 *)
(***************************************************************************)
EXTENDS Integers, Sequences, FiniteSets, SequencesExt

CONSTANTS Bitmaps,        \* bitmaps, as crc32, bpp, width and height tell them apart
          Crc16,          \* the crc16 of each
          ClassOf,        \* the first class that is big enough, or TooBig
          Ids,            \* cache ids
          Entries,        \* the entries the client announced, per class
          MaxIdx,         \* XRDP_MAX_BITMAP_CACHE_IDX
          Stamped,        \* the caches with stamps: subsets of char, pointer, brush
          StampedItems,   \* what goes into them; Blank is the all-zero item
          LowIdx, HighIdx, \* the indices of each that the search runs over
          Static,         \* xrdp_wm_load_static_pointers: pointers 0 and 1
          MaxStamp,       \* bound: calls per cache with stamps
          None, Blank, TooBig

ASSUME CacheAssumption ==
    /\ MaxIdx \in Nat /\ \A id \in Ids : Entries[id] \in 1 .. MaxIdx
    /\ \A b \in Bitmaps : ClassOf[b] \in Ids \cup {TooBig}
    /\ None \notin Bitmaps \cup StampedItems /\ Blank \notin Bitmaps
    /\ \A k \in Stamped : HighIdx[k] \in Nat /\ LowIdx[k] \in 0 .. HighIdx[k]
    /\ {Static[0], Static[1]} \cap (StampedItems \cup {None, Blank}) = {}

Idx  == 0 .. MaxIdx - 1
Crcs == {Crc16[b] : b \in Bitmaps}

VARIABLES
    bitmap_items,                     \* the bitmap of each entry, or None
    lru_next, lru_prev,               \* bitmap_lrus
    lru_head, lru_tail, lru_reset,
    crc16,                            \* the entries with a bitmap of that crc16
    client,                           \* the client's entries
    drawn,                            \* what the client drew for the last bitmap of each class
    stamp, items, stamps,             \* the caches with stamps
    client_items, client_drawn

lruVars == <<lru_next, lru_prev, lru_head, lru_tail, lru_reset>>
bitmapVars == <<bitmap_items, lruVars, crc16, client, drawn>>
stampVars  == <<stamp, items, stamps, client_items, client_drawn>>
vars == <<bitmapVars, stampVars>>

\* xrdp_cache_reset_lru: one list through every entry, whatever the client has.
ResetNext == [i \in Idx |-> IF i = MaxIdx - 1 THEN -1 ELSE i + 1]
ResetPrev == [i \in Idx |-> i - 1]

NoBitmaps == [id \in Ids |-> [i \in Idx |-> None]]
NoCrc     == [id \in Ids |-> [c \in Crcs |-> <<>>]]

\* What an entry with a stamp starts as: zeros, or a static pointer.  The client
\* has the static pointers only, and shows the one sent last, pointer 0.
Loaded(k, i, empty) == IF k = "pointer" /\ i < 2 THEN Static[i] ELSE empty
Shown(k) == Loaded(k, 0, None)
AllLoaded(empty) == [k \in Stamped |-> [i \in 0 .. HighIdx[k] |-> Loaded(k, i, empty)]]

\* xrdp_cache_create, and xrdp_wm_init, which sends the static pointers.
Init ==
    /\ bitmap_items = NoBitmaps
    /\ lru_next = [id \in Ids |-> ResetNext] /\ lru_prev = [id \in Ids |-> ResetPrev]
    /\ lru_head = [id \in Ids |-> 0] /\ lru_tail = [id \in Ids |-> MaxIdx - 1]
    /\ lru_reset = [id \in Ids |-> TRUE]
    /\ crc16 = NoCrc
    /\ client = NoBitmaps /\ drawn = [id \in Ids |-> None]
    /\ stamp = [k \in Stamped |-> 0]
    /\ items = AllLoaded(Blank)
    /\ stamps = [k \in Stamped |-> [i \in 0 .. HighIdx[k] |-> 0]]
    /\ client_items = AllLoaded(None) /\ client_drawn = [k \in Stamped |-> Shown(k)]

\* server_reset: the client starts over with empty caches, xrdp_cache_reset
\* zeroes the server's, and the static pointers are sent again.
Reset ==
    /\ bitmap_items' = NoBitmaps
    /\ lru_next' = [id \in Ids |-> ResetNext] /\ lru_prev' = [id \in Ids |-> ResetPrev]
    /\ lru_head' = [id \in Ids |-> 0] /\ lru_tail' = [id \in Ids |-> MaxIdx - 1]
    /\ lru_reset' = [id \in Ids |-> TRUE]
    /\ crc16' = NoCrc
    /\ client' = NoBitmaps /\ drawn' = [id \in Ids |-> None]
    /\ stamp' = [k \in Stamped |-> 0]
    /\ items' = AllLoaded(Blank)
    /\ stamps' = [k \in Stamped |-> [i \in 0 .. HighIdx[k] |-> 0]]
    /\ client_items' = AllLoaded(None) /\ client_drawn' = [k \in Stamped |-> Shown(k)]

-----------------------------------------------------------------------------
(* Bitmaps *)

\* A list as xrdp_cache_update_lru sees it.
Lru(id) == [next |-> lru_next[id], prev |-> lru_prev[id], head |-> lru_head[id], tail |-> lru_tail[id]]

\* Mutant of Cut: the list keeps the entries the client does not have.
CutNowhere(l, n) == l

\* The first miss after a reset cuts the list at the client's entries.
Cut(l, n) == [l EXCEPT !.tail = n - 1, !.next[n - 1] = -1]

Unhook(l, i) ==
    IF l.head = i
    THEN [l EXCEPT !.head = l.next[i], !.prev[l.next[i]] = -1]
    ELSE [l EXCEPT !.next[l.prev[i]] = l.next[i], !.prev[l.next[i]] = l.prev[i]]

HookAtTail(l, i) ==
    [l EXCEPT !.next = [@ EXCEPT ![l.tail] = i, ![i] = -1], !.prev[i] = l.tail, !.tail = i]

\* Mutant of UpdateLru: "nothing to do" at the tail is left out.
UpdateLruAlways(l, i) == HookAtTail(Unhook(l, i), i)

\* xrdp_cache_update_lru
UpdateLru(l, i) == IF l.tail = i THEN l ELSE HookAtTail(Unhook(l, i), i)

SetLru(id, l) ==
    /\ lru_next' = [lru_next EXCEPT ![id] = l.next]
    /\ lru_prev' = [lru_prev EXCEPT ![id] = l.prev]
    /\ lru_head' = [lru_head EXCEPT ![id] = l.head]
    /\ lru_tail' = [lru_tail EXCEPT ![id] = l.tail]

\* The entries of its crc16 list that hold the bitmap.
FoundAt(id, b) == {i \in Range(crc16[id][Crc16[b]]) : bitmap_items[id][i] = b}

\* Mutant of AddBitmapHit: the entry stays where it is in the list.
AddBitmapHitKeepsOrder(b) ==
    LET id == ClassOf[b]
    IN  /\ id # TooBig
        /\ \E i \in FoundAt(id, b) : drawn' = [drawn EXCEPT ![id] = client[id][i]]
        /\ UNCHANGED <<bitmap_items, lruVars, crc16, client, stampVars>>

\* xrdp_cache_add_bitmap, the bitmap is there: it becomes the newest.
AddBitmapHit(b) ==
    LET id == ClassOf[b]
    IN  /\ id # TooBig
        /\ \E i \in FoundAt(id, b) :
              /\ SetLru(id, UpdateLru(Lru(id), i))
              /\ drawn' = [drawn EXCEPT ![id] = client[id][i]]
        /\ UNCHANGED <<bitmap_items, lru_reset, crc16, client, stampVars>>

\* Mutant of MoveCrc: the index stays in the old list.
MoveCrcKeepsOld(id, i, b) == [crc16[id] EXCEPT ![Crc16[b]] = Append(@, i)]

\* The index leaves the list of the bitmap it held and enters the new one's.
MoveCrc(id, i, b) ==
    LET old == bitmap_items[id][i]
        left == IF old = None THEN crc16[id]
                ELSE [crc16[id] EXCEPT ![Crc16[old]] = RemoveFirst(@, i)]
    IN  [left EXCEPT ![Crc16[b]] = Append(@, i)]

\* xrdp_cache_add_bitmap, the bitmap is not there: it takes the place of the
\* oldest and is sent.
AddBitmapMiss(b) ==
    LET id == ClassOf[b]
        l == IF lru_reset[id] THEN Cut(Lru(id), Entries[id]) ELSE Lru(id)
        i == l.head
    IN  /\ id # TooBig /\ FoundAt(id, b) = {}
        /\ lru_reset' = [lru_reset EXCEPT ![id] = FALSE]
        /\ SetLru(id, UpdateLru(l, i))
        /\ crc16' = [crc16 EXCEPT ![id] = MoveCrc(id, i, b)]
        /\ bitmap_items' = [bitmap_items EXCEPT ![id][i] = b]
        /\ client' = [client EXCEPT ![id][i] = b]
        /\ drawn' = [drawn EXCEPT ![id] = b]
        /\ UNCHANGED stampVars

\* xrdp_cache_add_bitmap, "too big": the cache is left alone.  It returns 0, so
\* the caller draws entry 0 of class 0 for it.
AddBitmapTooBig(b) ==
    /\ ClassOf[b] = TooBig /\ UNCHANGED vars

-----------------------------------------------------------------------------
(* Glyphs, pointers and brushes *)

Searched(k) == LowIdx[k] .. HighIdx[k]
Match(k, x) == {i \in Searched(k) : items[k][i] = x}

\* Mutant of Oldest: "oldest" is not lowered in the search.
OldestNotLowered(k) == HighIdx[k]

Oldest(k) == Min({i \in Searched(k) : \A j \in Searched(k) : stamps[k][i] <= stamps[k][j]})

\* xrdp_cache_add_char, xrdp_cache_add_pointer, xrdp_cache_add_brush: the
\* first match is used again, or the oldest entry overwritten and sent.
AddStamped(k, x) ==
    LET found == Match(k, x)
        i == IF found # {} THEN Min(found) ELSE Oldest(k)
    IN  /\ stamp[k] < MaxStamp
        /\ stamp' = [stamp EXCEPT ![k] = @ + 1]
        /\ stamps' = [stamps EXCEPT ![k][i] = stamp[k] + 1]
        /\ items' = [items EXCEPT ![k][i] = x]
        /\ client_items' = [client_items EXCEPT ![k][i] = IF found # {} THEN @ ELSE x]
        /\ client_drawn' = [client_drawn EXCEPT ![k] = client_items'[k][i]]
        /\ UNCHANGED bitmapVars

Next ==
    \/ \E b \in Bitmaps : AddBitmapHit(b) \/ AddBitmapMiss(b) \/ AddBitmapTooBig(b)
    \/ \E k \in Stamped, x \in StampedItems : AddStamped(k, x)
    \/ Reset

Spec == Init /\ [][Next]_vars

-----------------------------------------------------------------------------
(* Properties *)

\* Every index that is followed is one of the array, or -1 at an end.
TypeOK ==
    /\ lru_next \in [Ids -> [Idx -> Idx \cup {-1}]]
    /\ lru_prev \in [Ids -> [Idx -> Idx \cup {-1}]]
    /\ lru_head \in [Ids -> Idx] /\ lru_tail \in [Ids -> Idx]
    /\ bitmap_items \in [Ids -> [Idx -> Bitmaps \cup {None}]]
    /\ crc16 \in [Ids -> [Crcs -> Seq(Idx)]]

\* The crc16 lists find exactly what is cached: an entry is once in the list
\* of the bitmap it holds and in no other, so a bitmap that was evicted is not
\* found and one that is cached is not sent a second time.
CrcListsExact ==
    \A id \in Ids, c \in Crcs :
        /\ Range(crc16[id][c]) =
              {i \in Idx : bitmap_items[id][i] # None /\ Crc16[bitmap_items[id][i]] = c}
        /\ Cardinality(Range(crc16[id][c])) = Len(crc16[id][c])

\* What the server takes an entry to hold is what the client holds, and no
\* entry is used that the client did not announce.
ClientAgrees ==
    /\ \A id \in Ids, i \in Idx :
          /\ bitmap_items[id][i] = client[id][i]
          /\ bitmap_items[id][i] # None => i < Entries[id]
    /\ \A k \in Stamped : \A i \in 0 .. HighIdx[k] :
          items[k][i] # Blank => items[k][i] = client_items[k][i]

\* The entries that take part in a class's order of use.
Listing(id) == IF lru_reset[id] THEN MaxIdx ELSE Entries[id]

\* The list of a class from its head, along lru_next.
Walk(id) ==
    LET at[n \in 1 .. Listing(id)] == IF n = 1 THEN lru_head[id] ELSE lru_next[id][at[n - 1]]
    IN  at

\* The entries of a class that hold a bitmap.
Taken(id) == {i \in Idx : bitmap_items[id][i] # None}

\* The cached bitmaps of a class in the order of their use: the entries that
\* hold none come first in the list.
BitmapsByUse(id) ==
    LET w == Walk(id)
        c == Cardinality(Taken(id))
    IN  [n \in 1 .. c |-> bitmap_items[id][w[Listing(id) - c + n]]]

\* The entries of a cache with stamps that were used, in the order of use.
UsedEntries(k) == {i \in Searched(k) : stamps[k][i] > 0}

ByStamp(k) ==
    CHOOSE w \in [1 .. Cardinality(UsedEntries(k)) -> UsedEntries(k)] :
        \A m, n \in DOMAIN w : m < n => stamps[k][w[m]] < stamps[k][w[n]]

ItemsByUse(k) ==
    LET w == ByStamp(k) IN [n \in DOMAIN w |-> items[k][w[n]]]

BitmapLru == INSTANCE LruCache WITH
    Caches <- Ids, Items <- [id \in Ids |-> {b \in Bitmaps : ClassOf[b] = id}],
    Size <- Entries, Nothing <- [id \in Ids |-> None],
    cached <- [id \in Ids |-> BitmapsByUse(id)], got <- drawn

StampLru == INSTANCE LruCache WITH
    Caches <- Stamped, Items <- [k \in Stamped |-> StampedItems],
    Size <- [k \in Stamped |-> HighIdx[k] - LowIdx[k] + 1],
    Nothing <- [k \in Stamped |-> Shown(k)],
    cached <- [k \in Stamped |-> ItemsByUse(k)], got <- client_drawn

\* Each class of bitmaps is a cache of the size the client announced that
\* gives up the bitmap used longest ago and whose index always draws the
\* bitmap asked for: the linked list, the crc16 lists and the client's copy
\* together implement LruCache.
BitmapsAreLru == BitmapLru!Spec

\* So is each cache with stamps, for items that are not all zero.
StampedAreLru == StampLru!Spec

=============================================================================

---------------------------- MODULE CodeCacheOps ----------------------------
(***************************************************************************)
(* The allocator of the JIT's executable arena (jit/codecache.c) as pure   *)
(* operators on its two pieces of state: `used`, the cursor of the bump    *)
(* and FIFO policies, and `free`, the free list of the LRU policy.         *)
(*                                                                         *)
(* Offsets and sizes are bytes.  The free list is an address-sorted        *)
(* singly linked list of headers stored in the free spans themselves; a    *)
(* walk of it visits the spans in the order of their offsets, so it is     *)
(* represented by the set of its spans.                                    *)
(***************************************************************************)
EXTENDS Integers, FiniteSets

CONSTANTS
    ArenaCap,       \* bytes of the arena handed to codecache_init
    EvictModes      \* the policies codecache_init may be called with

VARIABLE mode       \* cc->mode, never changed after init

\* The eviction policies of codecache.h.
BUMP == "bump"
LRU  == "lru"
FIFO == "fifo"

ASSUME ArenaAssumption == ArenaCap \in Nat
ASSUME ModeAssumption  == EvictModes \subseteq {BUMP, LRU, FIFO}

CC_ALIGN == 8

\* cc_align: round up to the allocation granularity.
CcAlign(v) == ((v + (CC_ALIGN - 1)) \div CC_ALIGN) * CC_ALIGN

\* codecache_init rounds the capacity down.
Cap == (ArenaCap \div CC_ALIGN) * CC_ALIGN

\* sizeof(cc_free_hdr): two u32 words.
HdrSize == 8

Span == [off : Nat, size : Nat]

\* Every size that enters the LRU allocator or its free list.
LruSize(v) == LET a == CcAlign(v) IN IF a < HdrSize THEN HdrSize ELSE a

\* codecache_init and codecache_reset: the whole arena is one free span.
WholeArena == IF mode = LRU /\ Cap >= HdrSize
              THEN {[off |-> 0, size |-> Cap]}
              ELSE {}

-----------------------------------------------------------------------------
(* CC_MODE_LRU *)

\* The span the first-fit walk stops at, as a set of at most one element.
FirstFit(free, size) ==
    {s \in free : /\ s.size >= size
                  /\ \A t \in free : t.size >= size => s.off <= t.off}

\* Carve `size` off the front of s; the rest stays free when a header fits.
Carve(free, s, size) ==
    LET leftover == s.size - size
    IN  (free \ {s}) \cup
            (IF leftover >= HdrSize
             THEN {[off |-> s.off + size, size |-> leftover]}
             ELSE {})

\* The neighbours of offset in the list: prev < offset <= cur.
PrevSpan(free, offset) ==
    {s \in free : /\ s.off < offset
                  /\ \A t \in free : t.off < offset => t.off <= s.off}

NextSpan(free, offset) ==
    {s \in free : /\ s.off >= offset
                  /\ \A t \in free : t.off >= offset => s.off <= t.off}

\* Mutant of LruFree: the following span is not coalesced.
LruFree_NoNext(free, offset, bytes) ==
    LET size   == LruSize(bytes)
        before == {s \in PrevSpan(free, offset) : s.off + s.size = offset}
        lo     == IF before = {} THEN offset
                  ELSE (CHOOSE s \in before : TRUE).off
    IN  (free \ before) \cup {[off |-> lo, size |-> offset + size - lo]}

\* lru_free: insert the span, coalesce with the following span, then with
\* the preceding one.
LruFree(free, offset, bytes) ==
    LET size   == LruSize(bytes)
        after  == {s \in NextSpan(free, offset) : offset + size = s.off}
        before == {s \in PrevSpan(free, offset) : s.off + s.size = offset}
        lo     == IF before = {} THEN offset
                  ELSE (CHOOSE s \in before : TRUE).off
        hi     == IF after = {} THEN offset + size
                  ELSE LET s == CHOOSE s \in after : TRUE
                       IN  s.off + s.size
    IN  (free \ (before \cup after)) \cup {[off |-> lo, size |-> hi - lo]}

-----------------------------------------------------------------------------
(* CC_MODE_FIFO *)

\* Where the ring places an aligned size: wrap rather than split a block.
FifoStart(used, size) == IF used + size > Cap THEN 0 ELSE used

\* fifo_evict_range_cb's test: the cached span s overlaps [start, end).
Overlaps(s, start, end) == s.off < end /\ s.off + s.size > start

-----------------------------------------------------------------------------
(* codecache_free and codecache_trim: the free list and the cursor after.  *)

FreedList(free, offset, bytes) ==
    IF mode = LRU THEN LruFree(free, offset, bytes) ELSE free

\* Mutant of TrimmedList: the tail is never returned.
TrimmedList_Never(free, offset, actual, reserved) == free

TrimmedList(free, offset, actual, reserved) ==
    IF mode = LRU /\ CcAlign(reserved) > CcAlign(actual)
    THEN LruFree(free, offset + CcAlign(actual),
                 CcAlign(reserved) - CcAlign(actual))
    ELSE free

TrimmedCursor(used, offset, actual) ==
    IF mode = LRU THEN used ELSE offset + CcAlign(actual)

=============================================================================

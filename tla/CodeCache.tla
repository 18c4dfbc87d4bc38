------------------------------ MODULE CodeCache ------------------------------
(***************************************************************************)
(* The code cache (jit/codecache.c) with its one client, the block         *)
(* compiler: reserve a worst-case span, emit into it, then trim it to its  *)
(* real size, or give it back when the emitter overflowed or the block     *)
(* descriptor could not be allocated.  Between two compilations the        *)
(* dispatcher drops blocks whose guest code was overwritten (which does    *)
(* NOT return their bytes) and resets the whole arena.                     *)
(*                                                                         *)
(* `live` is what the client believes it owns: the spans of the cached     *)
(* blocks.  The choice of the eviction victim belongs to the dispatcher    *)
(* (lru_evict_cb); here any cached block may be the coldest.               *)
(***************************************************************************)
EXTENDS CodeCacheOps

CONSTANTS
    Reserves,       \* worst-case sizes a compilation may ask for
    Actuals         \* sizes a finished block may have

ASSUME ReservesAssumption == Reserves \subseteq Nat \ {0}
ASSUME ActualsAssumption  == Actuals \subseteq Nat \ {0}

VARIABLES
    used,           \* cc->used
    free,           \* the list at cc->free_head
    live,           \* spans of the cached blocks
    phase,          \* "idle", "alloc" (inside codecache_alloc), "emit"
    open,           \* offset of the reservation being emitted into
    req             \* its requested size

vars == <<mode, used, free, live, phase, open, req>>

Init ==
    /\ mode \in EvictModes
    /\ used = 0
    /\ free = WholeArena
    /\ live = {}
    /\ phase = "idle"
    /\ open = 0
    /\ req = 0

Alloc(size) ==
    /\ phase = "idle"
    /\ phase' = "alloc"
    /\ req' = size
    /\ UNCHANGED <<mode, used, free, live, open>>

\* The call is over: the compiler's locals are dead.
Idle == phase' = "idle" /\ open' = 0 /\ req' = 0

\* lru_alloc: one iteration of the loop around the first-fit walk.
LruAllocTake ==
    /\ phase = "alloc" /\ mode = LRU
    /\ LruSize(req) <= Cap
    /\ \E s \in FirstFit(free, LruSize(req)) :
          /\ free' = Carve(free, s, LruSize(req))
          /\ open' = s.off
    /\ phase' = "emit"
    /\ UNCHANGED <<mode, used, live, req>>

\* Mutant of LruAllocEvict: the callback reports bytes it did not free.
LruAllocEvict_Nothing(victim) ==
    /\ phase = "alloc" /\ mode = LRU
    /\ LruSize(req) <= Cap
    /\ FirstFit(free, LruSize(req)) = {}
    /\ UNCHANGED <<mode, used, free, live, phase, open, req>>

\* Nothing fits: the callback drops a cached block and frees its span.
LruAllocEvict(victim) ==
    /\ phase = "alloc" /\ mode = LRU
    /\ LruSize(req) <= Cap
    /\ FirstFit(free, LruSize(req)) = {}
    /\ live' = live \ {victim}
    /\ free' = LruFree(free, victim.off, victim.size)
    /\ UNCHANGED <<mode, used, phase, open, req>>

\* Too large, or nothing fits and the callback found nothing to evict.
LruAllocNull ==
    /\ phase = "alloc" /\ mode = LRU
    /\ \/ LruSize(req) > Cap
       \/ FirstFit(free, LruSize(req)) = {} /\ live = {}
    /\ Idle
    /\ UNCHANGED <<mode, used, free, live>>

\* fifo_alloc: every block under the new span is evicted first.
FifoAllocTake ==
    /\ phase = "alloc" /\ mode = FIFO
    /\ CcAlign(req) <= Cap
    /\ LET size  == CcAlign(req)
           start == FifoStart(used, size)
       IN  /\ live' = {s \in live : ~ Overlaps(s, start, start + size)}
           /\ open' = start
           /\ used' = start + size
    /\ phase' = "emit"
    /\ UNCHANGED <<mode, free, req>>

FifoAllocNull ==
    /\ phase = "alloc" /\ mode = FIFO
    /\ CcAlign(req) > Cap
    /\ Idle
    /\ UNCHANGED <<mode, used, free, live>>

\* bump_alloc: the cursor is aligned even when the request then fails.
BumpAllocTake ==
    /\ phase = "alloc" /\ mode = BUMP
    /\ CcAlign(used) + req <= Cap
    /\ open' = CcAlign(used)
    /\ used' = CcAlign(used) + req
    /\ phase' = "emit"
    /\ UNCHANGED <<mode, free, live, req>>

BumpAllocNull ==
    /\ phase = "alloc" /\ mode = BUMP
    /\ CcAlign(used) + req > Cap
    /\ used' = CcAlign(used)
    /\ Idle
    /\ UNCHANGED <<mode, free, live>>

\* The tail of m68k_compile_block: trim to the real size, own the span.
Finish(actual) ==
    /\ phase = "emit" /\ actual <= req
    /\ live' = live \cup {[off |-> open, size |-> actual]}
    /\ free' = TrimmedList(free, open, actual, req)
    /\ used' = TrimmedCursor(used, open, actual)
    /\ Idle
    /\ UNCHANGED mode

\* calloc of the descriptor failed: the trimmed span is given back.
FinishNoDescriptor(actual) ==
    /\ phase = "emit" /\ actual <= req
    /\ free' = FreedList(TrimmedList(free, open, actual, req), open, actual)
    /\ used' = TrimmedCursor(used, open, actual)
    /\ Idle
    /\ UNCHANGED <<mode, live>>

\* Mutant of Overflow: the reservation is not given back.
Overflow_NoFree == phase = "emit" /\ Idle /\ UNCHANGED <<mode, used, free, live>>

\* The emitter ran past the reservation.
Overflow ==
    /\ phase = "emit"
    /\ free' = FreedList(free, open, req)
    /\ Idle
    /\ UNCHANGED <<mode, used, live>>

\* smc_drop_range frees the descriptors of blocks, never their spans.
Drop(spans) ==
    /\ phase = "idle"
    /\ live' = live \ spans
    /\ UNCHANGED <<mode, used, free, phase, open, req>>

\* Mutant of Reset: the cursor is reset, the blocks are kept.
Reset_KeepsBlocks ==
    /\ phase = "idle"
    /\ used' = 0
    /\ free' = WholeArena
    /\ UNCHANGED <<mode, live, phase, open, req>>

Reset ==
    /\ phase = "idle"
    /\ used' = 0
    /\ free' = WholeArena
    /\ live' = {}
    /\ UNCHANGED <<mode, phase, open, req>>

Next ==
    \/ \E size \in Reserves : Alloc(size)
    \/ LruAllocTake
    \/ \E victim \in live : LruAllocEvict(victim)
    \/ LruAllocNull
    \/ FifoAllocTake \/ FifoAllocNull
    \/ BumpAllocTake \/ BumpAllocNull
    \/ \E actual \in Actuals : Finish(actual) \/ FinishNoDescriptor(actual)
    \/ Overflow
    \/ \E spans \in SUBSET live : spans # {} /\ Drop(spans)
    \/ Reset

Spec == Init /\ [][Next]_vars

\* codecache_alloc is a loop of the compiler's own thread: it is never
\* suspended for good between two of its iterations.
Allocate ==
    \/ LruAllocTake \/ (\E victim \in live : LruAllocEvict(victim))
    \/ LruAllocNull
    \/ FifoAllocTake \/ FifoAllocNull \/ BumpAllocTake \/ BumpAllocNull

FairSpec == Spec /\ WF_vars(Allocate)

-----------------------------------------------------------------------------
(* Properties *)

\* The bytes a span occupies: up to the next multiple of the alignment,
\* because that is what lru_free will later give back for it.
Footprint(s) == [off |-> s.off, size |-> CcAlign(s.size)]

Apart(s, t) == s.off + s.size <= t.off \/ t.off + t.size <= s.off

\* The reservation of the compilation in progress.
Reserved == IF phase = "emit" THEN {[off |-> open, size |-> req]} ELSE {}

Taken == {Footprint(s) : s \in live \cup Reserved}

\* The state is well formed (codecache.h's struct and the client's view).
TypeOK ==
    /\ mode \in EvictModes
    /\ used \in Nat
    /\ free \subseteq Span
    /\ live \subseteq Span
    /\ phase \in {"idle", "alloc", "emit"}
    /\ open \in Nat
    /\ req \in Nat

\* No two cached blocks, and no cached block and the span being emitted
\* into, share a byte: emitting or executing one never touches another's code.
SpansDisjoint ==
    \A s, t \in live \cup Reserved : s # t => Apart(Footprint(s), Footprint(t))

\* The intrusive headers of the free list lie outside every cached block and
\* every reservation: writing a header never overwrites compiled code, and
\* emitting code never overwrites a header.
FreeListApart ==
    \A f \in free : /\ \A g \in free : f # g => Apart(f, g)
                    /\ \A s \in Taken : Apart(f, s)

\* Every span the cache hands out or lists lies inside the arena.
InsideArena == \A s \in free \cup Taken : s.off + s.size <= Cap

\* lru_free leaves no two adjacent free spans: the walk never misses room
\* that is there but cut in two.
FullyCoalesced == \A f, g \in free : f.off + f.size # g.off

\* The arena is sound under all three policies: no byte is used twice, no
\* header of the free list lies in code, nothing runs past the end, and the
\* free list is coalesced (lru_alloc, lru_free, fifo_alloc, bump_alloc and
\* codecache_trim together).
HeapSound ==
    TypeOK /\ InsideArena /\ SpansDisjoint /\ FreeListApart /\ FullyCoalesced

\* The code cache implements the promise its client relies on: spans are
\* granted apart from every other granted span, and from then on only
\* shortened in place or taken away.
Promise == INSTANCE Arena WITH granted <- Taken, Bytes <- Cap

ImplementsArena == Promise!Spec

\* Every call of codecache_alloc returns: the loop of evictions ends.
AllocReturns == (phase = "alloc") ~> (phase # "alloc")

=============================================================================

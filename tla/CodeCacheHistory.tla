-------------------------- MODULE CodeCacheHistory --------------------------
(***************************************************************************)
(* CodeCache with a history: the spans that left an LRU arena with a block *)
(* dropped for self-modifying code, to ask where the bytes of the arena go.*)
(***************************************************************************)
EXTENDS CodeCache

VARIABLE
    lost            \* LRU: spans dropped without being returned

historyVars == <<vars, lost>>

HistoryInit == Init /\ lost = {}

Dropping == \E spans \in SUBSET live : spans # {} /\ Drop(spans)

HistoryNext ==
    /\ Next
    /\ lost' = IF mode # LRU THEN lost
               ELSE IF Reset THEN {}
               ELSE IF Dropping THEN lost \cup (live \ live')
               ELSE lost

HistorySpec == HistoryInit /\ [][HistoryNext]_historyVars

FairHistorySpec == HistorySpec /\ WF_historyVars(Allocate /\ HistoryNext)

-----------------------------------------------------------------------------
Covers(s, g) == s.off <= g /\ g < s.off + s.size

\* Every byte of an LRU arena is free, cached, reserved, or was lost when
\* smc_drop_range dropped a block; no other path of alloc, trim, free and
\* evict loses bytes.
NoOtherLeak ==
    mode = LRU =>
        \A g \in 0 .. Cap - 1 :
            \E s \in free \cup Taken \cup {Footprint(s) : s \in lost} : Covers(s, g)

\* An LRU request that fits the arena only fails when blocks dropped for
\* self-modifying code have taken their bytes with them: evicting everything
\* that is cached always makes room otherwise.
OnlyLostBytesFail ==
    [][ LruAllocNull => LruSize(req) > Cap \/ lost # {} ]_historyVars

=============================================================================

---------------------------- MODULE MCDispatcher ----------------------------
(***************************************************************************)
(* A guest of three blocks over three words in two pages for TLC: the      *)
(* block at 1 spans both pages and overlaps the block at 2; the block at 0 *)
(* shares a page with it without sharing a word.                           *)
(***************************************************************************)
EXTENDS Dispatcher, TLC

MCWord == 0 .. 2
MCPc == {0, 1, 2}
MCBlockEnd == (0 :> 1) @@ (1 :> 3) @@ (2 :> 3)
MCReserve == (0 :> 16) @@ (1 :> 32) @@ (2 :> 20)
MCActual == (0 :> {8}) @@ (1 :> {20}) @@ (2 :> {12})
MCSucc == (0 :> <<1>>) @@ (1 :> <<0, 2>>) @@ (2 :> <<OddPc, 0>>)
MCSig == (0 :> 1) @@ (1 :> 1) @@ (2 :> 2)
MCSrLoaded == (0 :> TRUE) @@ (1 :> FALSE) @@ (2 :> FALSE)

\* The same guest without the block at 2: small enough to explore runs of
\* any length.
MCPc2 == {0, 1}
MCSucc2 == (0 :> <<1>>) @@ (1 :> <<OddPc, 0>>)

\* The emitter may outgrow the reservation of the block at 1.
MCActualTight == (0 :> {8}) @@ (1 :> {20, 36}) @@ (2 :> {12})

Opts(prefetch, nocache, chain) ==
    [prefetch |-> prefetch, no_cache |-> nocache, budget |-> chain]

\* The host build with and without prefetch, and the ESP32 build.
MCOptsBuilds ==
    [m \in {BUMP} |-> {Opts("none", FALSE, 0), Opts("static", FALSE, 0),
                       Opts("chain", FALSE, 2)}]

\* All policies without prefetch or without the cache; with a cache, both
\* kinds of prefetch under the policy that evicts nothing (a prefetch that
\* evicts may drop the block it was made for).
MCOptsBench ==
    [m \in EvictModes |->
        IF m = BUMP
        THEN {Opts("static", FALSE, 0), Opts("chain", FALSE, 0), Opts("static", TRUE, 0)}
        ELSE {Opts("none", FALSE, 0), Opts("static", TRUE, 0)}]

Symmetry == Permutations(BlockId)

=============================================================================

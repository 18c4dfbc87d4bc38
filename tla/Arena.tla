------------------------------- MODULE Arena -------------------------------
(***************************************************************************)
(* What the block compiler and the dispatcher rely on the code cache for:  *)
(* a set of granted spans of executable memory, none of which overlaps     *)
(* another.  A span is granted whole, may be shortened in place once its   *)
(* block is emitted, and may be taken away (evicted, reset); its start     *)
(* never moves, because native code holds absolute addresses into it.      *)
(***************************************************************************)
EXTENDS Integers

CONSTANT Bytes      \* size of the arena

VARIABLE granted    \* the spans [off, off + size) in use

Separate(s, t) == s.off + s.size <= t.off \/ t.off + t.size <= s.off

Init == granted = {}

\* Some spans are taken away.
Revoke == granted' \subseteq granted

\* Some spans are taken away and one is granted, clear of those that stay.
Grant ==
    \E s \in granted' :
        /\ granted' \ {s} \subseteq granted
        /\ s.off >= 0 /\ s.off + s.size <= Bytes
        /\ \A t \in granted' \ {s} : Separate(s, t)

\* A granted span gives up its tail.
Shorten ==
    \E s \in granted' : \E t \in granted :
        /\ granted' = (granted \ {t}) \cup {s}
        /\ s.off = t.off /\ s.size <= t.size

Next == Revoke \/ Grant \/ Shorten

Spec == Init /\ [][Next]_granted

=============================================================================

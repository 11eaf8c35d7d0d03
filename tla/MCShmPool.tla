------------------------------- MODULE MCShmPool -------------------------------
(* Two sizes; six buffers, so that a full pool and buffers of an older    *)
(* one that the compositor still holds exist together.                     *)
EXTENDS ShmPool, TLC

CONSTANTS b1, b2, b3, b4, b5, b6, small, large

Buffers == {b1, b2, b3, b4, b5, b6}
Sizes == {small, large}
Exchange == Permutations(Buffers) \union Permutations(Sizes)
===============================================================================

------------------------------- MODULE MCDesktop -------------------------------
(***************************************************************************)
(* Values for model-checking Desktop: two windows, of two clients or of    *)
(* one.  Their ids are chosen at birth, so they may be equal by chance     *)
(* (two clients) or because a dead window's id is given out again.         *)
(***************************************************************************)
EXTENDS Desktop

CONSTANTS w1, w2, c1, c2

TwoOwners == (w1 :> c1) @@ (w2 :> c2)
OneOwner == (w1 :> c1) @@ (w2 :> c1)

(* Exchanging the two windows together with their clients, and the ids and  *)
(* the lockers among themselves, changes nothing in the specification.      *)
Exchange ==
  {(w1 :> w2) @@ (w2 :> w1) @@ (c1 :> c2) @@ (c2 :> c1)}
    \union Permutations(WindowId) \union Permutations(Locker)
===============================================================================

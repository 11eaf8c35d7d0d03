--------------------------------- MODULE Toasts ---------------------------------
(***************************************************************************)
(* What a notification daemon promises: a notification that was sent is    *)
(* shown, waits for a place, or takes the place of an older version of     *)
(* itself; those that wait are shown in the order in which they came;      *)
(* there are at most MaxVisible on the screen; and none disappears without *)
(* having been shown, unless the display goes away.                        *)
(***************************************************************************)
EXTENDS Integers, FiniteSets, SequencesExt

CONSTANTS
  Call,         (* method calls; each sends a notification or an order       *)
  MaxVisible    (* places on the screen                                      *)

VARIABLES
  sent,     (* calls on their way                                            *)
  waiting,  (* notifications without a place, oldest first                   *)
  shown,    (* notifications on the screen                                   *)
  up        (* the display is there                                          *)

Init ==
  /\ sent = {}
  /\ waiting = <<>>
  /\ shown = {}
  /\ up \in BOOLEAN

Submit(c) ==
  /\ sent' = sent \union {c}
  /\ UNCHANGED <<waiting, shown, up>>

(* The arrival of a notification gives away all free places; afterwards     *)
(* either nobody waits or no place is free.                                 *)
Arrive(c) ==
  /\ up
  /\ c \in sent
  /\ sent' = sent \ {c}
  /\ \E m \in 0..(Len(waiting) + 1) :
       LET line == Append(waiting, c) IN
       /\ waiting' = SubSeq(line, m + 1, Len(line))
       /\ shown' = shown \union {line[k] : k \in 1..m}
  /\ Cardinality(shown') <= MaxVisible
  /\ waiting' = <<>> \/ Cardinality(shown') = MaxVisible
  /\ UNCHANGED up

(* A new version takes the place of the old one.                            *)
Update(c) ==
  /\ up
  /\ c \in sent
  /\ sent' = sent \ {c}
  /\ \E old \in shown : shown' = (shown \ {old}) \union {c}
  /\ UNCHANGED <<waiting, up>>

(* An order to close takes at most one notification off the screen.         *)
Order(c) ==
  /\ up
  /\ c \in sent
  /\ sent' = sent \ {c}
  /\ \/ UNCHANGED shown
     \/ \E old \in shown : shown' = shown \ {old}
  /\ UNCHANGED <<waiting, up>>

(* Time passes, or the compositor takes a surface away.                     *)
End ==
  /\ up
  /\ shown' \in SUBSET shown
  /\ UNCHANGED <<sent, waiting, up>>

(* The display goes away with all that was on it and before it ...          *)
Fail ==
  /\ up
  /\ up' = FALSE
  /\ waiting' = <<>>
  /\ shown' = {}
  /\ sent' \in SUBSET sent

(* ... and what is sent later goes nowhere.                                 *)
Drop(c) ==
  /\ ~up
  /\ sent' = sent \ {c}
  /\ UNCHANGED <<waiting, shown, up>>

Next ==
  \/ \E c \in Call : Submit(c) \/ Arrive(c) \/ Update(c) \/ Order(c) \/ Drop(c)
  \/ End \/ Fail

Spec == Init /\ [][Next]_<<sent, waiting, shown, up>>
===============================================================================

--------------------------- MODULE WorkspaceManager ---------------------------
(***************************************************************************)
(* The index state of FRAME's workspaces: which workspace is active and    *)
(* which window id each workspace remembers as focused.  The Rust type     *)
(* WorkspaceManager is a value that its owner, the compositor's main       *)
(* thread, updates in place; here each method is an operator from the old  *)
(* value to the new one, and its Boolean or Option result is an operator   *)
(* of its own.  Workspaces are numbered from 0, as in the code.            *)
(***************************************************************************)
EXTENDS Integers

CONSTANTS
  ConfigCount,  (* workspace.count as read from frame.toml, a u8            *)
  WindowId,     (* the ids the code derives from wl_surface protocol ids    *)
  NoFocus       (* Option::None in a focus slot                             *)

ASSUME ConfigCountAssumption == ConfigCount \in 0..255
ASSUME NoFocusAssumption == NoFocus \notin WindowId

(* WorkspaceManager::new and Workspaces::new clamp the count to 1..9.      *)
Count == IF ConfigCount < 1 THEN 1 ELSE IF ConfigCount > 9 THEN 9 ELSE ConfigCount

Workspace == 0..(Count - 1)

Manager == [active : Workspace, focused : [Workspace -> WindowId \union {NoFocus}]]

NewManager == [active |-> 0, focused |-> [ws \in Workspace |-> NoFocus]]

(* Mutant of Switches: the range test of switch_to is missing.             *)
SwitchesUnchecked(m, idx) == idx # m.active

(* The Boolean that switch_to returns.                                     *)
Switches(m, idx) == idx < Count /\ idx # m.active

SwitchTo(m, idx) == IF Switches(m, idx) THEN [m EXCEPT !.active = idx] ELSE m

SwitchNext(m, wrap) ==
  IF m.active + 1 < Count THEN SwitchTo(m, m.active + 1)
  ELSE IF wrap THEN SwitchTo(m, 0) ELSE m

SwitchPrev(m, wrap) ==
  IF m.active > 0 THEN SwitchTo(m, m.active - 1)
  ELSE IF wrap THEN SwitchTo(m, Count - 1) ELSE m

FocusedId(m) == m.focused[m.active]

SetFocus(m, id) == [m EXCEPT !.focused = [@ EXCEPT ![m.active] = id]]

(* Whether plan_move_focused returns Some.                                 *)
PlansMove(m, target) ==
  /\ target < Count
  /\ target # m.active
  /\ FocusedId(m) # NoFocus

(* Mutant of PlanMove: the source slot is not cleared.                     *)
PlanMoveKeepsSource(m, target) ==
  IF PlansMove(m, target) THEN [m EXCEPT !.focused = [@ EXCEPT ![target] = FocusedId(m)]]
  ELSE m

(* The bookkeeping of plan_move_focused: the id changes slots at once,     *)
(* before anybody has looked for the window.                               *)
PlanMove(m, target) ==
  IF PlansMove(m, target)
    THEN [m EXCEPT !.focused = [@ EXCEPT ![m.active] = NoFocus, ![target] = FocusedId(m)]]
    ELSE m
===============================================================================

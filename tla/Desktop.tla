-------------------------------- MODULE Desktop --------------------------------
(***************************************************************************)
(* FRAME's desktop: the windows of each workspace, the keyboard focus, the *)
(* pointer and its grab, and the session lock, with every handler that     *)
(* changes them.  All handlers run on the compositor's main thread, one    *)
(* at a time, so each is one action; what interleaves is the order in      *)
(* which clients, input devices and the control socket make them run.      *)
(*                                                                         *)
(* smithay's parts (Space, the seat's keyboard and pointer, the            *)
(* session-lock objects) are modelled from how FRAME uses them.            *)
(***************************************************************************)
EXTENDS WorkspaceManager, SequencesExt

CONSTANTS
  Window,    (* the toplevels ever created, each created at most once        *)
  Client,    (* the Wayland clients that create them                         *)
  OwnerOf,   (* the client of a window                                       *)
  Locker,    (* the session-lock objects clients may create                  *)
  Nothing,   (* no window: unfocused keyboard, empty place under the pointer *)
  NoLocker   (* FRAME's `lock` field is None                                 *)

ASSUME WindowAssumption ==
  /\ OwnerOf \in [Window -> Client]
  /\ Nothing \notin Window
ASSUME LockerAssumption == NoLocker \notin Locker

VARIABLES
  mgr,     (* state.workspace_mgr                                            *)
  spaces,  (* state.workspaces: per workspace its windows, bottom to top     *)
  life,    (* each toplevel: "unborn", "alive", "closing", "dead"            *)
  idOf,    (* the protocol id of a window's wl_surface, NoFocus while unborn *)
  kbd,     (* the seat's keyboard focus                                      *)
  under,   (* the window surface_under found at the last pointer motion      *)
  grab,    (* the pointer grab: kind, surface focused at its start, window   *)
  held,    (* whether the user physically holds the pointer button           *)
  lock     (* state.lock: the locker FRAME keeps, or NoLocker                *)

vars == <<mgr, spaces, life, idOf, kbd, under, grab, held, lock>>

MaybeWindow == Window \union {Nothing}
Target == 0..Count   (* every index, and one that is out of range *)
Grab == [kind : {"none", "click", "move"}, focus : MaybeWindow, win : MaybeWindow]
NoGrab == [kind |-> "none", focus |-> Nothing, win |-> Nothing]

Alive(w) == life[w] \in {"alive", "closing"}
Locked == lock # NoLocker
ActiveSpace == spaces[mgr.active]

-------------------------------------------------------------------------------
(* smithay's Space: a stacking order in which a window occurs at most once. *)

Unmap(space, w) ==
  IF w \in ToSet(space) THEN RemoveAt(space, CHOOSE k \in DOMAIN space : space[k] = w)
  ELSE space

(* map_element and raise_element put the window on top.                     *)
MapOnTop(space, w) == Append(Unmap(space, w), w)

(* elements().find(..protocol_id == id): the lowest window with the id, as  *)
(* a set of at most one window.                                             *)
Find(space, id) ==
  {w \in Window : \E k \in DOMAIN space :
     /\ space[k] = w /\ idOf[w] = id
     /\ \A j \in 1..(k - 1) : idOf[space[j]] # id}

(* The surface the pointer is on: a click grab keeps the one it began on, a *)
(* move grab has none, and without a grab it is the last one found.         *)
PointerFocus ==
  CASE grab.kind = "none"  -> under
    [] grab.kind = "click" -> grab.focus
    [] grab.kind = "move"  -> Nothing

-------------------------------------------------------------------------------
Init ==
  /\ mgr = NewManager
  /\ spaces = [ws \in Workspace |-> <<>>]
  /\ life = [w \in Window |-> "unborn"]
  /\ idOf = [w \in Window |-> NoFocus]
  /\ kbd = Nothing
  /\ under = Nothing
  /\ grab = NoGrab
  /\ held = FALSE
  /\ lock = NoLocker

-------------------------------------------------------------------------------
(* Requests of window clients.                                              *)

(* A client has no two live surfaces with one protocol id; ids of different *)
(* clients are unrelated, and the id of a dead window is given out again.   *)
FreeId(w, id) == \A v \in Window : Alive(v) /\ OwnerOf[v] = OwnerOf[w] => idOf[v] # id

NewToplevel(w) ==
  /\ life[w] = "unborn"
  /\ \E id \in WindowId :
       /\ FreeId(w, id)
       /\ idOf' = [idOf EXCEPT ![w] = id]
       /\ mgr' = SetFocus(mgr, id)
  /\ life' = [life EXCEPT ![w] = "alive"]
  /\ spaces' = [spaces EXCEPT ![mgr.active] = MapOnTop(@, w)]
  /\ UNCHANGED <<kbd, under, grab, held, lock>>

(* Mutant of ToplevelDestroyed: the window is looked up by its protocol id. *)
DestroyedById(w) ==
  /\ Alive(w)
  /\ life' = [life EXCEPT ![w] = "dead"]
  /\ \E ws \in Workspace, v \in Window :
       /\ v \in Find(spaces[ws], idOf[w])
       /\ spaces' = [spaces EXCEPT ![ws] = Unmap(@, v)]
  /\ UNCHANGED <<mgr, idOf, kbd, under, grab, held, lock>>

(* Only the first space that holds the window gives it up, and only the     *)
(* active workspace's focus slot is compared.                               *)
ToplevelDestroyed(w) ==
  LET Homes == {ws \in Workspace : w \in ToSet(spaces[ws])}
  IN
  /\ Alive(w)
  /\ life' = [life EXCEPT ![w] = "dead"]
  /\ \/ /\ Homes = {}
        /\ UNCHANGED <<spaces, mgr>>
     \/ \E home \in Homes :
          /\ \A ws \in Homes : home <= ws
          /\ spaces' = [spaces EXCEPT ![home] = Unmap(@, w)]
          /\ mgr' = IF FocusedId(mgr) = idOf[w] THEN SetFocus(mgr, NoFocus) ELSE mgr
  /\ UNCHANGED <<idOf, kbd, under, grab, held, lock>>

(* xdg_toplevel.move: valid while a grab that began on one of the client's  *)
(* surfaces is in place, for a window of the active space.                  *)
MoveRequest(w) ==
  /\ Alive(w)
  /\ grab.kind # "none"
  /\ grab.focus # Nothing
  /\ OwnerOf[grab.focus] = OwnerOf[w]
  /\ w \in ToSet(ActiveSpace)
  /\ grab' = [grab EXCEPT !.kind = "move", !.win = w]
  /\ UNCHANGED <<mgr, spaces, life, idOf, kbd, under, held, lock>>

-------------------------------------------------------------------------------
(* Pointer events.  FRAME drops them while the session is locked, but the   *)
(* user's hand moves all the same.                                          *)

(* What surface_under may find at some pointer position: a window of the    *)
(* active space, or the background or a layer surface (Nothing).            *)
SurfaceUnder == ToSet(ActiveSpace) \union {Nothing}

(* A move grab maps its window into the space that is active now.           *)
PointerMotion(u) ==
  /\ ~Locked
  /\ u \in SurfaceUnder
  /\ under' = u
  /\ spaces' = IF grab.kind = "move"
                 THEN [spaces EXCEPT ![mgr.active] = MapOnTop(@, grab.win)]
                 ELSE spaces
  /\ UNCHANGED <<mgr, life, idOf, kbd, grab, held, lock>>

(* Mutant of ButtonPress: the event is handled while locked, too.           *)
ButtonPressAlways(w) ==
  /\ ~held
  /\ held' = TRUE
  /\ w \in SurfaceUnder
  /\ kbd' = w
  /\ UNCHANGED <<mgr, spaces, life, idOf, under, grab, lock>>

(* A press raises the window found at the pointer and gives it the keyboard;*)
(* the workspace's focus slot is not told.  The seat starts a click grab    *)
(* unless a grab is left over.                                              *)
ButtonPress(w) ==
  /\ ~held
  /\ held' = TRUE
  /\ ~Locked
  /\ w \in SurfaceUnder
  /\ kbd' = w
  /\ spaces' = IF w = Nothing THEN spaces
               ELSE [spaces EXCEPT ![mgr.active] = MapOnTop(@, w)]
  /\ grab' = IF grab.kind = "none"
               THEN [kind |-> "click", focus |-> PointerFocus, win |-> Nothing]
               ELSE grab
  /\ UNCHANGED <<mgr, life, idOf, under, lock>>

(* Either kind of grab ends with the release of the button.                 *)
ButtonRelease ==
  /\ held
  /\ held' = FALSE
  /\ ~Locked
  /\ grab' = NoGrab
  /\ UNCHANGED <<mgr, spaces, life, idOf, kbd, under, lock>>

(* process_input_event has no arm for pointer events while locked.          *)
ButtonDropped ==
  /\ Locked
  /\ held' = ~held
  /\ UNCHANGED <<mgr, spaces, life, idOf, kbd, under, grab, lock>>

-------------------------------------------------------------------------------
(* Workspace commands, from the keyboard (not while locked) or from the     *)
(* control socket (at any time).                                            *)

Switch(m) ==
  /\ mgr' = m
  /\ UNCHANGED <<spaces, life, idOf, kbd, under, grab, held, lock>>

(* Mutant of MoveFocused: the window is not unmapped from its old space.    *)
MoveFocusedCopies(target) ==
  /\ mgr' = PlanMove(mgr, target)
  /\ PlansMove(mgr, target)
  /\ \E w \in Find(ActiveSpace, FocusedId(mgr)) :
       spaces' = [spaces EXCEPT ![target] = MapOnTop(@, w)]
  /\ UNCHANGED <<life, idOf, kbd, under, grab, held, lock>>

(* plan_move_focused, then move_window_between_workspaces, which gives up   *)
(* when no window of the source space has the id.                           *)
MoveFocused(target) ==
  /\ mgr' = PlanMove(mgr, target)
  /\ \/ /\ ~PlansMove(mgr, target) \/ Find(ActiveSpace, FocusedId(mgr)) = {}
        /\ UNCHANGED spaces
     \/ /\ PlansMove(mgr, target)
        /\ \E w \in Find(ActiveSpace, FocusedId(mgr)) :
             spaces' = [spaces EXCEPT ![mgr.active] = Unmap(@, w),
                                      ![target] = MapOnTop(@, w)]
  /\ UNCHANGED <<life, idOf, kbd, under, grab, held, lock>>

(* Super+Q sends xdg_toplevel.close to the window of the focus slot.        *)
CloseFocused ==
  /\ \E w \in Find(ActiveSpace, FocusedId(mgr)) :
       /\ life[w] = "alive"
       /\ life' = [life EXCEPT ![w] = "closing"]
  /\ UNCHANGED <<mgr, spaces, idOf, kbd, under, grab, held, lock>>

(* config.workspace.wrap is read at each use and changes with ReloadConfig. *)
(* (Keys are not looked at, either, once the event loop was told to end.)   *)
Keybind ==
  /\ ~Locked
  /\ \/ \E idx \in Target : Switch(SwitchTo(mgr, idx))
     \/ \E wrap \in BOOLEAN : Switch(SwitchNext(mgr, wrap))
     \/ \E wrap \in BOOLEAN : Switch(SwitchPrev(mgr, wrap))
     \/ \E target \in Target : MoveFocused(target)
     \/ CloseFocused

IpcRequest ==
  \/ \E idx \in Target : Switch(SwitchTo(mgr, idx))
  \/ \E target \in Target : MoveFocused(target)

-------------------------------------------------------------------------------
(* ext-session-lock.                                                        *)

(* The first locker is kept; one that comes while it is kept is dropped.    *)
LockRequest(l) ==
  /\ ~Locked
  /\ lock' = l
  /\ kbd' = Nothing
  /\ UNCHANGED <<mgr, spaces, life, idOf, under, grab, held>>

(* The top window of the active space gets the keyboard; an empty space     *)
(* leaves the focus as it is.                                               *)
Unlock ==
  /\ Locked
  /\ lock' = NoLocker
  /\ kbd' = IF ActiveSpace # <<>> THEN Last(ActiveSpace) ELSE kbd
  /\ UNCHANGED <<mgr, spaces, life, idOf, under, grab, held>>

-------------------------------------------------------------------------------
Next ==
  \/ \E w \in Window : NewToplevel(w) \/ ToplevelDestroyed(w) \/ MoveRequest(w)
  \/ \E u \in MaybeWindow : PointerMotion(u) \/ ButtonPress(u)
  \/ ButtonRelease
  \/ ButtonDropped
  \/ Keybind
  \/ IpcRequest
  \/ \E l \in Locker : LockRequest(l)
  \/ Unlock

Spec == Init /\ [][Next]_vars

-------------------------------------------------------------------------------
(* Type correctness of every variable.                                      *)
TypeOK ==
  /\ mgr \in Manager
  /\ spaces \in [Workspace -> Seq(Window)]
  /\ life \in [Window -> {"unborn", "alive", "closing", "dead"}]
  /\ idOf \in [Window -> WindowId \union {NoFocus}]
  /\ kbd \in MaybeWindow
  /\ under \in MaybeWindow
  /\ grab \in Grab
  /\ held \in BOOLEAN
  /\ lock \in Locker \union {NoLocker}

(* A move grab always carries the window it was begun for.                  *)
DragHasWindow == grab.kind = "move" => grab.win \in Window

(* A window that was created and not destroyed stays in at least one space: *)
(* no sequence of drags, moves, switches and ambiguous ids makes            *)
(* move_window_between_workspaces or toplevel_destroyed drop it.            *)
NeverLost ==
  \A w \in Window : Alive(w) => \E ws \in Workspace : w \in ToSet(spaces[ws])

(* While locked no window has the keyboard, whatever clients, the control   *)
(* socket and the user's hands do in the meantime (session_lock.rs: FRAME   *)
(* "refuses to send pointer/keyboard events to other clients").             *)
LockedKeyboard == Locked => kbd = Nothing

(* No other window that any space lists has w's id: neither a living one of *)
(* another client nor a dead one that a drag left behind.                   *)
SoleId(w) ==
  \A ws \in Workspace : \A v \in ToSet(spaces[ws]) : idOf[v] = idOf[w] => v = w

(* Every focus slot that names w's id belongs to a workspace that shows w.  *)
SlotsAtHome(w) ==
  \A ws \in Workspace : mgr.focused[ws] = idOf[w] => w \in ToSet(spaces[ws])

(* Only an id of two windows leads a focus slot astray: as long as a living *)
(* window's id is its own, no switch, drag, move, birth or death of any     *)
(* window sets or leaves a slot naming it in a workspace without it (the    *)
(* "focused window per workspace" of workspace.rs, whose slots are set      *)
(* before the spaces are touched).                                          *)
SlotStaysHome ==
  [][\A w \in Window :
       /\ Alive(w) /\ SoleId(w) /\ SlotsAtHome(w)
       /\ Alive(w)' /\ SoleId(w)'
       => SlotsAtHome(w)']_vars

(* A window enters a space in three ways only: it is created there, it      *)
(* leaves the active space in the same step (a move), or it is being        *)
(* dragged by a grab that may have begun on another workspace.              *)
EntersSpaceOnly ==
  [][\A w \in Window, ws \in Workspace :
       w \notin ToSet(spaces[ws]) /\ w \in ToSet(spaces'[ws]) =>
         \/ life[w] = "unborn"
         \/ w \in ToSet(ActiveSpace) /\ w \notin ToSet(spaces'[mgr.active])
         \/ grab.kind = "move" /\ grab.win = w /\ ws = mgr.active]_vars

-------------------------------------------------------------------------------
(* smoke-checklist.md: "switching hides the inactive" workspace's clients.  *)
OneSpacePerWindow ==
  \A w \in Window, ws1, ws2 \in Workspace :
    w \in ToSet(spaces[ws1]) /\ w \in ToSet(spaces[ws2]) => ws1 = ws2

(* workspace.rs: the manager holds the "focused window per workspace": a    *)
(* slot that names a living window belongs to a workspace that shows it.    *)
SlotPointsHome == \A w \in Window : Alive(w) => SlotsAtHome(w)
===============================================================================

----------------------------- MODULE DesktopProofs -----------------------------
(***************************************************************************)
(* Proofs about Desktop for every number of workspaces, windows, clients   *)
(* and lockers.                                                            *)
(***************************************************************************)
EXTENDS Desktop, SequenceTheorems, TLAPS

-------------------------------------------------------------------------------
(* Operators of WorkspaceManager.                                           *)

(* There is at least one workspace, whatever frame.toml says.               *)
LEMMA CountType == Count \in 1..9 /\ 0 \in Workspace /\ Workspace \subseteq Nat
  BY ConfigCountAssumption DEF Count, Workspace

(* Every method of WorkspaceManager keeps the active index in range and one *)
(* slot per workspace (switch_to, switch_next, switch_prev, set_focus,      *)
(* plan_move_focused).                                                      *)
LEMMA ManagerType ==
  ASSUME NEW m \in Manager
  PROVE  /\ \A idx \in Nat : SwitchTo(m, idx) \in Manager
         /\ \A wrap \in BOOLEAN : SwitchNext(m, wrap) \in Manager /\ SwitchPrev(m, wrap) \in Manager
         /\ \A id \in WindowId \union {NoFocus} : SetFocus(m, id) \in Manager
         /\ \A target \in Nat : PlanMove(m, target) \in Manager
  <1>1. m.active \in Workspace /\ FocusedId(m) \in WindowId \union {NoFocus}
    BY DEF Manager, FocusedId
  <1>2. \A idx \in Nat : SwitchTo(m, idx) \in Manager
    BY <1>1, CountType DEF Manager, SwitchTo, Switches, Workspace
  <1>3. \A wrap \in BOOLEAN : SwitchNext(m, wrap) \in Manager /\ SwitchPrev(m, wrap) \in Manager
    BY <1>1, <1>2, CountType DEF SwitchNext, SwitchPrev, Workspace
  <1>4. \A id \in WindowId \union {NoFocus} : SetFocus(m, id) \in Manager
    BY <1>1 DEF Manager, SetFocus
  <1>5. \A target \in Nat : PlanMove(m, target) \in Manager
    BY <1>1, CountType DEF Manager, PlanMove, PlansMove, Workspace
  <1> QED BY <1>2, <1>3, <1>4, <1>5

-------------------------------------------------------------------------------
(* Operators on a space.                                                    *)

(* Removing position p of a sequence shifts the later elements down by one. *)
LEMMA RemoveAtProperties ==
  ASSUME NEW S, NEW s \in Seq(S), NEW p \in 1..Len(s)
  PROVE  /\ RemoveAt(s, p) \in Seq(S)
         /\ Len(RemoveAt(s, p)) = Len(s) - 1
         /\ \A k \in 1..(Len(s) - 1) :
              RemoveAt(s, p)[k] = IF k < p THEN s[k] ELSE s[k + 1]
  <1> DEFINE a == SubSeq(s, 1, p - 1)
             b == SubSeq(s, p + 1, Len(s))
  <1>1. Len(s) \in Nat /\ p \in Int /\ p >= 1 /\ p <= Len(s)
        /\ \A k \in 1..Len(s) : s[k] \in S
    OBVIOUS
  <1>2. a \in Seq(S) /\ Len(a) = p - 1 /\ \A k \in 1..(p - 1) : a[k] = s[k]
    <2>1. /\ a \in Seq(S)
          /\ Len(a) = IF 1 <= p - 1 THEN (p - 1) - 1 + 1 ELSE 0
          /\ \A k \in 1..((p - 1) - 1 + 1) : a[k] = s[1 + k - 1]
      BY <1>1, SubSeqProperties
    <2> HIDE DEF a
    <2>2. \A k \in 1..(p - 1) : k \in 1..((p - 1) - 1 + 1) /\ 1 + k - 1 = k
      BY <1>1
    <2> QED BY <1>1, <2>1, <2>2
  <1>3. b \in Seq(S) /\ Len(b) = Len(s) - p /\ \A k \in 1..(Len(s) - p) : b[k] = s[p + k]
    <2>1. /\ b \in Seq(S)
          /\ Len(b) = IF p + 1 <= Len(s) THEN Len(s) - (p + 1) + 1 ELSE 0
          /\ \A k \in 1..(Len(s) - (p + 1) + 1) : b[k] = s[(p + 1) + k - 1]
      BY <1>1, SubSeqProperties
    <2> HIDE DEF b
    <2>2. \A k \in 1..(Len(s) - p) : k \in 1..(Len(s) - (p + 1) + 1) /\ (p + 1) + k - 1 = p + k
      BY <1>1
    <2> QED BY <1>1, <2>1, <2>2
  <1> HIDE DEF a, b
  <1>4. /\ a \o b \in Seq(S)
        /\ Len(a \o b) = Len(a) + Len(b)
        /\ \A k \in 1..(Len(a) + Len(b)) :
             (a \o b)[k] = IF k <= Len(a) THEN a[k] ELSE b[k - Len(a)]
    BY <1>2, <1>3, ConcatProperties
  <1>5. ASSUME NEW k \in 1..(Len(s) - 1)
        PROVE  (a \o b)[k] = IF k < p THEN s[k] ELSE s[k + 1]
    <2>1. CASE k < p
      BY <2>1, <1>1, <1>2, <1>3, <1>4
    <2>2. CASE ~(k < p)
      <3>1. k - (p - 1) \in 1..(Len(s) - p) /\ p + (k - (p - 1)) = k + 1
        BY <2>2, <1>1
      <3>2. (a \o b)[k] = b[k - (p - 1)]
        BY <2>2, <1>1, <1>2, <1>3, <1>4
      <3> QED BY <2>2, <3>1, <3>2, <1>3
    <2> QED BY <2>1, <2>2
  <1>6. Len(a \o b) = Len(s) - 1
    BY <1>1, <1>2, <1>3, <1>4
  <1> QED BY <1>4, <1>5, <1>6 DEF RemoveAt, a, b

(* unmap_elem removes the window, keeps the others and their order distinct.*)
LEMMA UnmapProperties ==
  ASSUME NEW s \in Seq(Window), IsInjective(s), NEW w \in Window
  PROVE  /\ Unmap(s, w) \in Seq(Window)
         /\ IsInjective(Unmap(s, w))
         /\ ToSet(Unmap(s, w)) = ToSet(s) \ {w}
  <1>1. CASE w \notin ToSet(s)
    BY <1>1 DEF Unmap
  <1>2. CASE w \in ToSet(s)
    <2> DEFINE p == CHOOSE k \in DOMAIN s : s[k] = w
               u == RemoveAt(s, p)
    <2>1. DOMAIN s = 1..Len(s) /\ Len(s) \in Nat
      OBVIOUS
    <2>2. p \in 1..Len(s) /\ s[p] = w
      BY <1>2, <2>1 DEF ToSet
    <2> HIDE DEF p
    <2>3. /\ u \in Seq(Window)
          /\ Len(u) = Len(s) - 1
          /\ \A k \in 1..(Len(s) - 1) : u[k] = IF k < p THEN s[k] ELSE s[k + 1]
      BY <2>2, RemoveAtProperties
    <2> HIDE DEF u
    <2>4. DOMAIN u = 1..(Len(s) - 1)
      BY <2>3
    <2>5. \A j, k \in 1..Len(s) : s[j] = s[k] => j = k
      BY <2>1 DEF IsInjective
    <2>6. IsInjective(u)
      <3> SUFFICES ASSUME NEW j \in 1..(Len(s) - 1), NEW k \in 1..(Len(s) - 1), u[j] = u[k]
                   PROVE  j = k
        BY <2>4 DEF IsInjective
      <3> DEFINE up(i) == IF i < p THEN i ELSE i + 1
      <3>1. up(j) \in 1..Len(s) /\ up(k) \in 1..Len(s)
        BY <2>1, <2>2
      <3>2. u[j] = s[up(j)] /\ u[k] = s[up(k)]
        BY <2>3
      <3>3. up(j) = up(k)
        BY <2>5, <3>1, <3>2
      <3> QED BY <3>3, <2>1, <2>2
    <2>7. ToSet(u) = ToSet(s) \ {w}
      <3>1. ASSUME NEW k \in DOMAIN u PROVE u[k] \in ToSet(s) \ {w}
        <4> DEFINE i == IF k < p THEN k ELSE k + 1
        <4>1. i \in 1..Len(s) /\ i # p /\ u[k] = s[i]
          BY <2>1, <2>2, <2>3, <2>4
        <4> HIDE DEF i
        <4> QED BY <4>1, <2>1, <2>2, <2>5 DEF ToSet
      <3>2. ASSUME NEW k \in DOMAIN s, s[k] # w PROVE s[k] \in ToSet(u)
        <4>1. CASE k < p
          BY <4>1, <2>1, <2>2, <2>3, <2>4 DEF ToSet
        <4>2. CASE k > p
          <5>1. k - 1 \in DOMAIN u /\ u[k - 1] = s[k]
            BY <4>2, <2>1, <2>2, <2>3, <2>4
          <5> QED BY <5>1 DEF ToSet
        <4> QED BY <4>1, <4>2, <3>2, <2>1, <2>2
      <3> QED BY <3>1, <3>2 DEF ToSet
    <2> QED BY <1>2, <2>3, <2>6, <2>7 DEF Unmap, u, p
  <1> QED BY <1>1, <1>2

(* map_element and raise_element keep a space free of duplicates and add    *)
(* exactly the window.                                                      *)
LEMMA MapOnTopProperties ==
  ASSUME NEW s \in Seq(Window), IsInjective(s), NEW w \in Window
  PROVE  /\ MapOnTop(s, w) \in Seq(Window)
         /\ IsInjective(MapOnTop(s, w))
         /\ ToSet(MapOnTop(s, w)) = ToSet(s) \union {w}
  <1> DEFINE u == Unmap(s, w)
             t == Append(u, w)
  <1>1. u \in Seq(Window) /\ IsInjective(u) /\ ToSet(u) = ToSet(s) \ {w}
    BY UnmapProperties
  <1> HIDE DEF u
  <1>2. /\ t \in Seq(Window) /\ DOMAIN t = 1..(Len(u) + 1) /\ DOMAIN u = 1..Len(u)
        /\ Len(u) \in Nat
        /\ \A k \in 1..Len(u) : t[k] = u[k]
        /\ t[Len(u) + 1] = w
    BY <1>1
  <1> HIDE DEF t
  <1>3. \A k \in 1..Len(u) : u[k] \in ToSet(u) /\ u[k] # w
    BY <1>1, <1>2 DEF ToSet
  <1>4. IsInjective(t)
    BY <1>1, <1>2, <1>3 DEF IsInjective
  <1>5. ToSet(t) = ToSet(u) \union {w}
    <2>1. ASSUME NEW k \in DOMAIN t PROVE t[k] \in ToSet(u) \union {w}
      BY <1>2, <1>3
    <2>2. ASSUME NEW k \in DOMAIN u PROVE u[k] \in ToSet(t)
      BY <1>2 DEF ToSet
    <2>3. w \in ToSet(t)
      BY <1>2 DEF ToSet
    <2> QED BY <2>1, <2>2, <2>3 DEF ToSet
  <1> QED BY <1>1, <1>2, <1>4, <1>5 DEF MapOnTop, t, u

(* The top of a non-empty sequence is one of its elements.                   *)
LEMMA LastIsElement ==
  ASSUME NEW S, NEW s \in Seq(S), s # <<>>
  PROVE  Last(s) \in S
  <1>1. Len(s) \in Nat /\ Len(s) # 0
    BY EmptySeq
  <1>2. Len(s) \in 1..Len(s)
    BY <1>1
  <1> QED BY <1>2, ElementOfSeq DEF Last

(* What Find returns is a window of the space with the id.                  *)
LEMMA FindProperties ==
  ASSUME NEW s \in Seq(Window), NEW id, NEW w \in Find(s, id)
  PROVE  w \in Window /\ w \in ToSet(s) /\ idOf[w] = id
  BY DEF Find, ToSet

-------------------------------------------------------------------------------
(* The layout invariant: types, stacking orders without duplicates, an id   *)
(* for every living window, and no living window outside every space.       *)

(* smithay's Space lists no window twice.                                   *)
NoDuplicates == \A ws \in Workspace : IsInjective(spaces[ws])

(* A living window has an id.                                               *)
Identified == \A w \in Window : Alive(w) => idOf[w] \in WindowId

Layout == TypeOK /\ NoDuplicates /\ DragHasWindow /\ Identified /\ NeverLost

(* A step that maps a window on top of one space keeps every space          *)
(* well-formed and takes no window away.                                    *)
LEMMA MapStep ==
  ASSUME TypeOK, NoDuplicates, NEW ws \in Workspace, NEW w \in Window,
         spaces' = [spaces EXCEPT ![ws] = MapOnTop(@, w)]
  PROVE  /\ spaces' \in [Workspace -> Seq(Window)]
         /\ NoDuplicates'
         /\ w \in ToSet(spaces'[ws])
         /\ \A x \in Workspace : ToSet(spaces[x]) \subseteq ToSet(spaces'[x])
         /\ \A x \in Workspace : ToSet(spaces'[x]) \subseteq ToSet(spaces[x]) \union {w}
         /\ \A x \in Workspace : x # ws => spaces'[x] = spaces[x]
  <1>1. \A x \in Workspace : spaces[x] \in Seq(Window) /\ IsInjective(spaces[x])
    BY DEF TypeOK, NoDuplicates
  <1>2. /\ MapOnTop(spaces[ws], w) \in Seq(Window)
        /\ IsInjective(MapOnTop(spaces[ws], w))
        /\ ToSet(MapOnTop(spaces[ws], w)) = ToSet(spaces[ws]) \union {w}
    BY <1>1, MapOnTopProperties
  <1>3. \A x \in Workspace : spaces'[x] = IF x = ws THEN MapOnTop(spaces[ws], w) ELSE spaces[x]
    BY DEF TypeOK
  <1>4. spaces' \in [Workspace -> Seq(Window)]
    BY <1>2 DEF TypeOK
  <1>5. NoDuplicates'
    BY <1>1, <1>2, <1>3 DEF NoDuplicates
  <1> QED BY <1>2, <1>3, <1>4, <1>5

(* A step that unmaps a window from one space keeps every space             *)
(* well-formed and takes only that window away.                             *)
LEMMA UnmapStep ==
  ASSUME TypeOK, NoDuplicates, NEW ws \in Workspace, NEW w \in Window,
         spaces' = [spaces EXCEPT ![ws] = Unmap(@, w)]
  PROVE  /\ spaces' \in [Workspace -> Seq(Window)]
         /\ NoDuplicates'
         /\ \A x \in Workspace : ToSet(spaces[x]) \ {w} \subseteq ToSet(spaces'[x])
         /\ \A x \in Workspace : ToSet(spaces'[x]) \subseteq ToSet(spaces[x])
  <1>1. \A x \in Workspace : spaces[x] \in Seq(Window) /\ IsInjective(spaces[x])
    BY DEF TypeOK, NoDuplicates
  <1>2. /\ Unmap(spaces[ws], w) \in Seq(Window)
        /\ IsInjective(Unmap(spaces[ws], w))
        /\ ToSet(Unmap(spaces[ws], w)) = ToSet(spaces[ws]) \ {w}
    BY <1>1, UnmapProperties
  <1>3. \A x \in Workspace : spaces'[x] = IF x = ws THEN Unmap(spaces[ws], w) ELSE spaces[x]
    BY DEF TypeOK
  <1>4. spaces' \in [Workspace -> Seq(Window)]
    BY <1>2 DEF TypeOK
  <1>5. NoDuplicates'
    BY <1>1, <1>2, <1>3 DEF NoDuplicates
  <1> QED BY <1>2, <1>3, <1>4, <1>5

(* A step that moves a window between two spaces.                           *)
LEMMA MoveStep ==
  ASSUME TypeOK, NoDuplicates, NEW src \in Workspace, NEW dst \in Workspace, src # dst,
         NEW w \in Window,
         spaces' = [spaces EXCEPT ![src] = Unmap(@, w), ![dst] = MapOnTop(@, w)]
  PROVE  /\ spaces' \in [Workspace -> Seq(Window)]
         /\ NoDuplicates'
         /\ w \in ToSet(spaces'[dst])
         /\ \A x \in Workspace : ToSet(spaces[x]) \ {w} \subseteq ToSet(spaces'[x])
         /\ \A x \in Workspace : x # src => ToSet(spaces[x]) \subseteq ToSet(spaces'[x])
         /\ \A x \in Workspace : x # dst => ToSet(spaces'[x]) \subseteq ToSet(spaces[x])
         /\ ToSet(spaces'[dst]) = ToSet(spaces[dst]) \union {w}
         /\ w \notin ToSet(spaces'[src])
  <1>1. \A x \in Workspace : spaces[x] \in Seq(Window) /\ IsInjective(spaces[x])
    BY DEF TypeOK, NoDuplicates
  <1>2. /\ Unmap(spaces[src], w) \in Seq(Window)
        /\ IsInjective(Unmap(spaces[src], w))
        /\ ToSet(Unmap(spaces[src], w)) = ToSet(spaces[src]) \ {w}
    BY <1>1, UnmapProperties
  <1>3. /\ MapOnTop(spaces[dst], w) \in Seq(Window)
        /\ IsInjective(MapOnTop(spaces[dst], w))
        /\ ToSet(MapOnTop(spaces[dst], w)) = ToSet(spaces[dst]) \union {w}
    BY <1>1, MapOnTopProperties
  <1>4. \A x \in Workspace : spaces'[x] = IF x = dst THEN MapOnTop(spaces[dst], w)
                                          ELSE IF x = src THEN Unmap(spaces[src], w)
                                          ELSE spaces[x]
    BY DEF TypeOK
  <1>5. spaces' \in [Workspace -> Seq(Window)]
    BY <1>2, <1>3 DEF TypeOK
  <1>6. NoDuplicates'
    BY <1>1, <1>2, <1>3, <1>4 DEF NoDuplicates
  <1> QED BY <1>2, <1>3, <1>4, <1>5, <1>6

(* The layout holds at the start.                                           *)
LEMMA LayoutInit == Init => Layout
  <1> SUFFICES ASSUME Init PROVE Layout
    OBVIOUS
  <1>1. NewManager \in Manager
    BY CountType DEF NewManager, Manager
  <1>2. TypeOK
    <2>1. NoGrab \in Grab
      BY DEF NoGrab, Grab, MaybeWindow
    <2>2. spaces \in [Workspace -> Seq(Window)]
      BY EmptySeq DEF Init
    <2> QED BY <1>1, <2>1, <2>2 DEF Init, TypeOK, MaybeWindow
  <1>3. NoDuplicates
    BY DEF Init, NoDuplicates, IsInjective
  <1>4. DragHasWindow /\ Identified /\ NeverLost
    BY DEF Init, DragHasWindow, NoGrab, Identified, NeverLost, Alive
  <1> QED BY <1>2, <1>3, <1>4 DEF Layout

(* new_toplevel: the new window is mapped where it becomes alive.           *)
LEMMA LayoutNewToplevel ==
  ASSUME Layout, NEW w \in Window, NewToplevel(w) PROVE Layout'
  <1> USE DEF Layout
  <1>1. mgr.active \in Workspace
    BY DEF TypeOK, Manager
  <1>2. mgr' \in Manager /\ idOf' \in [Window -> WindowId \union {NoFocus}] /\ Identified'
    <2>1. PICK id \in WindowId : idOf' = [idOf EXCEPT ![w] = id] /\ mgr' = SetFocus(mgr, id)
      BY DEF NewToplevel
    <2> QED BY <2>1, ManagerType DEF NewToplevel, TypeOK, Identified, Alive
  <1>3. spaces' = [spaces EXCEPT ![mgr.active] = MapOnTop(@, w)]
    BY DEF NewToplevel
  <1>4. /\ spaces' \in [Workspace -> Seq(Window)] /\ NoDuplicates'
        /\ w \in ToSet(spaces'[mgr.active])
        /\ \A x \in Workspace : ToSet(spaces[x]) \subseteq ToSet(spaces'[x])
    BY <1>1, <1>3, MapStep
  <1>5. TypeOK'
    BY <1>2, <1>4 DEF NewToplevel, TypeOK
  <1>6. NeverLost'
    <2> SUFFICES ASSUME NEW v \in Window, Alive(v)'
                 PROVE  \E ws \in Workspace : v \in ToSet(spaces'[ws])
      BY DEF NeverLost
    <2>1. CASE v = w
      BY <2>1, <1>1, <1>4
    <2>2. CASE v # w
      BY <2>2, <1>4 DEF NeverLost, Alive, NewToplevel, TypeOK
    <2> QED BY <2>1, <2>2
  <1>7. DragHasWindow'
    BY DEF NewToplevel, DragHasWindow
  <1> QED BY <1>2, <1>4, <1>5, <1>6, <1>7

(* toplevel_destroyed: only the dead window leaves a space.                 *)
LEMMA LayoutToplevelDestroyed ==
  ASSUME Layout, NEW w \in Window, ToplevelDestroyed(w) PROVE Layout'
  <1> USE DEF Layout
  <1>1. mgr' \in Manager
    BY ManagerType DEF ToplevelDestroyed, TypeOK
  <1>2. /\ spaces' \in [Workspace -> Seq(Window)] /\ NoDuplicates'
        /\ \A x \in Workspace : ToSet(spaces[x]) \ {w} \subseteq ToSet(spaces'[x])
    <2>1. CASE UNCHANGED spaces
      BY <2>1 DEF TypeOK, NoDuplicates
    <2>2. CASE \E home \in Workspace : spaces' = [spaces EXCEPT ![home] = Unmap(@, w)]
      BY <2>2, UnmapStep
    <2> QED BY <2>1, <2>2 DEF ToplevelDestroyed
  <1>3. TypeOK'
    BY <1>1, <1>2 DEF ToplevelDestroyed, TypeOK
  <1>4. NeverLost'
    <2> SUFFICES ASSUME NEW v \in Window, Alive(v)'
                 PROVE  \E ws \in Workspace : v \in ToSet(spaces'[ws])
      BY DEF NeverLost
    <2>1. v # w /\ Alive(v)
      BY DEF ToplevelDestroyed, Alive, TypeOK
    <2> QED BY <2>1, <1>2 DEF NeverLost
  <1>5. DragHasWindow' /\ Identified'
    BY DEF ToplevelDestroyed, DragHasWindow, Identified, Alive, TypeOK
  <1> QED BY <1>2, <1>3, <1>4, <1>5

(* A drag or a click maps or raises a window in the active space.           *)
LEMMA LayoutPointer ==
  ASSUME Layout, NEW u \in MaybeWindow, PointerMotion(u) \/ ButtonPress(u) PROVE Layout'
  <1> USE DEF Layout
  <1>1. mgr.active \in Workspace
    BY DEF TypeOK, Manager
  <1>2. /\ spaces' \in [Workspace -> Seq(Window)] /\ NoDuplicates'
        /\ \A x \in Workspace : ToSet(spaces[x]) \subseteq ToSet(spaces'[x])
    <2>1. CASE UNCHANGED spaces
      BY <2>1 DEF TypeOK, NoDuplicates
    <2>2. CASE \E w \in Window : spaces' = [spaces EXCEPT ![mgr.active] = MapOnTop(@, w)]
      BY <2>2, <1>1, MapStep
    <2> QED BY <2>1, <2>2 DEF SurfaceUnder, PointerMotion, ButtonPress, DragHasWindow, MaybeWindow
  <1>3. PointerFocus \in MaybeWindow
    BY DEF PointerFocus, TypeOK, Grab, MaybeWindow
  <1>4. grab' \in Grab /\ DragHasWindow'
    BY <1>3 DEF SurfaceUnder, PointerMotion, ButtonPress, TypeOK, Grab, DragHasWindow, MaybeWindow
  <1>5. TypeOK'
    BY <1>2, <1>4 DEF SurfaceUnder, PointerMotion, ButtonPress, TypeOK
  <1>6. NeverLost' /\ Identified'
    BY <1>2 DEF NeverLost, Identified, Alive, SurfaceUnder, PointerMotion, ButtonPress
  <1> QED BY <1>2, <1>4, <1>5, <1>6

(* plan_move_focused and the re-map: the window found leaves one space and  *)
(* enters another in the same step.                                         *)
LEMMA LayoutMoveFocused ==
  ASSUME Layout, NEW target \in Target, MoveFocused(target) PROVE Layout'
  <1> USE DEF Layout
  <1>1. mgr.active \in Workspace /\ target \in Nat
    BY CountType DEF TypeOK, Manager, Target
  <1>2. mgr' \in Manager
    BY <1>1, ManagerType DEF MoveFocused, TypeOK
  <1> DEFINE Kept ==
        /\ spaces' \in [Workspace -> Seq(Window)] /\ NoDuplicates'
        /\ \A v \in Window : (\E x \in Workspace : v \in ToSet(spaces[x]))
                             => \E x \in Workspace : v \in ToSet(spaces'[x])
  <1>3. Kept
    <2>1. CASE UNCHANGED spaces
      BY <2>1 DEF TypeOK, NoDuplicates
    <2>2. ASSUME PlansMove(mgr, target), NEW w \in Find(ActiveSpace, FocusedId(mgr)),
                 spaces' = [spaces EXCEPT ![mgr.active] = Unmap(@, w),
                                          ![target] = MapOnTop(@, w)]
          PROVE  Kept
      <3>1. target \in Workspace /\ target # mgr.active
        BY <2>2, <1>1, CountType DEF PlansMove, Workspace
      <3>2. w \in Window
        BY DEF Find
      <3> QED BY <1>1, <2>2, <3>1, <3>2, MoveStep
    <2> QED BY <2>1, <2>2 DEF MoveFocused
  <1>4. TypeOK'
    BY <1>2, <1>3 DEF MoveFocused, TypeOK
  <1>5. NeverLost' /\ DragHasWindow' /\ Identified'
    BY <1>3 DEF NeverLost, DragHasWindow, Identified, Alive, MoveFocused
  <1> QED BY <1>3, <1>4, <1>5

(* Every other step leaves the spaces alone.                                *)
LEMMA LayoutOthers ==
  ASSUME Layout,
         \/ \E w \in Window : MoveRequest(w)
         \/ ButtonRelease \/ ButtonDropped \/ CloseFocused \/ Unlock
         \/ \E l \in Locker : LockRequest(l)
         \/ \E m \in Manager : Switch(m)
         \/ UNCHANGED vars
  PROVE  Layout'
  <1> USE DEF Layout, TypeOK, NoDuplicates, NeverLost, DragHasWindow, Identified, Alive, MaybeWindow
  <1>1. ASSUME NEW w \in Window, MoveRequest(w) PROVE Layout'
    BY <1>1 DEF MoveRequest, Grab
  <1>2. CASE ButtonRelease \/ ButtonDropped
    <2>1. held' \in BOOLEAN
      BY <1>2 DEF ButtonRelease, ButtonDropped
    <2>2. grab' \in Grab /\ DragHasWindow'
      BY <1>2 DEF ButtonRelease, ButtonDropped, NoGrab, Grab
    <2>3. UNCHANGED <<mgr, spaces, life, idOf, kbd, under, lock>>
      BY <1>2 DEF ButtonRelease, ButtonDropped
    <2> QED BY <2>1, <2>2, <2>3
  <1>3. CASE CloseFocused
    <2>1. PICK w \in Find(ActiveSpace, FocusedId(mgr)) :
            life[w] = "alive" /\ life' = [life EXCEPT ![w] = "closing"]
      BY <1>3 DEF CloseFocused
    <2>2. w \in Window
      BY DEF Find
    <2> QED BY <1>3, <2>1, <2>2 DEF CloseFocused
  <1>4. CASE Unlock
    <2>1. kbd' \in MaybeWindow
      <3>1. ActiveSpace \in Seq(Window)
        BY DEF Manager, ActiveSpace
      <3>2. ActiveSpace # <<>> => Last(ActiveSpace) \in Window
        BY <3>1, LastIsElement
      <3> QED BY <1>4, <3>2 DEF Unlock
    <2> QED BY <1>4, <2>1 DEF Unlock
  <1>5. ASSUME NEW l \in Locker, LockRequest(l) PROVE Layout'
    BY <1>5 DEF LockRequest
  <1>6. ASSUME NEW m \in Manager, Switch(m) PROVE Layout'
    BY <1>6 DEF Switch
  <1>7. CASE UNCHANGED vars
    BY <1>7 DEF vars
  <1> QED BY <1>1, <1>2, <1>3, <1>4, <1>5, <1>6, <1>7

(* What Next may do, with the keyboard's and the control socket's commands  *)
(* reduced to the operations they share.                                    *)
LEMMA NextCases ==
  ASSUME TypeOK, [Next]_vars
  PROVE  \/ \E w \in Window : NewToplevel(w) \/ ToplevelDestroyed(w)
         \/ \E u \in MaybeWindow : PointerMotion(u) \/ ButtonPress(u)
         \/ \E target \in Target : MoveFocused(target)
         \/ \E w \in Window : MoveRequest(w)
         \/ ButtonRelease \/ ButtonDropped \/ (~Locked /\ CloseFocused) \/ Unlock
         \/ \E l \in Locker : LockRequest(l)
         \/ \E m \in Manager : Switch(m) /\ m.focused = mgr.focused
         \/ UNCHANGED vars
  <1>1. mgr \in Manager
    BY DEF TypeOK
  <1>2. \A idx \in Target : SwitchTo(mgr, idx) \in Manager
    BY <1>1, ManagerType, CountType DEF Target
  <1>3. \A wrap \in BOOLEAN : SwitchNext(mgr, wrap) \in Manager /\ SwitchPrev(mgr, wrap) \in Manager
    BY <1>1, ManagerType
  <1>4. \A idx : SwitchTo(mgr, idx).focused = mgr.focused
    BY <1>1 DEF SwitchTo, Manager
  <1>5. \A wrap : SwitchNext(mgr, wrap).focused = mgr.focused
                /\ SwitchPrev(mgr, wrap).focused = mgr.focused
    BY <1>4 DEF SwitchNext, SwitchPrev
  <1>6. CASE Keybind
    BY <1>6, <1>2, <1>3, <1>4, <1>5 DEF Keybind
  <1>7. CASE IpcRequest
    BY <1>7, <1>2, <1>4 DEF IpcRequest
  <1> QED BY <1>6, <1>7 DEF Next

(* Every handler keeps the layout.                                          *)
LEMMA LayoutNext == Layout /\ [Next]_vars => Layout'
  <1> SUFFICES ASSUME Layout, [Next]_vars PROVE Layout'
    OBVIOUS
  <1>1. TypeOK
    BY DEF Layout
  <1> QED BY <1>1, NextCases, LayoutNewToplevel, LayoutToplevelDestroyed, LayoutPointer,
             LayoutMoveFocused, LayoutOthers

(* Every state is well-typed and no living window is lost, for any number   *)
(* of workspaces and windows and however the clients' protocol ids collide  *)
(* or are given out again (xdg_shell.rs, keybind.rs, move_grab.rs).         *)
THEOREM LayoutCorrect == Spec => [](TypeOK /\ NeverLost)
  <1>1. Layout => TypeOK /\ NeverLost
    BY DEF Layout
  <1> QED BY LayoutInit, LayoutNext, <1>1, PTL DEF Spec

-------------------------------------------------------------------------------
(* The session lock.                                                        *)

(* Every handler keeps the keyboard from windows while locked.              *)
LEMMA LockedKeyboardNext == TypeOK /\ LockedKeyboard /\ [Next]_vars => LockedKeyboard'
  <1> SUFFICES ASSUME TypeOK, LockedKeyboard, [Next]_vars PROVE LockedKeyboard'
    OBVIOUS
  <1> USE DEF LockedKeyboard, Locked
  <1>1. ASSUME NEW w \in Window, NewToplevel(w) \/ ToplevelDestroyed(w) \/ MoveRequest(w)
        PROVE  LockedKeyboard'
    BY <1>1 DEF NewToplevel, ToplevelDestroyed, MoveRequest
  <1>2. ASSUME NEW u \in MaybeWindow, PointerMotion(u) \/ ButtonPress(u)
        PROVE  LockedKeyboard'
    BY <1>2 DEF SurfaceUnder, PointerMotion, ButtonPress
  <1>3. CASE ButtonRelease \/ ButtonDropped \/ CloseFocused
    BY <1>3 DEF ButtonRelease, ButtonDropped, CloseFocused
  <1>4. CASE Unlock
    BY <1>4 DEF Unlock
  <1>5. ASSUME NEW l \in Locker, LockRequest(l) PROVE LockedKeyboard'
    BY <1>5 DEF LockRequest
  <1>6. ASSUME NEW m \in Manager, Switch(m) PROVE LockedKeyboard'
    BY <1>6 DEF Switch
  <1>7. ASSUME NEW target \in Target, MoveFocused(target) PROVE LockedKeyboard'
    BY <1>7 DEF MoveFocused
  <1>8. CASE UNCHANGED vars
    BY <1>8 DEF vars
  <1> QED BY <1>1, <1>2, <1>3, <1>4, <1>5, <1>6, <1>7, <1>8, NextCases

(* While the session is locked no window has the keyboard                   *)
(* (session_lock.rs, input/mod.rs).                                         *)
THEOREM LockedKeyboardCorrect == Spec => []LockedKeyboard
  <1>1. Init => LockedKeyboard
    BY DEF Init, LockedKeyboard
  <1> QED BY <1>1, LockedKeyboardNext, LayoutCorrect, PTL DEF Spec

-------------------------------------------------------------------------------
(* How windows enter spaces.                                                *)

(* A window comes into a space by being created there, by leaving the       *)
(* active space in the same step, or by being dragged (map_element's three  *)
(* callers); whether ids collide or grabs outlive a workspace switch.       *)
THEOREM EntersSpaceOnlyCorrect == Spec => EntersSpaceOnly
  <1> DEFINE A == \A w \in Window, ws \in Workspace :
       w \notin ToSet(spaces[ws]) /\ w \in ToSet(spaces'[ws]) =>
         \/ life[w] = "unborn"
         \/ w \in ToSet(ActiveSpace) /\ w \notin ToSet(spaces'[mgr.active])
         \/ grab.kind = "move" /\ grab.win = w /\ ws = mgr.active
  <1>1. Layout /\ [Next]_vars => [A]_vars
    <2> SUFFICES ASSUME Layout, [Next]_vars,
                        NEW v \in Window, NEW ws \in Workspace,
                        v \notin ToSet(spaces[ws]), v \in ToSet(spaces'[ws])
                 PROVE  \/ life[v] = "unborn"
                        \/ v \in ToSet(ActiveSpace) /\ v \notin ToSet(spaces'[mgr.active])
                        \/ grab.kind = "move" /\ grab.win = v /\ ws = mgr.active
      OBVIOUS
    <2> USE DEF Layout
    <2>1. TypeOK /\ NoDuplicates /\ mgr.active \in Workspace
      BY DEF TypeOK, Manager
    <2>2. ASSUME NEW w \in Window, NewToplevel(w) PROVE life[v] = "unborn"
      <3>1. spaces' = [spaces EXCEPT ![mgr.active] = MapOnTop(@, w)] /\ life[w] = "unborn"
        BY <2>2 DEF NewToplevel
      <3>2. ToSet(spaces'[ws]) \subseteq ToSet(spaces[ws]) \union {w}
        BY <2>1, <3>1, MapStep
      <3> QED BY <3>1, <3>2
    <2>3. ASSUME NEW w \in Window, ToplevelDestroyed(w) PROVE FALSE
      <3>1. CASE UNCHANGED spaces
        BY <3>1
      <3>2. ASSUME NEW home \in Workspace, spaces' = [spaces EXCEPT ![home] = Unmap(@, w)]
            PROVE  FALSE
        BY <2>1, <3>2, UnmapStep
      <3> QED BY <2>3, <3>1, <3>2 DEF ToplevelDestroyed
    <2>4. ASSUME NEW u \in MaybeWindow, PointerMotion(u)
          PROVE  grab.kind = "move" /\ grab.win = v /\ ws = mgr.active
      <3>1. grab.kind = "move" /\ spaces' = [spaces EXCEPT ![mgr.active] = MapOnTop(@, grab.win)]
        BY <2>4 DEF SurfaceUnder, PointerMotion
      <3>2. grab.win \in Window
        BY <3>1 DEF DragHasWindow
      <3>3. /\ ToSet(spaces'[mgr.active]) \subseteq ToSet(spaces[mgr.active]) \union {grab.win}
            /\ \A x \in Workspace : x # mgr.active => spaces'[x] = spaces[x]
        BY <2>1, <3>1, <3>2, MapStep
      <3> QED BY <3>1, <3>3
    <2>5. ASSUME NEW u \in MaybeWindow, ButtonPress(u) PROVE FALSE
      <3>1. CASE u = Nothing
        BY <2>5, <3>1 DEF SurfaceUnder, ButtonPress
      <3>2. CASE u # Nothing
        <4>1. u \in Window /\ u \in ToSet(spaces[mgr.active])
              /\ spaces' = [spaces EXCEPT ![mgr.active] = MapOnTop(@, u)]
          BY <2>5, <3>2 DEF SurfaceUnder, ButtonPress, ActiveSpace, MaybeWindow
        <4>2. /\ ToSet(spaces'[mgr.active]) \subseteq ToSet(spaces[mgr.active]) \union {u}
              /\ \A x \in Workspace : x # mgr.active => spaces'[x] = spaces[x]
          BY <2>1, <4>1, MapStep
        <4> QED BY <4>1, <4>2
      <3> QED BY <3>1, <3>2
    <2>6. ASSUME NEW target \in Target, MoveFocused(target)
          PROVE  v \in ToSet(ActiveSpace) /\ v \notin ToSet(spaces'[mgr.active])
      <3>1. PICK w \in Find(ActiveSpace, FocusedId(mgr)) :
              /\ PlansMove(mgr, target)
              /\ spaces' = [spaces EXCEPT ![mgr.active] = Unmap(@, w), ![target] = MapOnTop(@, w)]
        BY <2>6 DEF MoveFocused
      <3>2. target \in Workspace /\ target # mgr.active
        BY <2>1, <3>1, CountType DEF PlansMove, Workspace, Target
      <3>3. w \in Window /\ w \in ToSet(ActiveSpace)
        BY <2>1, FindProperties DEF TypeOK, ActiveSpace
      <3>4. /\ w \notin ToSet(spaces'[mgr.active])
            /\ \A x \in Workspace : x # target => ToSet(spaces'[x]) \subseteq ToSet(spaces[x])
            /\ ToSet(spaces'[target]) = ToSet(spaces[target]) \union {w}
        BY <2>1, <3>1, <3>2, <3>3, MoveStep
      <3> QED BY <3>3, <3>4
    <2>7. ASSUME \/ \E w \in Window : MoveRequest(w)
                 \/ ButtonRelease \/ ButtonDropped \/ CloseFocused \/ Unlock
                 \/ \E l \in Locker : LockRequest(l)
                 \/ \E m \in Manager : Switch(m)
                 \/ UNCHANGED vars
          PROVE  FALSE
      <3>1. UNCHANGED spaces
        BY <2>7 DEF MoveRequest, ButtonRelease, ButtonDropped, CloseFocused, Unlock,
                    LockRequest, Switch, vars
      <3> QED BY <3>1
    <2> QED BY <2>1, <2>2, <2>3, <2>4, <2>5, <2>6, <2>7, NextCases
  <1> QED BY <1>1, LayoutInit, LayoutNext, PTL DEF Spec, EntersSpaceOnly

-------------------------------------------------------------------------------
(* Focus slots, whatever ids the clients' windows have.                     *)

(* A window that is found by an id of its own is found wherever it is.      *)
LEMMA FindSole ==
  ASSUME TypeOK, NoDuplicates, NEW v \in Window, SoleId(v), v \in ToSet(ActiveSpace)
  PROVE  Find(ActiveSpace, idOf[v]) = {v}
  <1> DEFINE id == idOf[v]
  <1>1. mgr.active \in Workspace
    BY DEF TypeOK, Manager
  <1>2. \A u \in ToSet(ActiveSpace) : idOf[u] = id => u = v
    BY <1>1 DEF SoleId, ActiveSpace
  <1>3. Find(ActiveSpace, id) \subseteq {v}
    BY <1>2 DEF Find, ToSet
  <1>4. ActiveSpace \in Seq(Window) /\ IsInjective(ActiveSpace)
    BY <1>1 DEF TypeOK, NoDuplicates, ActiveSpace
  <1>5. PICK k \in DOMAIN ActiveSpace : ActiveSpace[k] = v
    BY DEF ToSet
  <1>6. DOMAIN ActiveSpace = 1..Len(ActiveSpace) /\ Len(ActiveSpace) \in Nat
    BY <1>4
  <1>7. ASSUME NEW j \in 1..(k - 1) PROVE idOf[ActiveSpace[j]] # id
    <2>1. j \in DOMAIN ActiveSpace /\ j # k
      BY <1>5, <1>6
    <2>2. ActiveSpace[j] # v /\ ActiveSpace[j] \in ToSet(ActiveSpace)
      BY <2>1, <1>4, <1>5 DEF IsInjective, ToSet
    <2> QED BY <2>2, <1>2
  <1>8. v \in Find(ActiveSpace, id)
    BY <1>5, <1>7 DEF Find
  <1> QED BY <1>3, <1>8

(* new_toplevel sets the active slot to an id that is not v's.              *)
LEMMA SlotNewToplevel ==
  ASSUME Layout, NEW w \in Window, NewToplevel(w),
         NEW v \in Window, Alive(v), SlotsAtHome(v), SoleId(v)'
  PROVE  SlotsAtHome(v)'
  <1> USE DEF Layout
  <1>1. TypeOK /\ NoDuplicates /\ mgr.active \in Workspace /\ mgr \in Manager
    BY DEF TypeOK, Manager
  <1>2. PICK id \in WindowId : idOf' = [idOf EXCEPT ![w] = id] /\ mgr' = SetFocus(mgr, id)
    BY DEF NewToplevel
  <1>3. spaces' = [spaces EXCEPT ![mgr.active] = MapOnTop(@, w)]
    BY DEF NewToplevel
  <1>4. /\ w \in ToSet(spaces'[mgr.active])
        /\ \A x \in Workspace : ToSet(spaces[x]) \subseteq ToSet(spaces'[x])
    BY <1>1, <1>3, MapStep
  <1>5. v # w
    BY DEF NewToplevel, Alive
  <1>6. idOf'[v] = idOf[v] /\ idOf'[w] = id
    BY <1>1, <1>2, <1>5 DEF TypeOK
  <1>7. id # idOf'[v]
    BY <1>1, <1>4, <1>5, <1>6 DEF SoleId
  <1>8. \A x \in Workspace : mgr'.focused[x] = IF x = mgr.active THEN id ELSE mgr.focused[x]
    BY <1>1, <1>2 DEF SetFocus, Manager
  <1> QED BY <1>4, <1>6, <1>7, <1>8 DEF SlotsAtHome

(* A destroyed window leaves one space; slots are only cleared.             *)
LEMMA SlotToplevelDestroyed ==
  ASSUME Layout, NEW w \in Window, ToplevelDestroyed(w),
         NEW v \in Window, Alive(v), SlotsAtHome(v), Alive(v)'
  PROVE  SlotsAtHome(v)'
  <1> USE DEF Layout
  <1>1. TypeOK /\ NoDuplicates /\ mgr.active \in Workspace /\ mgr \in Manager
    BY DEF TypeOK, Manager
  <1>2. \A x \in Workspace : ToSet(spaces[x]) \ {w} \subseteq ToSet(spaces'[x])
    <2>1. CASE UNCHANGED spaces
      BY <2>1
    <2>2. ASSUME NEW home \in Workspace, spaces' = [spaces EXCEPT ![home] = Unmap(@, w)]
          PROVE  \A x \in Workspace : ToSet(spaces[x]) \ {w} \subseteq ToSet(spaces'[x])
      BY <1>1, <2>2, UnmapStep
    <2> QED BY <2>1, <2>2 DEF ToplevelDestroyed
  <1>3. \A x \in Workspace : mgr'.focused[x] \in {mgr.focused[x], NoFocus}
    BY <1>1 DEF ToplevelDestroyed, SetFocus, Manager
  <1>4. idOf' = idOf /\ idOf[v] # NoFocus
    BY NoFocusAssumption DEF ToplevelDestroyed, Identified
  <1>5. v # w
    BY <1>1 DEF ToplevelDestroyed, TypeOK, Alive
  <1> QED BY <1>2, <1>3, <1>4, <1>5 DEF SlotsAtHome

(* A move takes the slot and the window to the same workspace.              *)
LEMMA SlotMoveFocused ==
  ASSUME Layout, NEW target \in Target, MoveFocused(target),
         NEW v \in Window, Alive(v), SoleId(v), SlotsAtHome(v)
  PROVE  SlotsAtHome(v)'
  <1> USE DEF Layout
  <1> DEFINE id == FocusedId(mgr)
  <1>1. TypeOK /\ NoDuplicates /\ mgr.active \in Workspace /\ mgr \in Manager
    BY DEF TypeOK, Manager
  <1>2. idOf' = idOf /\ idOf[v] # NoFocus
    BY NoFocusAssumption DEF MoveFocused, Identified
  <1>3. CASE ~PlansMove(mgr, target)
    BY <1>3, <1>2 DEF MoveFocused, PlanMove, SlotsAtHome
  <1>4. CASE PlansMove(mgr, target)
    <2>1. target \in Workspace /\ target # mgr.active
      BY <1>1, <1>4, CountType DEF PlansMove, Workspace, Target
    <2>2. /\ mgr'.focused[mgr.active] = NoFocus
          /\ mgr'.focused[target] = id
          /\ \A x \in Workspace \ {mgr.active, target} : mgr'.focused[x] = mgr.focused[x]
      BY <1>1, <1>4, <2>1 DEF MoveFocused, PlanMove, Manager, FocusedId
    <2> SUFFICES ASSUME NEW ws \in Workspace, mgr'.focused[ws] = idOf[v]
                 PROVE  v \in ToSet(spaces'[ws])
      BY <1>2 DEF SlotsAtHome
    <2>3. CASE ws = mgr.active
      BY <2>3, <2>2, <1>2
    <2>4. CASE ws = target
      <3>1. idOf[v] = id
        BY <2>4, <2>2
      <3>2. v \in ToSet(ActiveSpace)
        BY <3>1, <1>1 DEF SlotsAtHome, FocusedId, ActiveSpace
      <3>3. Find(ActiveSpace, id) = {v}
        BY <3>1, <3>2, <1>1, FindSole
      <3>4. spaces' = [spaces EXCEPT ![mgr.active] = Unmap(@, v), ![target] = MapOnTop(@, v)]
        BY <3>3, <1>4 DEF MoveFocused
      <3>5. v \in ToSet(spaces'[target])
        BY <3>4, <1>1, <2>1, MoveStep
      <3> QED BY <2>4, <3>5
    <2>5. CASE ws \notin {mgr.active, target}
      <3>1. v \in ToSet(spaces[ws])
        BY <2>5, <2>2 DEF SlotsAtHome
      <3>2. ToSet(spaces[ws]) \subseteq ToSet(spaces'[ws])
        <4>1. CASE UNCHANGED spaces
          BY <4>1
        <4>2. ASSUME NEW w \in Find(ActiveSpace, FocusedId(mgr)),
                     spaces' = [spaces EXCEPT ![mgr.active] = Unmap(@, w),
                                              ![target] = MapOnTop(@, w)]
              PROVE  ToSet(spaces[ws]) \subseteq ToSet(spaces'[ws])
          <5>1. w \in Window
            BY DEF Find
          <5> QED BY <2>5, <4>2, <5>1, <1>1, <2>1, MoveStep
        <4> QED BY <4>1, <4>2 DEF MoveFocused
      <3> QED BY <3>1, <3>2
    <2> QED BY <2>3, <2>4, <2>5
  <1> QED BY <1>3, <1>4

(* The steps that change no slot and take no window out of a space.         *)
LEMMA SlotOthers ==
  ASSUME Layout,
         \/ \E u \in MaybeWindow : PointerMotion(u) \/ ButtonPress(u)
         \/ \E w \in Window : MoveRequest(w)
         \/ ButtonRelease \/ ButtonDropped \/ CloseFocused \/ Unlock
         \/ \E l \in Locker : LockRequest(l)
         \/ \E m \in Manager : Switch(m) /\ m.focused = mgr.focused
         \/ UNCHANGED vars,
         NEW v \in Window, SlotsAtHome(v)
  PROVE  SlotsAtHome(v)'
  <1> USE DEF Layout
  <1>1. TypeOK /\ NoDuplicates /\ mgr.active \in Workspace
    BY DEF TypeOK, Manager
  <1>2. mgr'.focused = mgr.focused /\ idOf' = idOf
    BY DEF SurfaceUnder, PointerMotion, ButtonPress, MoveRequest, ButtonRelease, ButtonDropped,
           CloseFocused, Unlock, LockRequest, Switch, vars
  <1>3. \A x \in Workspace : ToSet(spaces[x]) \subseteq ToSet(spaces'[x])
    <2>1. CASE UNCHANGED spaces
      BY <2>1
    <2>2. ASSUME NEW w \in Window, spaces' = [spaces EXCEPT ![mgr.active] = MapOnTop(@, w)]
          PROVE  \A x \in Workspace : ToSet(spaces[x]) \subseteq ToSet(spaces'[x])
      BY <1>1, <2>2, MapStep
    <2> QED BY <2>1, <2>2
         DEF SurfaceUnder, PointerMotion, ButtonPress, MoveRequest, ButtonRelease, ButtonDropped,
             CloseFocused, Unlock, LockRequest, Switch, vars, DragHasWindow, MaybeWindow
  <1> QED BY <1>2, <1>3 DEF SlotsAtHome

(* As long as a window's protocol id is its own, no handler sets or leaves  *)
(* a focus slot naming it in a workspace that does not hold it:             *)
(* plan_move_focused's bookkeeping and the later re-map never come apart,   *)
(* whatever other windows' ids collide or are given out again               *)
(* (workspace.rs, keybind.rs, xdg_shell.rs).                                *)
THEOREM SlotStaysHomeCorrect == Spec => SlotStaysHome
  <1> DEFINE A ==
        \A w \in Window :
          /\ Alive(w) /\ SoleId(w) /\ SlotsAtHome(w)
          /\ Alive(w)' /\ SoleId(w)'
          => SlotsAtHome(w)'
  <1>1. Layout /\ [Next]_vars => [A]_vars
    <2> SUFFICES ASSUME Layout, [Next]_vars, NEW v \in Window,
                        Alive(v), SoleId(v), SlotsAtHome(v), Alive(v)', SoleId(v)'
                 PROVE  SlotsAtHome(v)'
      OBVIOUS
    <2>1. TypeOK
      BY DEF Layout
    <2>2. CASE \E w \in Window : NewToplevel(w)
      BY <2>2, SlotNewToplevel
    <2>3. CASE \E w \in Window : ToplevelDestroyed(w)
      BY <2>3, SlotToplevelDestroyed
    <2>4. CASE \E target \in Target : MoveFocused(target)
      BY <2>4, SlotMoveFocused
    <2>5. CASE \/ \E u \in MaybeWindow : PointerMotion(u) \/ ButtonPress(u)
               \/ \E w \in Window : MoveRequest(w)
               \/ ButtonRelease \/ ButtonDropped \/ CloseFocused \/ Unlock
               \/ \E l \in Locker : LockRequest(l)
               \/ \E m \in Manager : Switch(m) /\ m.focused = mgr.focused
               \/ UNCHANGED vars
      BY <2>5, SlotOthers
    <2> QED BY <2>1, <2>2, <2>3, <2>4, <2>5, NextCases
  <1> QED BY <1>1, LayoutInit, LayoutNext, PTL DEF Spec, SlotStaysHome

(* Every variable keeps its type, whatever the handlers and threads do.     *)
THEOREM TypeCorrect == Spec => []TypeOK
  BY LayoutCorrect, PTL

===============================================================================

------------------------------- MODULE LauncherWindow -------------------------------
(***************************************************************************)
(* The launcher between its lock (LauncherLock) and its end: the scan of    *)
(* the desktop entries, the query and its results, the selection and what   *)
(* Enter launches.  How well a query matches a name is a constant; pixels   *)
(* are left out, but not which result was drawn last as the selected one.   *)
(***************************************************************************)
EXTENDS Integers, FiniteSets, SequencesExt

CONSTANTS
  Entry,     (* desktop entries: name, key (the place of the name in lower    *)
             (* case in the alphabet), home (below $HOME), only and deny (the *)
             (* desktops of OnlyShowIn, as a set of none or one set, and of   *)
             (* NotShowIn); one that cannot be read, has no command or has    *)
             (* NoDisplay is as good as absent                                *)
  MaxFiles,  (* bound: entries on disk                                        *)
  Desktops,  (* possible values of XDG_CURRENT_DESKTOP                        *)
  Query,     (* what may be typed; "" is the empty query                      *)
  Score,     (* Score[query][name], 0 where the query does not match          *)
  Limit      (* results asked for: 8                                          *)

VARIABLES
  files,    (* the entries in the order the directories are read              *)
  current,  (* XDG_CURRENT_DESKTOP                                            *)
  apps,     (* the result of scan                                             *)
  query, selected,
  configured, should_close,
  shown,    (* the entry highlighted by the last frame, as a set              *)
  stale,    (* the last redraw gave up                                        *)
  launched  (* the entry launched last, as a set                              *)

disk == <<files, current, apps>>
vars == <<disk, query, selected, configured, should_close, shown, stale, launched>>

-------------------------------------------------------------------------------
(* apps.rs.                                                                 *)

(* Hidden is not asked for.                                                 *)
VisibleIn(e) ==
  /\ \A allowed \in e.only : allowed \intersect current # {}
  /\ e.deny \intersect current = {}

MoreSpecific(new, old) == new.home /\ ~old.home

(* Mutant of Insert: the last writer wins.                                  *)
InsertLast(byName, e) ==
  IF ~VisibleIn(e) THEN byName ELSE {o \in byName : o.name # e.name} \union {e}

(* One turn of scan's loop on the entries kept so far, one per name.        *)
Insert(byName, e) ==
  LET old == {o \in byName : o.name = e.name} IN
  IF VisibleIn(e) /\ \A o \in old : MoreSpecific(e, o) THEN (byName \ old) \union {e} ELSE byName

(* scan: one entry of each name, by the names in lower case; names that     *)
(* differ in nothing else come in the order of the HashMap, which is any.   *)
Kept == FoldLeft(Insert, {}, files)
Scan == {list \in SetToSeqs(Kept) :
          \A j, k \in DOMAIN list : j < k => list[j].key <= list[k].key}

-------------------------------------------------------------------------------
(* search.rs: the best first, of equal ones the first in the list (the      *)
(* order as SetToSortSeq has it; its SortSeq is beyond the provers).        *)
Results(q) ==
  LET score(k) == IF q = "" THEN 1 ELSE Score[q][apps[k].name]
      matches == {k \in DOMAIN apps : score(k) > 0}
      before(j, k) == score(j) > score(k) \/ (score(j) = score(k) /\ j < k)
      ranked == CHOOSE order \in [1..Cardinality(matches) -> matches] :
                  \A j, k \in DOMAIN order : j < k => before(order[j], order[k])
  IN [k \in 1..(IF Len(ranked) < Limit THEN Len(ranked) ELSE Limit) |-> apps[ranked[k]]]

Highlighted(q, s) == IF s + 1 \in DOMAIN Results(q) THEN {Results(q)[s + 1]} ELSE {}

-------------------------------------------------------------------------------
Init ==
  /\ files \in BoundedSeq(Entry, MaxFiles)
  /\ current \in Desktops
  /\ apps \in Scan
  /\ query = "" /\ selected = 0
  /\ configured = FALSE /\ should_close = FALSE
  /\ shown = {} /\ stale = FALSE
  /\ launched = {}

(* redraw may find no buffer.                                               *)
Redraw ==
  IF ~configured' THEN UNCHANGED <<shown, stale>>
  ELSE \/ shown' = Highlighted(query', selected') /\ stale' = FALSE
       \/ UNCHANGED shown /\ stale' = TRUE

Configure ==
  /\ configured' = TRUE
  /\ UNCHANGED <<disk, query, selected, should_close, launched>>
  /\ Redraw

(* Mutant of Edit: the selection stays.                                     *)
EditKeepsSelection ==
  /\ query' \in Query
  /\ UNCHANGED <<disk, selected, configured, should_close, launched>>
  /\ Redraw

(* Text and Backspace.                                                      *)
Edit ==
  /\ query' \in Query
  /\ selected' = 0
  /\ UNCHANGED <<disk, configured, should_close, launched>>
  /\ Redraw

Up ==
  /\ selected > 0
  /\ selected' = selected - 1
  /\ UNCHANGED <<disk, query, configured, should_close, launched>>
  /\ Redraw

Down ==
  /\ selected + 1 < Len(Results(query))
  /\ selected' = selected + 1
  /\ UNCHANGED <<disk, query, configured, should_close, launched>>
  /\ Redraw

(* Enter: the list is made again; a second Enter of the same batch launches *)
(* a second time.                                                           *)
Enter ==
  /\ launched' = Highlighted(query, selected)
  /\ should_close' = TRUE
  /\ UNCHANGED <<disk, query, selected, configured, shown, stale>>

(* Escape, or the compositor closes the layer surface.  run's loop ends     *)
(* after the batch, or because dispatching failed: the rest is stuttering.  *)
Close ==
  /\ should_close' = TRUE
  /\ UNCHANGED <<disk, query, selected, configured, shown, stale, launched>>

Next == Configure \/ Edit \/ Up \/ Down \/ Enter \/ Close

Spec == Init /\ [][Next]_vars

-------------------------------------------------------------------------------
(* Type correctness of every variable.                                      *)
TypeOK ==
  /\ files \in Seq(Entry) /\ apps \in Seq(Entry) /\ current \in Desktops
  /\ query \in Query /\ selected \in 0..(Limit - 1)
  /\ configured \in BOOLEAN /\ should_close \in BOOLEAN /\ stale \in BOOLEAN
  /\ shown \subseteq Entry /\ launched \subseteq Entry

(* Enter launches what the last frame highlighted, whatever was typed and   *)
(* selected before, unless the last redraw was given up; and it launches    *)
(* something whenever anything matches.                                     *)
EnterLaunchesShown ==
  [][Enter => /\ configured /\ ~stale => launched' = shown
              /\ Results(query) # <<>> => launched' # {}]_vars

(* The list has each visible name once, sorted but for case, and of every   *)
(* name the user's own entry where there is a visible one, else the first   *)
(* directory's.                                                             *)
OverridesWin ==
  LET visible == {k \in DOMAIN files : VisibleIn(files[k])}
      wins(j, k) == IF files[j].home = files[k].home THEN j < k ELSE files[j].home
      winners == {j \in visible :
                   \A k \in visible \ {j} : files[k].name = files[j].name => wins(j, k)}
  IN /\ ToSet(apps) = {files[j] : j \in winners}
     /\ \A j, k \in DOMAIN apps :
          j < k => apps[j].name # apps[k].name /\ apps[j].key <= apps[k].key
===============================================================================

------------------------------- MODULE MCPrograms -------------------------------
(* Small instances of the programs' constants.                              *)
EXTENDS Programs, MCLauncherLock

(* Desktop entries: of one name the system's and two of the user's, one of  *)
(* them not for GNOME, and two of other names, alike but for case, one of   *)
(* them for GNOME only; "x" matches every name, "xy" the second one.        *)
Wish(n, own) ==
  [name |-> n, key |-> IF n = 1 THEN 1 ELSE 2, home |-> own, only |-> {}, deny |-> {}]
Entries == {
  Wish(1, FALSE), Wish(1, TRUE), [Wish(1, TRUE) EXCEPT !.deny = {"GNOME"}],
  [Wish(2, FALSE) EXCEPT !.only = {{"GNOME"}}], Wish(3, TRUE)}
Scores == [x |-> <<1, 2, 3>>, xy |-> <<0, 1, 0>>]
===============================================================================

---------------------------- MODULE MCLauncherLock ----------------------------
(* Three launchers.  A new file is created only when the other launchers   *)
(* have at most two files open, so three inodes never run out.             *)
EXTENDS LauncherLock

CONSTANTS p1, p2, p3, i1, i2, i3

Launchers == {p1, p2, p3}
Inodes == {i1, i2, i3}
===============================================================================

---------------------------------- MODULE History ----------------------------------
(***************************************************************************)
(* The notification history of nx-notif on disk: notifications.json, which  *)
(* every Notify appends a line to, and notifications.json.0, which it is    *)
(* renamed to when it has grown past HISTORY_CAP.  The daemon may be killed *)
(* between any two steps and started again, and any step but a write of a   *)
(* whole line may fail.  Lines are numbered by the order they were written  *)
(* and may be of any length: whether a line makes the file too long is left *)
(* open.  The copy in memory (cached), which nothing reads, is left out.    *)
(***************************************************************************)
EXTENDS Integers, SequencesExt

CONSTANTS
  Recent,       (* 256: the lines a rotation carries over                     *)
  MaxLines      (* bound: lines written                                       *)

HistoryAssumption == Recent \in Nat /\ MaxLines \in Nat

VARIABLES
  current,  (* the lines of notifications.json                                *)
  exists,   (* there is such a file                                           *)
  toolong,  (* it has grown past HISTORY_CAP                                  *)
  rotated,  (* the lines of notifications.json.0                              *)
  handle,   (* the file the daemon's descriptor stands for                    *)
  written,  (* lines written so far                                           *)
  replay,   (* lines a rotation has still to carry over                       *)
  pc,       (* the daemon: down, idle, or at a step of rotate                 *)
  short,    (* (history) lines to be written until notifications.json has the *)
            (* Recent newest again, when a rotation broke off                 *)
  torn      (* (history) a rotation was begun while it was short of them      *)

disk == <<current, exists, toolong, rotated>>
ghosts == <<short, torn>>
vars == <<disk, handle, written, replay, pc, ghosts>>

Init ==
  /\ current = <<>> /\ exists = FALSE /\ toolong = FALSE
  /\ rotated = <<>>
  /\ handle = "none"
  /\ written = 0
  /\ replay = <<>>
  /\ pc = "down"
  /\ short = 0 /\ torn = FALSE

Newest(lines) == IF Len(lines) <= Recent THEN lines
                 ELSE SubSeq(lines, Len(lines) - Recent + 1, Len(lines))

(* open_or_create.                                                          *)
Open ==
  /\ pc = "down"
  /\ exists' = TRUE
  /\ handle' = "current"
  /\ pc' = "idle"
  /\ UNCHANGED <<current, toolong, rotated, written, replay, ghosts>>

(* append: one line at the end of the descriptor's file, wherever that file *)
(* is now; the rotated one was too long when it was renamed.                *)
WriteLine ==
  /\ pc = "idle"
  /\ written < MaxLines
  /\ written' = written + 1
  /\ \/ /\ handle = "current"
        /\ current' = Append(current, written')
        /\ toolong' \in {toolong, TRUE}
        /\ pc' = IF toolong' THEN "rename" ELSE "idle"
        /\ short' = IF short = 0 THEN 0 ELSE short - 1
        /\ UNCHANGED rotated
     \/ /\ handle = "rotated"
        /\ rotated' = Append(rotated, written')
        /\ pc' = "rename"
        /\ UNCHANGED <<current, toolong, short>>
  /\ UNCHANGED <<exists, handle, replay, torn>>

(* rotate: a step that fails ends it.                                       *)
RotateFails ==
  /\ pc \in {"rename", "reopen", "replay"}
  /\ pc' = "idle"
  /\ replay' = <<>>
  /\ UNCHANGED <<disk, handle, written, ghosts>>

(* The descriptor follows the file to its new name.                         *)
Rename ==
  /\ pc = "rename"
  /\ exists
  /\ rotated' = current
  /\ current' = <<>> /\ exists' = FALSE /\ toolong' = FALSE
  /\ handle' = "rotated"
  /\ pc' = "reopen"
  /\ torn' = (torn \/ short > 0)
  /\ short' = Recent
  /\ UNCHANGED <<written, replay>>

Reopen ==
  /\ pc = "reopen"
  /\ exists' = TRUE
  /\ handle' = "current"
  /\ replay' = Newest(rotated)
  /\ pc' = "replay"
  /\ UNCHANGED <<current, toolong, rotated, written, ghosts>>

(* Mutant of Replay: the newest lines are carried over in reverse.          *)
ReplayReversed ==
  /\ pc = "replay"
  /\ \/ /\ replay = <<>>
        /\ pc' = "idle"
        /\ short' = 0
        /\ UNCHANGED <<current, toolong, replay>>
     \/ /\ replay # <<>>
        /\ current' = Append(current, Last(replay))
        /\ toolong' \in {toolong, TRUE}
        /\ replay' = Front(replay)
        /\ UNCHANGED <<pc, short>>
  /\ UNCHANGED <<exists, rotated, handle, written, torn>>

(* Whether the file is too long already is looked at after the next line.   *)
Replay ==
  /\ pc = "replay"
  /\ \/ /\ replay = <<>>
        /\ pc' = "idle"
        /\ short' = 0
        /\ UNCHANGED <<current, toolong, replay>>
     \/ /\ replay # <<>>
        /\ current' = Append(current, Head(replay))
        /\ toolong' \in {toolong, TRUE}
        /\ replay' = Tail(replay)
        /\ UNCHANGED <<pc, short>>
  /\ UNCHANGED <<exists, rotated, handle, written, torn>>

Crash ==
  /\ pc # "down"
  /\ pc' = "down"
  /\ handle' = "none"
  /\ replay' = <<>>
  /\ UNCHANGED <<disk, written, ghosts>>

Next ==
  \/ Open \/ WriteLine
  \/ Rename \/ Reopen \/ Replay \/ RotateFails
  \/ Crash

Spec == Init /\ [][Next]_vars

-------------------------------------------------------------------------------
(* Type correctness of every variable.                                      *)
TypeOK ==
  /\ current \in Seq(1..MaxLines) /\ rotated \in Seq(1..MaxLines)
  /\ exists \in BOOLEAN /\ toolong \in BOOLEAN
  /\ handle \in {"none", "current", "rotated"}
  /\ written \in 0..MaxLines
  /\ replay \in Seq(1..MaxLines)
  /\ pc \in {"down", "idle", "rename", "reopen", "replay"}
  /\ short \in 0..Recent /\ torn \in BOOLEAN

RecentLines == {n \in 1..written : n > written - Recent}

(* Whenever the daemon is killed, whichever step of a rotation fails and    *)
(* however long the lines are, each file is in order and the Recent newest  *)
(* lines are in the two files; unless a rotation was begun fewer than       *)
(* Recent lines after an earlier one had broken off.                        *)
RecentOnDisk ==
  /\ \A lines \in {current, rotated} : \A j, k \in DOMAIN lines : j < k => lines[j] < lines[k]
  /\ torn \/ RecentLines \subseteq ToSet(current) \union ToSet(rotated)

===============================================================================

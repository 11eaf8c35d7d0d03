--------------------------------- MODULE Settings ---------------------------------
(***************************************************************************)
(* One nx-settings process and what FRAME does with its Reload.Config.      *)
(* Every Enter spawns a task of its own that connects, sends one request,   *)
(* waits for the reply and writes the status line, while keys keep coming   *)
(* and the user's editor keeps saving frame.toml, sometimes a version that  *)
(* cannot be read or parsed.  A file is a version number here; sections,    *)
(* texts and drawing are left out, but not which status was drawn last.     *)
(***************************************************************************)
EXTENDS Integers, Sequences

CONSTANTS
  MaxSaves,    (* bound: times frame.toml is saved                            *)
  MaxReloads   (* bound: times Enter is pressed                               *)

VARIABLES
  status,        (* UiState.status, which the tasks share with the window     *)
  shown,         (* the status drawn last                                     *)
  configured, should_close,
  ended,         (* run has returned and the tasks with it                    *)
  tasks,         (* the reload tasks in the order of their Enter              *)
  file,          (* version of frame.toml                                     *)
  good,          (* the versions saved so far that FRAME can load             *)
  config         (* the version in force in FRAME, or Fallback                *)

window == <<shown, configured, should_close, ended>>
disk == <<file, good>>
vars == <<window, status, tasks, disk, config>>

(* The next path's file, or the defaults: in force where frame.toml could   *)
(* not be loaded.                                                           *)
Fallback == -1

Running == {"connecting", "sent", "replied"}
Task == [state : Running \union {"done", "failed"}, saved : 0..MaxSaves]

(* FrameConfig::load: a file that cannot be read or parsed is passed over.  *)
Loaded == IF file \in good THEN file ELSE Fallback

Init ==
  /\ status = "none" /\ shown = "none"
  /\ configured = FALSE /\ should_close = FALSE /\ ended = FALSE
  /\ tasks = <<>>
  /\ file = 0 /\ good \in SUBSET {0}
  /\ config = Loaded

-------------------------------------------------------------------------------
(* The window's thread.                                                     *)

(* redraw paints the status as it is now; it may find no buffer.            *)
Redraw == shown' \in IF configured' THEN {shown, status'} ELSE {shown}

Configure ==
  /\ ~ended
  /\ configured' = TRUE
  /\ UNCHANGED <<should_close, ended, status, tasks, disk, config>>
  /\ Redraw

(* Up and Down: another section, with the same status line.                 *)
ChangeSection ==
  /\ ~ended
  /\ UNCHANGED <<configured, should_close, ended, status, tasks, disk, config>>
  /\ Redraw

(* Enter: the status line and a task.                                       *)
Enter ==
  /\ ~ended
  /\ Len(tasks) < MaxReloads
  /\ status' = "reloading"
  /\ tasks' = Append(tasks, [state |-> "connecting", saved |-> file])
  /\ UNCHANGED <<configured, should_close, ended, disk, config>>
  /\ Redraw

(* Escape, or the compositor's close.                                       *)
Close ==
  /\ ~ended
  /\ should_close' = TRUE
  /\ UNCHANGED <<configured, ended, status, tasks, disk, config>>
  /\ Redraw

(* run returns after a close, or because dispatching failed.                *)
Leave ==
  /\ ~ended
  /\ ended' = TRUE
  /\ UNCHANGED <<shown, configured, should_close, status, tasks, disk, config>>

-------------------------------------------------------------------------------
(* The reload tasks and FRAME's main thread.                                *)

Advance(t, from, to) ==
  /\ tasks[t].state = from
  /\ tasks' = [tasks EXCEPT ![t].state = to]

TaskSends(t) ==
  /\ ~ended
  /\ Advance(t, "connecting", "sent")
  /\ UNCHANGED <<window, status, disk, config>>

(* Mutant of FrameReloads: of several requests only the last one is         *)
(* honoured, the others are answered at once.                               *)
FrameCoalesces(t) ==
  /\ Advance(t, "sent", "replied")
  /\ config' = IF \E u \in DOMAIN tasks : u > t /\ tasks[u].state = "sent" THEN config ELSE Loaded
  /\ UNCHANGED <<window, status, disk>>

(* FRAME loads the configuration when it handles the request, and answers   *)
(* Ok whatever it found; the process that asked may be gone.                *)
FrameReloads(t) ==
  /\ Advance(t, "sent", "replied")
  /\ config' = Loaded
  /\ UNCHANGED <<window, status, disk>>

(* The task writes the status line; nobody redraws it.                      *)
TaskReports(t) ==
  /\ ~ended
  /\ Advance(t, "replied", "done")
  /\ status' = "reloaded"
  /\ UNCHANGED <<window, disk, config>>

(* No connection, or one that is lost, before FRAME has handled the request  *)
(* or after.                                                                *)
TaskFails(t) ==
  /\ ~ended
  /\ \E from \in Running : Advance(t, from, "failed")
  /\ status' = "failed"
  /\ UNCHANGED <<window, disk, config>>

(* Mutant of TaskStep: another Enter aborts the task before.                *)
TaskStepNewest(t) ==
  /\ t = Len(tasks)
  /\ TaskSends(t) \/ FrameReloads(t) \/ TaskReports(t) \/ TaskFails(t)

TaskStep(t) == TaskSends(t) \/ FrameReloads(t) \/ TaskReports(t) \/ TaskFails(t)

(* The user's editor.                                                       *)
Save ==
  /\ file < MaxSaves
  /\ file' = file + 1
  /\ good' \in {good, good \union {file'}}
  /\ UNCHANGED <<window, status, tasks, config>>

Next ==
  \/ Configure \/ ChangeSection \/ Enter \/ Close \/ Leave
  \/ \E t \in DOMAIN tasks : TaskStep(t)
  \/ Save

Spec == Init /\ [][Next]_vars

(* tokio runs every task that can run, and FRAME answers every request or   *)
(* the connection breaks (ControlIpc).                                      *)
Fairness == \A t \in 1..MaxReloads : WF_vars(t \in DOMAIN tasks /\ TaskStep(t))
FairSpec == Spec /\ Fairness

-------------------------------------------------------------------------------
(* Type correctness of every variable.                                      *)
TypeOK ==
  /\ status \in {"none", "reloading", "reloaded", "failed"}
  /\ shown \in {"none", "reloading", "reloaded", "failed"}
  /\ configured \in BOOLEAN /\ should_close \in BOOLEAN /\ ended \in BOOLEAN
  /\ tasks \in Seq(Task) /\ Len(tasks) <= MaxReloads
  /\ file \in 0..MaxSaves /\ good \subseteq 0..file
  /\ config \in good \union {Fallback}

(* A reload that was answered has been made: what is in force in FRAME is   *)
(* at least as new as the file was when Enter was pressed, in whatever      *)
(* order the tasks of several Enters and the saves in between come; or the  *)
(* fallback, and then some version saved since cannot be loaded.            *)
ReloadTakes ==
  \A t \in DOMAIN tasks :
    tasks[t].state \in {"replied", "done"} =>
      \/ config \in tasks[t].saved..MaxSaves
      \/ config = Fallback /\ \E v \in tasks[t].saved..file : v \notin good

(* Every task that Enter spawned comes to its end and writes the status     *)
(* line, whatever the other tasks do, unless the process ends first.  It    *)
(* says nothing of what a later task or nobody redraws.                     *)
ReloadEnds ==
  \A t \in 1..MaxReloads :
    Len(tasks) >= t ~> ended \/ (Len(tasks) >= t /\ tasks[t].state \in {"done", "failed"})
===============================================================================

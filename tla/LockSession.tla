------------------------------- MODULE LockSession -------------------------------
(***************************************************************************)
(* ext-session-lock-v1 between FRAME and the nullxes-lock processes that    *)
(* ask it to lock: FRAME keeps the first request and lets go of the others, *)
(* which the library answers with `finished`; a process that reads that     *)
(* exits with 1, and any process may be killed.  FRAME keeps the request    *)
(* unconfirmed (SessionLocker::lock is not called), so that no `locked`     *)
(* follows and no lock surface is made; with the keyboard at nobody no key  *)
(* reaches a process, and what NxLock does with keys never comes about.     *)
(***************************************************************************)
EXTENDS FiniteSets

CONSTANTS Locker, NoLocker   (* nullxes-lock processes; nobody                *)

VARIABLES
  place,  (* where each process is                                            *)
  wire,   (* the processes whose request FRAME has not read                   *)
  told,   (* the processes `finished` was sent to                             *)
  lock,   (* state.lock: the process whose request FRAME keeps, or NoLocker   *)
  kbd     (* the keyboard focus: a window or nobody                           *)

vars == <<place, wire, told, lock, kbd>>

Init ==
  /\ place = [p \in Locker |-> "absent"]
  /\ wire = {} /\ told = {}
  /\ lock = NoLocker
  /\ kbd = "window"

(* run: connect, engage, and the flush of the first blocking_dispatch.      *)
Engage(p) ==
  /\ place[p] = "absent"
  /\ place' = [place EXCEPT ![p] = "waiting"]
  /\ wire' = wire \union {p}
  /\ UNCHANGED <<told, lock, kbd>>

(* SessionLockHandler::lock.                                                *)
LockHandler(p) ==
  /\ p \in wire
  /\ wire' = wire \ {p}
  /\ IF lock = NoLocker THEN lock' = p /\ kbd' = "nobody" /\ UNCHANGED told
     ELSE told' = told \union {p} /\ UNCHANGED <<lock, kbd>>
  /\ UNCHANGED place

Finished(p) ==
  /\ place[p] = "waiting" /\ p \in told
  /\ place' = [place EXCEPT ![p] = "exited"]
  /\ UNCHANGED <<wire, told, lock, kbd>>

(* A process ends anywhere; FRAME may still read the request it sent, and   *)
(* no handler of FRAME's is told of the end.                                *)
Kill(p) ==
  /\ place[p] = "waiting"
  /\ place' = [place EXCEPT ![p] = "killed"]
  /\ wire' \in {wire, wire \ {p}}
  /\ UNCHANGED <<told, lock, kbd>>

(* A click, while pointer events are not dropped.                           *)
Click ==
  /\ lock = NoLocker
  /\ kbd' \in {"window", "nobody"}
  /\ UNCHANGED <<place, wire, told, lock>>

Next ==
  \/ \E p \in Locker : Engage(p) \/ LockHandler(p) \/ Finished(p) \/ Kill(p)
  \/ Click

Spec == Init /\ [][Next]_vars

(* Both ends read what was sent to them.                                    *)
FairSpec == Spec /\ \A p \in Locker : WF_vars(LockHandler(p)) /\ WF_vars(Finished(p))

-------------------------------------------------------------------------------
(* nx-lock's main.rs: "On exit (any path) [...] the compositor restores     *)
(* keyboard focus to the previous window stack".                            *)
ExitRestoresFocus ==
  \A p \in Locker : place[p] \in {"exited", "killed"} /\ lock = p ~> kbd = "window"
===============================================================================

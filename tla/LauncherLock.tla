----------------------------- MODULE LauncherLock -----------------------------
(***************************************************************************)
(* The launcher's single-instance lockfile.  Every press of the launcher   *)
(* key, and every LauncherShow, spawns a process that opens                *)
(* $XDG_RUNTIME_DIR/nullxes/launcher.lock, takes an flock on what it       *)
(* opened and, when it ends, removes the NAME before it closes the file.   *)
(* The processes share nothing else.  The file system and flock are        *)
(* modelled from the calls the launcher makes.                             *)
(***************************************************************************)
EXTENDS Naturals

CONSTANTS Proc, Inode, NoProc, NoInode

ASSUME ProcAssumption == NoProc \notin Proc
ASSUME InodeAssumption == NoInode \notin Inode

VARIABLES
  path,    (* the inode that the name launcher.lock stands for, or NoInode   *)
  fd,      (* the inode each process has open, or NoInode                    *)
  holder,  (* the process that has the flock of each inode, or NoProc        *)
  pc       (* where each process is                                          *)

vars == <<path, fd, holder, pc>>

Place == {"absent", "opened", "running", "lockless", "unlinked"}

Init ==
  /\ path = NoInode
  /\ fd = [p \in Proc |-> NoInode]
  /\ holder = [i \in Inode |-> NoProc]
  /\ pc = [p \in Proc |-> "absent"]

(* No name and no descriptor refers to the inode.                           *)
Unused(i) == path # i /\ \A p \in Proc : fd[p] # i

(* The kernel closes p's descriptor, and with it goes p's flock.            *)
Close(p) ==
  /\ fd' = [fd EXCEPT ![p] = NoInode]
  /\ holder' = [i \in Inode |-> IF holder[i] = p THEN NoProc ELSE holder[i]]

-------------------------------------------------------------------------------
(* open with O_CREAT: the file of that name, or a new one.                  *)
Open(p) ==
  /\ pc[p] = "absent"
  /\ \E i \in Inode :
       /\ IF path = NoInode THEN Unused(i) ELSE i = path
       /\ path' = i
       /\ fd' = [fd EXCEPT ![p] = i]
  /\ pc' = [pc EXCEPT ![p] = "opened"]
  /\ UNCHANGED holder

(* The directory or the file cannot be created: run without exclusivity.    *)
OpenFails(p) ==
  /\ pc[p] = "absent"
  /\ pc' = [pc EXCEPT ![p] = "lockless"]
  /\ UNCHANGED <<path, fd, holder>>

(* Mutant of Flock: without LOCK_NB the call waits for the holder.          *)
FlockWaits(p) ==
  /\ pc[p] = "opened"
  /\ holder[fd[p]] = NoProc
  /\ holder' = [holder EXCEPT ![fd[p]] = p]
  /\ pc' = [pc EXCEPT ![p] = "running"]
  /\ UNCHANGED <<path, fd>>

(* Mutant of Flock: a failed flock is not looked at.                        *)
FlockUnchecked(p) ==
  /\ pc[p] = "opened"
  /\ holder' = [holder EXCEPT ![fd[p]] = IF @ = NoProc THEN p ELSE @]
  /\ pc' = [pc EXCEPT ![p] = "running"]
  /\ UNCHANGED <<path, fd>>

(* flock with LOCK_NB: hold it and run, or close the file and exit 0.       *)
Flock(p) ==
  /\ pc[p] = "opened"
  /\ \/ /\ holder[fd[p]] = NoProc
        /\ holder' = [holder EXCEPT ![fd[p]] = p]
        /\ pc' = [pc EXCEPT ![p] = "running"]
        /\ UNCHANGED fd
     \/ /\ holder[fd[p]] # NoProc
        /\ Close(p)
        /\ pc' = [pc EXCEPT ![p] = "absent"]
  /\ UNCHANGED path

(* Mutant of Unlink: the file is closed before its name is removed.         *)
UnlinkClosed(p) ==
  /\ pc[p] = "running"
  /\ Close(p)
  /\ path' = NoInode
  /\ pc' = [pc EXCEPT ![p] = "unlinked"]

(* state::run has returned and LockGuard's drop removes the name, whatever  *)
(* file has that name by now.                                               *)
Unlink(p) ==
  /\ pc[p] = "running"
  /\ path' = NoInode
  /\ pc' = [pc EXCEPT ![p] = "unlinked"]
  /\ UNCHANGED <<fd, holder>>

(* The guard's descriptor is dropped after its drop method has run.         *)
Exit(p) ==
  /\ pc[p] = "unlinked"
  /\ Close(p)
  /\ pc' = [pc EXCEPT ![p] = "absent"]
  /\ UNCHANGED path

(* LockGuard::lockless has nothing to remove or to close.                   *)
ExitLockless(p) ==
  /\ pc[p] = "lockless"
  /\ pc' = [pc EXCEPT ![p] = "absent"]
  /\ UNCHANGED <<path, fd, holder>>

(* Mutant of Kill: the flock outlives the process that took it.             *)
KillKeepsLock(p) ==
  /\ pc[p] # "absent"
  /\ fd' = [fd EXCEPT ![p] = NoInode]
  /\ pc' = [pc EXCEPT ![p] = "absent"]
  /\ UNCHANGED <<path, holder>>

(* A signal ends the process anywhere: no drop runs, the name stays.        *)
Kill(p) ==
  /\ pc[p] # "absent"
  /\ Close(p)
  /\ pc' = [pc EXCEPT ![p] = "absent"]
  /\ UNCHANGED path

Next ==
  \E p \in Proc :
    \/ Open(p) \/ OpenFails(p) \/ Flock(p)
    \/ Unlink(p) \/ Exit(p) \/ ExitLockless(p) \/ Kill(p)

Spec == Init /\ [][Next]_vars

(* Calls return; whether and when the user closes a launcher is open.       *)
FairSpec == Spec /\ \A p \in Proc : WF_vars(Flock(p)) /\ WF_vars(Exit(p))

-------------------------------------------------------------------------------
(* Type correctness of every variable; a launcher has a file open from      *)
(* acquire_lock's open to the end of the guard's drop, and never else.      *)
TypeOK ==
  /\ path \in Inode \union {NoInode}
  /\ fd \in [Proc -> Inode \union {NoInode}]
  /\ holder \in [Inode -> Proc \union {NoProc}]
  /\ pc \in [Proc -> Place]
  /\ \A p \in Proc : fd[p] = NoInode <=> pc[p] \in {"absent", "lockless"}

(* A flock belongs to a process that runs under it: after every crash, exit *)
(* and lost race the file a later launcher opens can be locked again, so a  *)
(* stale launcher.lock never keeps the launcher from starting.              *)
NoLeakedLock ==
  \A i \in Inode :
    holder[i] # NoProc => /\ fd[holder[i]] = i
                          /\ pc[holder[i]] \in {"running", "unlinked"}

(* What acquire_lock does guarantee: of two launchers that run or are on    *)
(* their way out, no two have the same file; in particular at most one has  *)
(* the file that bears the name.                                            *)
OnePerFile ==
  \A p, q \in Proc :
    /\ {pc[p], pc[q]} \subseteq {"running", "unlinked"}
    /\ fd[p] = fd[q]
    => p = q

(* A launcher that found the lock taken never stays behind: it starts or is *)
(* gone, however long the first one stays open (LOCK_NB).                   *)
StartsOrExits == \A p \in Proc : pc[p] = "opened" ~> pc[p] # "opened"

-------------------------------------------------------------------------------
(* main.rs: "Acquire single-instance lockfile. [...] If another instance    *)
(* holds it, exit 0 silently". Two launchers, neither of them lockless,     *)
(* never run at once.                                                       *)
SingleInstance ==
  \A p, q \in Proc : pc[p] = "running" /\ pc[q] = "running" => p = q
===============================================================================

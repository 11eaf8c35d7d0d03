------------------------------ MODULE FrameFiles ------------------------------
(***************************************************************************)
(* The two files by which FRAME is found, and a client that looks for it.  *)
(* A FRAME process publishes `wayland-display` through a temporary file,   *)
(* replaces `frame.sock`, runs, and removes both when its event loop ends; *)
(* a crash, or an error during start-up, leaves them.  Client::connect     *)
(* tries the socket again and again with growing pauses.                   *)
(*                                                                         *)
(* Several FRAME processes may share the directory: inside a Wayland or an *)
(* X11 session detect_backend starts a nested one.                         *)
(***************************************************************************)
EXTENDS Integers

CONSTANTS
  Frame, NoFrame,     (* FRAME processes; a file that does not exist        *)
  InitialMs, CapMs,   (* RECONNECT_INITIAL_MS and RECONNECT_CAP_MS          *)
  MaxTries            (* RECONNECT_MAX_TRIES                                *)

BackoffAssumption ==
  /\ InitialMs \in Nat \ {0} /\ CapMs \in Nat /\ InitialMs <= CapMs
  /\ MaxTries \in Nat \ {0}

VARIABLES
  tmp,      (* whose name wayland-display.tmp holds                          *)
  display,  (* whose name wayland-display holds                              *)
  sock,     (* who bound the socket that frame.sock names                    *)
  pc,       (* where each FRAME process is                                   *)
  met,      (* history: the processes that met another since they started    *)
  peer,     (* the client: the process it is connected to, or NoFrame        *)
  tries,    (* its failed attempts                                           *)
  delay     (* delay_ms                                                      *)

files == <<tmp, display, sock>>
client == <<peer, tries, delay>>
vars == <<files, pc, met, client>>

Place == {"absent", "started", "renaming", "published", "binding", "running",
          "stopping", "unlinking"}

Init ==
  /\ tmp = NoFrame
  /\ display = NoFrame
  /\ sock = NoFrame
  /\ pc = [f \in Frame |-> "absent"]
  /\ met = {}
  /\ peer = NoFrame
  /\ tries = 0
  /\ delay = InitialMs

Goes(f, from, to) ==
  /\ pc[f] = from
  /\ pc' = [pc EXCEPT ![f] = to]
  /\ UNCHANGED <<met, client>>

-------------------------------------------------------------------------------
(* A FRAME process.                                                         *)

Start(f) ==
  LET others == {g \in Frame : pc[g] # "absent"} IN
  /\ pc[f] = "absent"
  /\ pc' = [pc EXCEPT ![f] = "started"]
  /\ met' = IF others = {} THEN met \ {f} ELSE met \union others \union {f}
  /\ UNCHANGED <<files, client>>

WriteTmp(f) ==
  /\ Goes(f, "started", "renaming")
  /\ tmp' = f
  /\ UNCHANGED <<display, sock>>

(* Mutant of Publish: a name that is there already is not replaced.         *)
PublishIfAbsent(f) ==
  /\ Goes(f, "renaming", "published")
  /\ display' = IF display = NoFrame THEN tmp ELSE display
  /\ tmp' = NoFrame
  /\ UNCHANGED sock

(* rename moves what the temporary file holds now; when another process has *)
(* moved it already, run returns the error.                                 *)
Publish(f) ==
  \/ /\ tmp # NoFrame
     /\ Goes(f, "renaming", "published")
     /\ display' = tmp
     /\ tmp' = NoFrame
     /\ UNCHANGED sock
  \/ /\ tmp = NoFrame
     /\ Goes(f, "renaming", "absent")
     /\ UNCHANGED files

(* ipc_server::start removes whatever frame.sock names.                     *)
RemoveStale(f) ==
  /\ Goes(f, "published", "binding")
  /\ sock' = NoFrame
  /\ UNCHANGED <<tmp, display>>

(* bind fails when the name exists again; run returns the error and leaves  *)
(* wayland-display behind.                                                  *)
Bind(f) ==
  \/ /\ sock = NoFrame
     /\ Goes(f, "binding", "running")
     /\ sock' = f
     /\ UNCHANGED <<tmp, display>>
  \/ /\ sock # NoFrame
     /\ Goes(f, "binding", "absent")
     /\ UNCHANGED files

Stop(f) == Goes(f, "running", "stopping") /\ UNCHANGED files

(* IpcSocket's drop removes the name, whose socket it may be.               *)
DropSocket(f) ==
  /\ Goes(f, "stopping", "unlinking")
  /\ sock' = NoFrame
  /\ UNCHANGED <<tmp, display>>

RemoveDisplay(f) ==
  /\ Goes(f, "unlinking", "absent")
  /\ display' = NoFrame
  /\ UNCHANGED <<tmp, sock>>

(* A crash, or an error of another part of the start-up.                    *)
Crash(f) ==
  /\ pc[f] # "absent"
  /\ pc' = [pc EXCEPT ![f] = "absent"]
  /\ UNCHANGED <<files, met, client>>

-------------------------------------------------------------------------------
(* Client::connect.                                                         *)

(* The kernel accepts for a bound socket as long as its process lives.      *)
Listening(f) == pc[f] \in {"running", "stopping", "unlinking"}
Reachable == sock # NoFrame /\ Listening(sock)

Connect ==
  /\ peer = NoFrame
  /\ tries < MaxTries
  /\ Reachable
  /\ peer' = sock
  /\ UNCHANGED <<files, pc, met, tries, delay>>

(* Mutant of Retry: the cap is applied before the delay is doubled.         *)
RetryCapsFirst ==
  /\ peer = NoFrame
  /\ tries < MaxTries
  /\ ~Reachable
  /\ tries' = tries + 1
  /\ delay' = 2 * (IF delay < CapMs THEN delay ELSE CapMs)
  /\ UNCHANGED <<files, pc, met, peer>>

Retry ==
  /\ peer = NoFrame
  /\ tries < MaxTries
  /\ ~Reachable
  /\ tries' = tries + 1
  /\ delay' = IF 2 * delay < CapMs THEN 2 * delay ELSE CapMs
  /\ UNCHANGED <<files, pc, met, peer>>

-------------------------------------------------------------------------------
Next ==
  \/ \E f \in Frame :
       \/ Start(f) \/ WriteTmp(f) \/ Publish(f) \/ RemoveStale(f) \/ Bind(f)
       \/ Stop(f) \/ DropSocket(f) \/ RemoveDisplay(f) \/ Crash(f)
  \/ Connect \/ Retry

Spec == Init /\ [][Next]_vars

-------------------------------------------------------------------------------
MaybeFrame == Frame \union {NoFrame}

(* Type correctness of every variable; the pause never exceeds its cap.     *)
TypeOK ==
  /\ {tmp, display, sock, peer} \subseteq MaybeFrame
  /\ pc \in [Frame -> Place]
  /\ met \subseteq Frame
  /\ tries \in 0..MaxTries
  /\ delay \in InitialMs..CapMs

(* The documented schedule, "100, 200, 400, ... capped at 5000ms": after n  *)
(* failed attempts the pause is InitialMs * 2^n or the cap.                 *)
BackoffSchedule ==
  delay = IF InitialMs * 2^tries < CapMs THEN InitialMs * 2^tries ELSE CapMs

(* A FRAME process that met no other one since it started is found through *)
(* both files while it runs, whatever earlier ones left behind by crashing  *)
(* or failing at any point of start-up or shutdown, alone or overlapping.   *)
RunningIsFound ==
  \A f \in Frame \ met : pc[f] = "running" => sock = f /\ display = f
===============================================================================

-------------------------------- MODULE Programs -------------------------------
(***************************************************************************)
(* The parts of a NULLXES session that share no state with the others, in  *)
(* one model: every behaviour is one of one part, `app`, while the others  *)
(* stay in an initial state.  Interleaving two of them would add nothing.  *)
(* LauncherLock is extended, the others are instantiated with variables of *)
(* their own; flags that mean the same in several programs are one.        *)
(***************************************************************************)
EXTENDS LauncherLock, Integers, Sequences

CONSTANTS
  User,                                      (* Greeter                       *)
  WindowSize, MaxOutput, MaxMsgs,            (* Slate                         *)
  MaxSaves, MaxReloads,                      (* Settings                      *)
  Entry, MaxFiles, Desktops, Query, Score,
  Limit,                                     (* LauncherWindow                *)
  Recent, MaxLines,                          (* History                       *)
  Frame, NoFrame, InitialMs, CapMs, MaxTries (* FrameFiles                    *)

VARIABLES
  app,
  configured, should_close,
  (* Greeter *)
  phase, account, last, username, password, focus, error, pending, awaiting, conn, greeting,
  (* Slate *)
  window, pool, term, loop, screenful, skipped, grid, gridSize, dirty, msgs, ptySize, changed,
  child,
  (* Settings *)
  status, statusShown, ended, tasks, file, good, config,
  (* LauncherWindow *)
  files, desktop, apps, query, selected, highlighted, stale, launched,
  (* History *)
  current, exists, toolong, rotated, handle, written, replay, daemon, short, torn,
  (* FrameFiles *)
  tmp, display, sock, frames, met, peer, tries, delay

-------------------------------------------------------------------------------
G == INSTANCE Greeter WITH pc <- greeting
S == INSTANCE Slate WITH shown <- screenful
T == INSTANCE Settings WITH shown <- statusShown
L == INSTANCE LauncherWindow WITH current <- desktop, shown <- highlighted
H == INSTANCE History WITH pc <- daemon
F == INSTANCE FrameFiles WITH pc <- frames

ASSUME UserAssumption == "empty" \in User
ASSUME SlateAssumption ==
  "input" \notin WindowSize /\ MaxOutput \in Nat /\ MaxMsgs \in Nat
ASSUME SettingsAssumption == MaxSaves \in Nat /\ MaxReloads \in Nat
ASSUME LimitAssumption == MaxFiles \in Nat /\ Limit \in Nat \ {0}
ASSUME EntryAssumption == \A e \in Entry : e.key \in Int /\ e.home \in BOOLEAN
ASSUME ScoreAssumption ==
  /\ "" \in Query
  /\ \A q \in Query \ {""}, e \in Entry : Score[q][e.name] \in Nat
ASSUME HistoryAssumption == H!HistoryAssumption
ASSUME FrameAssumption == NoFrame \notin Frame
ASSUME BackoffAssumption == F!BackoffAssumption

-------------------------------------------------------------------------------
App == {"lockfile", "greeter", "slate", "settings", "launcher", "history",
        "frame files"}

ProgramsInit ==
  /\ app \in App
  /\ Init /\ G!GInit /\ S!Init /\ T!Init /\ L!Init /\ H!Init /\ F!Init
  /\ app # "launcher" => files = <<>> /\ desktop = {}
  /\ app # "slate" => window = CHOOSE size \in WindowSize : TRUE
  /\ app # "settings" => good = {}

(* Only the variables of the program that runs change.                      *)
Alone ==
  /\ UNCHANGED app
  /\ app \notin {"slate", "settings", "launcher"} => UNCHANGED configured
  /\ app \notin {"slate", "settings", "launcher", "greeter"} => UNCHANGED should_close
  /\ app # "lockfile" => UNCHANGED vars
  /\ app # "greeter" => UNCHANGED <<phase, account, last, username, password, focus, error,
                                    pending, awaiting, conn, greeting>>
  /\ app # "slate" => UNCHANGED <<window, pool, term, loop, screenful, skipped, grid, gridSize,
                                  dirty, msgs, ptySize, changed, child>>
  /\ app # "settings" => UNCHANGED <<status, statusShown, ended, tasks, file, good, config>>
  /\ app # "launcher" => UNCHANGED <<files, desktop, apps, query, selected, highlighted, stale,
                                     launched>>
  /\ app # "history" => UNCHANGED <<current, exists, toolong, rotated, handle, written, replay,
                                    daemon, short, torn>>
  /\ app # "frame files" => UNCHANGED <<tmp, display, sock, frames, met, peer, tries, delay>>

ProgramsNext ==
  \/ app = "lockfile" /\ Next /\ Alone
  \/ app = "greeter" /\ G!GNext /\ Alone
  \/ app = "slate" /\ S!Next /\ Alone
  \/ app = "settings" /\ T!Next /\ Alone
  \/ app = "launcher" /\ L!Next /\ Alone
  \/ app = "history" /\ H!Next /\ Alone
  \/ app = "frame files" /\ F!Next /\ Alone

programs == <<app, configured, should_close, vars, G!vars, S!vars, T!vars, L!vars, H!vars, F!vars>>

(* The fairness of the program that runs, as its module states it.          *)
ProgramsFairness ==
  /\ \A p \in Proc : /\ WF_programs(app = "lockfile" /\ Flock(p) /\ Alone)
                     /\ WF_programs(app = "lockfile" /\ Exit(p) /\ Alone)
  /\ \A t \in 1..MaxReloads :
       WF_programs(app = "settings" /\ t \in DOMAIN tasks /\ T!TaskStep(t) /\ Alone)

ProgramsSpec == ProgramsInit /\ [][ProgramsNext]_programs /\ ProgramsFairness

-------------------------------------------------------------------------------
(* Type correctness of every variable of every program.                     *)
ProgramsTypeOK ==
  /\ app \in App
  /\ TypeOK /\ G!GTypeOK /\ S!TypeOK /\ T!TypeOK /\ L!TypeOK /\ H!TypeOK /\ F!TypeOK

(* The greeter's idea of its dialogue is greetd's.                          *)
InStep == G!InStep

(* The greeter's requests are a dialogue greetd understands.                *)
KeepsToTheDialogue == G!KeepsToTheDialogue

(* SLATE's window, grid and shell agree on the size.                        *)
SizesAgree == S!SizesAgree

(* No wake-up of SLATE's terminal is lost.                                  *)
NoLostWakeup == S!NoLostWakeup

(* A reload that was answered is in force.                                  *)
ReloadTakes == T!ReloadTakes

(* Every reload task comes to its end.                                      *)
ReloadEnds == T!ReloadEnds

(* Enter launches what the last frame highlighted.                          *)
EnterLaunchesShown == L!EnterLaunchesShown

(* A name is listed once, and as the user's own where there is one.         *)
OverridesWin == L!OverridesWin

(* The newest notifications are on disk.                                    *)
RecentOnDisk == H!RecentOnDisk

(* The client's pauses follow the schedule.                                 *)
BackoffSchedule == F!BackoffSchedule

(* A FRAME process that met no other one is found.                          *)
RunningIsFound == F!RunningIsFound
===============================================================================

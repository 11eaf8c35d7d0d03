# A verification development for NULLXES OS

NULLXES OS is a small Wayland desktop: the compositor FRAME with its panel, and a
handful of clients (launcher, terminal, lock screen, notification daemon, settings,
greeter). This directory models the parts of it whose correctness depends on the
order in which things happen, checks the models with TLC and proves the most
important results with TLAPS. Paths below are relative to `src/`; `frame/` and the
other crates stand for `src/crates/frame/src/` and so on.

Contents: [inventory](#1-inventory) · [modules](#2-the-modules-and-the-code) ·
[runs](#3-the-runs) · [fairness](#4-fairness) · [proofs](#5-what-is-proved) ·
[divergences](#6-divergences-from-the-documentation) · [not
modelled](#7-what-is-not-modelled-and-why) · [plan](#8-plan)

## 1. Inventory

### The compositor (crate `frame`)

One main thread runs a calloop event loop; every handler of a Wayland request, an
input event, a control-socket command or a signal runs on it, one at a time. Beside
it a tokio runtime runs the control socket's tasks and the D-Bus listeners, which
reach the main thread only through channels.

| part | state | operations | what is hard | what makes it correct |
|---|---|---|---|---|
| Workspaces and windows: `workspace.rs`, `state.rs`, `handlers/xdg_shell.rs`, `input/*` | active index and focus slot per workspace (`WorkspaceManager`); one smithay `Space` per workspace; keyboard focus; pointer grab | create and destroy a toplevel, interactive move, motion, button, Super chords, control commands | two indexes of the same windows (by id and by object); ids are unique per client only; a grab outlives what it began on; input stops while locked | a living window is in exactly one space (violated); a slot names a window of its own space (violated, and kept as long as ids are unambiguous); no window has the keyboard while locked |
| Session lock: `handlers/session_lock.rs` | `lock: Option<LockSession>` | lock, unlock, new lock surface | everything that goes on while locked | one locker at a time; no end of a lock client leaves the session stuck (violated) |
| Control socket: `ipc_server.rs`, crate `ipc` | a task per connection, a channel to the main loop, a oneshot per command | accept, read a line, dispatch, respond; `Client::connect`, `request` | four parties (client, task, main loop, shutdown), cancelled requests, replies in flight at the end | every request is answered once, in order; nobody waits for ever; bounded queue |
| Runtime files: `backend/*.rs`, `ipc_server.rs`, `ipc/client.rs` | `wayland-display`, its temporary file, `frame.sock` | publish, replace, remove; reconnect with back-off | crashes at any step, a second (nested) FRAME in the same directory | a running compositor can be found; back-off as documented |
| Idle manager `idle.rs`, XWayland manager `xwm.rs` | time of last activity, pending flags; respawn counter | tick, activity; exit, respawn | nothing yet: of both only what boot calls runs, and the Xwayland event source is in no loop | *not modelled, section 7* |
| Configuration `config.rs`, panel, system listeners, rendering, backends | the last configuration; the last value of each D-Bus property | load, reload; repaint | a reload that shrinks the workspace count has no effect on the spaces | indexes stay in range |

### The clients

| part | state | operations | what is hard | what makes it correct |
|---|---|---|---|---|
| `launcher` | lockfile; query, result list, selection | open, flock, run, unlink, close; search | several processes, kill at any point, the order of unlink and close | at most one launcher; a stale file never blocks it |
| `nx-lock` | password field, `pending`, failures; two channels to a PAM thread | type, submit, poll, `finished` | two threads, answers seen only after events, several events per batch | one attempt at a time; an approval unlocks (violated); nothing is unlocked, and no exit status 0, without PAM's word |
| `wlcommon` shm pool | buffers with released flags | new, resize, draw, release | releases arrive at any time, also for dropped buffers; allocations fail | never draw into what the compositor reads; buffers fit the surface |
| `nx-notif` | ids, bounded channel, visible toasts, waiting queue, history file | Notify, CloseNotification, timeout, closed | D-Bus tasks against the Wayland thread, lagging broadcast, rotation with crashes | each notification is shown and closed once |
| `nx-greet` | user name, password, where the greetd dialogue is | submit, cancel | its own idea of the dialogue against greetd's | a response goes to the prompt it was typed for |
| `slate` | PTY, terminal grid, dirty channel | output, key, resize, exit | output that comes while the loop sleeps; a size told to three parties | no wake-up is lost between the threads; window, grid and shell agree on the size |
| `nx-settings` | section, status line, reload tasks | Enter, section keys | overlapping tasks, saves between Enter and FRAME's reading | an answered reload is in force, or the fallback is; every reload task ends |
| `theme`, `xtask`, packaging, ISO | none at run time | generate, install | nothing concurrent | determinism of the exports (tested in the crate) |

### How they interact

Clients speak Wayland with FRAME (surfaces, input, layer shell, session lock, shm
buffers). `nx-settings`, the launcher's spawner and scripts use the control socket;
its commands act on the same workspace manager as the keyboard. `frame.sock` and
`wayland-display` are how clients find the compositor, `launcher.lock` how launchers
find each other. `nx-lock` locks through FRAME and asks PAM in a thread of its own;
`nx-notif` and the listeners use D-Bus.

The hazards this gives rise to, each at its line and with the properties that watch
over it, are listed in `PROJECT.json` ("hazards").

## 2. The modules and the code

| module | models | state and actions |
|---|---|---|
| `WorkspaceManager` | `frame/workspace.rs` | no variables: each method is an operator from the old manager to the new one (`SwitchTo`, `SwitchNext`, `SetFocus`, `PlanMove`, ...), and its Boolean or Option result an operator of its own (`Switches`, `PlansMove`) |
| `Desktop` (extends `WorkspaceManager`) | the handlers of `frame/` for windows, pointer, keybinds, control commands and session lock | `mgr` = `workspace_mgr`, `spaces` = `workspaces`, `lock` = `lock`; `kbd`, `under`, `grab` = the seat's keyboard focus, the surface found by the last motion and the pointer grab; `held`, `life`, `idOf` = the user's hand, the clients' windows and their protocol ids. One action per handler |
| `LauncherLock` | `launcher/main.rs` | name, descriptors and flocks; one action per system call, the lockless fallback, kill |
| `NxLock` | `nx-lock/state.rs`, `pam_auth.rs` | `LockState`'s fields, both mpsc channels, the PAM call under way; one action per event handler, `Poll` for `poll_auth` and the loop's test, one per PAM call |
| `ControlIpc` | `ipc/client.rs`, `frame/ipc_server.rs` | both directions of each connection, the task's place, the calloop channel, the oneshot of each waiting task, the life of the main loop |
| `FrameFiles` | start-up and shutdown in `frame/backend/drm.rs` (`winit.rs` does the same), `ipc_server::start`, `Client::connect` | whose name or socket each file holds, the place of each process, the client's tries and delay; one action per file operation |
| `ShmPool` | `wlcommon/shm.rs` | the pool's buffers with flag and size; what the compositor holds; releases not yet dispatched |
| `LoginDialogue` | external: the dialogue greetd accepts | `phase`, `account`, `last`; one action per request |
| `Greeter` (extends `LoginDialogue`) | `nx-greet/state.rs`, `ipc.rs` | the two fields, `focus`, `error`, `pending`, `awaiting` = `awaiting_response`, `conn` = `greetd`; one action per key, and `SubmitName`, `SubmitPassword`, `SubmitStarts`, `SubmitCancels` = the round trips of `submit` |
| `Slate` | `slate/state.rs`, `term.rs` | Wayland thread (`loop`, `window`, `pool`, `term`, `shown`) and PTY thread (`changed`, `ptySize`, `child`) around the shared grid and the two channels `dirty` and `msgs` |
| `Settings` | `nx-settings/state.rs`, `Reload.Config` in `frame/ipc_server.rs` | `status`, one record per reload task, the versions of `frame.toml` (`good`: those that can be loaded) and of FRAME's configuration; `Loaded` = `FrameConfig::load` |
| `LauncherWindow` | `launcher/state.rs`, `search.rs`, `apps.rs` | `files` and `current` = the disk and the desktop's name, `apps` = `scan`'s result, `query`, `selected`; `Results` = `Search::query`, `Insert` = one turn of `scan`, `Scan` = the lists its sort may return |
| `History` | `nx-notif/history.rs` | both files by their lines, the file the descriptor stands for; one action per file operation of `append`, `rotate` and `open_or_create`, failing ones and kills |
| `LockSession` | ext-session-lock-v1 between `frame/handlers/session_lock.rs` and `nx-lock/state.rs` | `place` of each lock process, requests and refusals on the `wire`, `lock`, `kbd` |
| `Toasts` | abstract: what a notification daemon promises | sent, waiting, shown; `up` until the display goes away |
| `Notifd` | `nx-notif/dbus.rs`, `surface.rs` | `nextId` = `next_id`; `sending` = calls inside `send().await`; `channel`, `closed` = the mpsc and the broadcast channel; `queue`, `visible` as in `WaylandThreadState`; `phase` = where the thread is in its loop. One action per D-Bus call and per step of the loop |
| `Programs` | composition of `LauncherLock`, `Greeter`, `Slate`, `Settings`, `LauncherWindow`, `History` and `FrameFiles` | `app` says which of them runs; every other variable is a variable of one of them |
| `MC*` | | values of the constants for TLC |
| `*Proofs` | | the theorems of section 5 |

Modelling decisions worth knowing:

* **smithay is external.** `Space` is a sequence (bottom to top) in which a window
  occurs once; `elements()` runs from the bottom, so a search by id finds the lowest
  match. A click starts smithay's implicit grab; `move_request` replaces it; both end
  with the release of the button. Window positions are left out: what the pointer
  finds is any window of the active space.
* **Ids.** `window_id` is the `wl_surface` protocol id, unique among the living
  surfaces of one client and nothing more. A window gets its id when it is created
  (`FreeId`): any id that no living window of its client has, so windows of two clients
  may share one, and a dead window's id is given out again.
* **Configuration** changes with `ReloadConfig`; the workspace count is read once at
  start, `wrap` at each use, so `wrap` is a free Boolean at each key.
* **The event loop is alive** in `Desktop`; its end is `ControlIpc`'s matter.
* **Passwords** are "empty", "right" or "wrong"; typing and backspacing may turn any
  wrong text into the right one. PAM accepts only the right one and may refuse even that.
* **Control requests** are of four kinds: those the main loop answers, Quit, those the task
  refuses by itself, and lines it cannot decode, which have no id to echo and are answered
  with 0. A response carries, for the property only, which line it was written for (`to`).
  What a command does is in `Desktop` (`IpcRequest`). A line is written or not: the cut of
  one short `write_all` is left out. Connections are accepted; an `accept` error only delays
  one.
* **`FrameFiles`** writes the temporary file in one step; the rename is a step of its
  own, so that two processes may take each other's file. `met` is a history variable:
  it remembers which processes overlapped another one.
* **`LauncherLock`** closes descriptors at the end of a process. A child forked just
  before the launcher ends could keep the open file, and its flock, until its exec
  (O_CLOEXEC); this window is left out.
* **`NxLock`** leaves out painting, outputs, the 120 ms sleep (it delays the main
  thread and changes nothing else) and a panic of the worker. `asked` says that
  `unlock_and_destroy` was called. The request lies in the connection's buffer when the
  loop ends, and nothing in `nx-lock` flushes it (`nx-lock/state.rs:108`), so no property
  speaks of an unlocked session.
* **`Notifd`** counts time in rounds of the thread's loop, and a sleep may take longer
  than asked. A note without texts whose time-out is at most 1 ms is what the code takes
  for an order to close, also if it came through `Notify`; both are the time `Order`.
  Callers name any id of `Named`, given out or not. The compositor's `Closed` and a
  failing dispatch are included whenever the thread dispatches, though today's code
  hardly reads its socket (section 6): the results hold with and without them. A number
  per call keeps apart two notes with one id. The calls of `Sticky` ask for a time-out of 0,
  which `surface.rs:44` calls sticky and the code turns into 1 ms (`Stay`); `ToastsEnd` is
  about the others.
* **`Programs`** joins the parts that share no state. To interleave them would only multiply
  their states, so a behaviour is one of a single part, chosen at the start. What two parts
  do share is in one module: `Desktop` for everything on FRAME's main thread, `Settings` for
  the reload task and FRAME, `FrameFiles` for FRAME and its clients.
* **`Greeter`** blocks during a round trip, as the code does; a batch may hold further
  keys after the one that set `should_close`. A request may be handled and its answer
  lost. greetd refuses what is out of turn; the answer to `start_session` and to
  `cancel_session` is dropped, as in the code. Passwords are typed or empty: what is
  right is greetd's to say.
* **`Slate`** takes the contents of the grid as a version number, so that "drawn" means
  drawn with what the shell has written last. A redraw may give up for want of a buffer
  (`ShmPool` says when), and the PTY may fail to start; the next redraw tries again.
* **`Settings`** numbers the versions of `frame.toml`; each saved one can be loaded or
  not. FRAME passes over one that it cannot read or parse and takes `/etc` or the defaults
  (`Fallback`), and answers Ok all the same. An Enter remembers the version it saw
  (`saved`), which is what the reload must at least bring. A connection may be lost before
  FRAME has handled the request or after.
* **`LauncherWindow`** takes the fuzzy score as a constant function. An entry that
  cannot be read, has no command or `NoDisplay` never enters the table, so it is as if
  it were absent; `Hidden` is not read, so it has no part. The table is by the exact name,
  the sort by the name in lower case (`key`): names that differ in case only are two
  entries, in the order of a HashMap, which is any. `Init` takes any list `scan` may
  return.
* **`History`** bounds no line: whether one makes the file longer than `HISTORY_CAP` is
  left open, also for a line that a replay carries over. One `writeln!` is one step. The
  records in memory, which nothing reads, are left out. `short` and `torn` are history
  variables: how many lines are missing until a file whose rotation broke off has the
  recent ones again, and whether another rotation began before that.
* **`LockSession`** has no `locked` event and no lock surface because FRAME never
  confirms a lock; with the keyboard at nobody no key reaches a lock process, so what
  `NxLock` does after a key does not arise under FRAME. `NxLock` is the client under a
  compositor that does confirm. The module serves one run, a violated claim.
* **`Toasts`** knows nothing of ids, channels or the loop. `Notifd` implements it with
  what is being sent or is in the channel as `sent`, and the thread's life as `up`.

## 3. The runs

| run | bounds | result |
|---|---|---|
| `Desktop_windows` | 2 workspaces, 2 windows of 2 clients, 2 ids, 2 lockers | `NeverLost`, `LockedKeyboard`, `EntersSpaceOnly`, `SlotStaysHome` hold |
| `NxLock_attempts` | 3 failures | `OneOutstanding`, `ExitNeedsApproval` hold |
| `ControlIpc_replies` | 2 connections, 2 requests each | `RepliesInOrder`, `OneCommandPerTask`, `Answered` hold |
| `ShmPool_flags` | pool of 4, 6 buffers, 2 sizes | `FlagsAreTrue`, `PoolIsUniform` hold |
| `Notifd_toasts` | 4 calls, 2 places, channels of 1, time-outs of 2 rounds, one call with time-out 0, 1 named id | `KeepsPromise` (refinement of `Toasts`), `CallsReturn`, `ToastsEnd` hold |
| `Programs`: launcher lock | 3 launchers that start again and again, 3 inodes | `NoLeakedLock`, `OnePerFile`, `StartsOrExits` hold |
| ... runtime files | 2 FRAME processes that start again and again, 5 tries, 100 ms to 1000 ms | `RunningIsFound`, `BackoffSchedule` hold |
| ... greeter | 3 names, one of them empty | `InStep`, `KeepsToTheDialogue` (refinement of `LoginDialogue`) hold |
| ... terminal | 2 sizes, 2 changes of the grid, 2 unread messages | `SizesAgree`, `NoLostWakeup` hold |
| ... settings | 2 Enters, 2 saves, each good or broken | `ReloadTakes`, `ReloadEnds` hold |
| ... launcher window | every sequence of up to 3 of 5 entries, 2 desktops, 3 queries, 2 results | `EnterLaunchesShown`, `OverridesWin` hold |
| ... history | 8 lines of any length, 3 carried over | `RecentOnDisk` holds |
| `Desktop_OneSpacePerWindow`, `Desktop_SlotPointsHome`, `LauncherLock_SingleInstance`, `NxLock_CorrectPasswordUnlocks`, `Notifd_QueuedIsShown`, `LockSession_ExitRestoresFocus` (2 lock processes) | as above or smaller | violated, see section 6 |

Why the bounds are enough:

* Two workspaces give an inactive one and wrap-around in both directions; an index out of
  range is among the inputs (`Target`). Two windows give stacking, raising, a collision of
  ids and a window to lose the focus to; in `Desktop_SlotPointsHome` both belong to one
  client, which gets the id of the first again for the second. The theorems about `Desktop`
  hold for every number of workspaces, windows, clients and lockers.
* Three launchers are the number the race needs (one that leaves, one that has opened
  the old file, one that creates the new one). A new inode is taken only when the
  other two have at most two files open, so three inodes never run out. Processes may
  start any number of times.
* `MaxFails` bounds the failures, not the events between them; attempts do not
  influence each other except through the fields that are in the model.
* With two connections one can quit or leave while the other waits; a second request
  per connection is what a cancelled first one can disturb.
* 5 tries pass a cap of 1000 ms (100 ms doubles four times) and end exactly one try
  after it. The code has 32 tries and a cap of 5000 ms; after the cap every try is the
  same.
* Two names beside the empty one let the user edit the name while greetd works for
  another. Greeter attempts are not bounded: a dialogue may be failed, cancelled and
  begun again for ever.
* Two sizes and two messages put a resize behind typed bytes and behind another resize.
  Two changes of the grid let one be drawn, or skipped, while the other waits.
* Two Enters overlap, and the second save may come between an Enter and its reload; a
  broken save may be mended by the next one before the reload or after.
* Three entries are enough for a system entry and two of the user's under one name, in
  any order of the directories; five kinds differ in name, place and visibility, and two
  of the names differ in case only. Two results leave something below the limit, so that
  Down stops at the list's end.
* 8 lines with 3 carried over allow rotations at any line, broken replays, a second
  rotation both within 3 lines of a broken one and after them, and a last whole one.
* Of two lock processes one holds the lock and one is refused; a third would be refused
  like the second.
* Six buffers allow a full pool of four together with two of a dropped one. The
  theorems hold for every bound of at least two and every set of buffers.
* Four calls fill two places and leave two notes waiting, so their order matters; or
  they leave room to replace, to close and to close what is still queued. With channels
  of one, `send` waits and the broadcast forgets as soon as two things happen between
  two rounds.

Every checked property has a mutant: a definition such as `PlanMoveKeepsSource`,
written beside the definition it replaces, that makes a plausible mistake and breaks
the property. They are marked "Mutant of" and used by nothing else.

Deadlock is checked except in `NxLock` and `Programs` (the processes end),
`ControlIpc` (the compositor ends), `LockSession` (every process has been told) and
`Notifd` (the calls are bounded and the thread may have ended).

## 4. Fairness

* `LauncherLock`: weak fairness of `Flock` and `Exit`. Both are single system calls
  that do not block (LOCK_NB). That the user ever closes a launcher is not assumed.
* `NxLock` (`FairSpec`, used by the violated property only): weak fairness of `Poll` (the
  main thread runs after a batch) and of the worker (PAM answers). That Wayland events keep
  coming is not assumed: the thread blocks in `blocking_dispatch` and nothing wakes it.
* `ControlIpc`: weak fairness of each task (tokio polls its tasks), of the main loop's
  steps (calloop turns) and of a waiting client's read. Nobody has to cancel, close,
  quit or signal.
* `Notifd`: weak fairness of the thread's loop (it polls and never blocks), of the calls
  in `send` (tokio wakes them when there is room or the receiver is gone) and of the relay.
* `Slate` states safety only: its thread blocks in `blocking_dispatch` like that of
  `NxLock`, so that output is drawn in the end is not something the code sees to.
* `Settings`: weak fairness of every reload task (tokio polls it, and a connection
  answers or fails). Nobody has to press a key.
* `LockSession` (`FairSpec`, used by the violated property only): both ends read what
  was sent to them.
* `Programs` (`ProgramsFairness`) gives the launcher lock and the reload tasks the fairness
  of their modules while that part runs.
* `Desktop`, `FrameFiles`, `ShmPool`, `Greeter`, `LauncherWindow` and `History`
  state safety only.

## 5. What is proved

| theorem | for every | says |
|---|---|---|
| `DesktopProofs!LayoutCorrect` | count, windows, ids, clients, lockers | `TypeOK`, `NeverLost` |
| `DesktopProofs!LockedKeyboardCorrect` | " | `LockedKeyboard` |
| `DesktopProofs!EntersSpaceOnlyCorrect` | " | `EntersSpaceOnly` (action property) |
| `DesktopProofs!SlotStaysHomeCorrect` | " | `SlotStaysHome` (action property) |
| `LauncherProofs!NoLeakedLockCorrect`, `OnePerFileCorrect` | launchers, inodes | `NoLeakedLock`, `TypeOK` and `OnePerFile` |
| `NxLockProofs!AttemptsCorrect`, `ExitNeedsApprovalCorrect` | `MaxFails` | `TypeOK`, `OneOutstanding`, `PendingFieldEmpty`; `ExitNeedsApproval` |
| `ShmPoolProofs!PoolCorrect` | pool bound, buffers, sizes | `TypeOK`, `FlagsAreTrue`, `PoolIsUniform` |
| `ControlIpcProofs!OneCommandCorrect` | connections, requests | `TypeOK`, `OneCommandPerTask` |
| `ControlIpcProofs!RepliesInOrderCorrect` | " | `RepliesInOrder` |
| `NotifdProofs!KeepsPromiseCorrect`, `TypeCorrect` | calls, named ids, time-outs, sizes of the channels and of the stack | `Notifd` refines `Toasts`; `TypeOK` |
| `ProgramsProofs!TypesHold` | the constants of all the programs below | `ProgramsTypeOK` |
| `ProgramsProofs!InStepHolds`, `DialogueHolds` | users | `InStep`; the greeter refines `LoginDialogue` |
| `ProgramsProofs!SizesAgreeHolds`, `NoLostWakeupHolds` | sizes, changes, unread messages | `SizesAgree`; `NoLostWakeup` |
| `ProgramsProofs!ReloadTakesHolds` | saves (good or broken), reloads | `ReloadTakes` |
| `ProgramsProofs!EnterLaunchesShownHolds` | entries, scores, limit | `EnterLaunchesShown` (action property) |
| `ProgramsProofs!OverridesWinHolds` | entries, files, desktops | `OverridesWin` |
| `ProgramsProofs!RecentOnDiskHolds` | length of a replay, lines of any length | `RecentOnDisk` |
| `ProgramsProofs!BackoffScheduleHolds` | initial pause, cap, tries | `BackoffSchedule` |
| `ProgramsProofs!RunningIsFoundHolds` | compositors | `RunningIsFound` |
| `ProgramsProofs!LocksHold` | launchers, inodes | `NoLeakedLock`, `OnePerFile` |

Every safety property that a run checks and finds to hold, invariant or action property,
and both refinements, are stated by one of these theorems, of the specification the run
checks (whose fairness no proof uses). Where a theorem states several properties, `TypeCorrect`,
`PendingFieldEmptyCorrect` and `PoolIsUniformCorrect` state them one by one, as
corollaries. `InStepCorrect`, `DialogueCorrect`, `ReloadTakesCorrect` (`ClientsProofs`)
and `RunningIsFoundCorrect` say of a program by itself what the theorems of
`ProgramsProofs` say of it among the others.

Assumptions: the named `ASSUME`s of the modules, all of which TLC evaluates in the runs.
They say that sentinel values are not elements of the sets they complete; that
`ConfigCount` is a `u8`; that `OwnerOf` is a function; that a pool has room for
at least the two buffers `new` allocates; that bounds are numbers and sizes of channels
at least 1; and in `Programs` that the empty user name is a name (`UserAssumption`), that
a typed message is not a size (`SlateAssumption`), that keys are
numbers (`EntryAssumption`) and scores natural ones, with the empty query among the queries
(`ScoreAssumption`), that the limit is at least 1 (`LimitAssumption`), and that the initial pause
is positive and not above the cap (`BackoffAssumption`). No theorem has a hypothesis of its own.

How the arguments go:

* **Desktop.** The inductive invariant `Layout` joins `TypeOK`, `NoDuplicates` (no space
  lists a window twice), `DragHasWindow`, `Identified` (a living window has an id) and
  `NeverLost`. None is inductive alone: `NeverLost` needs that a
  space holds a window once (else one removal would not be the end of it, and a
  removal of another window could not be told apart), and the drag needs to carry a
  real window. The lemmas on `Unmap` and `MapOnTop` say what a space contains
  afterwards; each handler is then `UNCHANGED`, a map, an unmap or a move
  (`MapStep`, `UnmapStep`, `MoveStep`). `SlotStaysHome` compares two states: where a
  window's id is its own before and after a step, the search by id finds this window or
  none, so a planned move takes the slot where the window goes, and a window that is
  born or dies has another id.
* **LauncherLock** (`LauncherProofs`). `Inv` says that the holder of an inode is a process
  that runs with that inode open, and conversely that a running process with a file holds
  it; `OnePerFile` follows since an inode has one holder.
* **NxLock.** `OneOutstanding` is a count over both channels and the worker. The
  strengthening says that an attempt is pending only below the bound on failures, that
  `stage` and `checking` agree, that an "ok" in the channel is PAM's, and that before the
  end nothing is asked for and `code` is 1 exactly if `quit` is set.
* **ShmPool.** The invariant adds that releases and held buffers are disjoint and that
  identities in the pool are distinct, so a release sets exactly one flag.

* **ControlIpc.** The types are strengthened by the two ends: once the loop is dropped the
  queue is empty, and once the process is gone every task is. `OneCommand` says
  `OneCommandPerTask` of one connection; taking the head of the queue shifts the positions
  of all commands, so the proof of `Handle` carries them over one by one. `RepliesInOrder`
  speaks of a concatenation, which no step preserves syntactically; `InOrder` says the same
  of the three channels separately (each response, by the line it was written for, and each
  line is the last one sent minus the number of requests behind it), is inductive with the
  types, and `OnTheWayInOrder` puts it together again.
* **FrameFiles** (`ProgramsProofs`). `RunningIsFound` is strengthened to every step of
  start-up: at each `pc` it says which of the two files the process has already replaced,
  for a process that has met no other; a process that shares its time with another is in
  `met`, and so are both, which is why no step of one can touch the files of the other
  unmet.
* **Notifd.** `Places` says that a call is in one place at a time (`send`, channel, queue,
  screen: `Apart`), once in it (`Once`), that its number was given out (`Numbered`), and
  that an ended thread has left nothing (`Gone`). With it the abstract state (sent,
  waiting, shown, up) can be read off, and each step of the daemon is one of `Toasts`: a
  call sends; a round takes what came, replaces, queues or closes, fills the stack from
  the queue in order (`PumpShape`) and drops what has timed out; or it changes nothing the
  promise speaks of. `Toasts` forbids that a note that is gone comes back, which is why
  the invariant must know that a call is nowhere else.
* **Greeter** (`ClientsProofs`). The invariant says at each `pc` in which phase greetd's session is:
  the two round trips of a submit and the cancel that follows a failure; it claims
  nothing once the connection is lost. With it every request is one the dialogue
  accepts in its phase (`StepUnderstood`), which is the refinement.
* **Settings** (`ClientsProofs`). No task was started for, and FRAME has loaded, a version newer
  than the file, and what it has loaded could be loaded; FRAME takes the newest or, where that
  is broken, the fallback, and either keeps what an answer promises.
* **Slate** (`ClientsProofs`). `SizesAgree` speaks of what the shell will have once it has
  read its channel, so a resize must be the last one in it (`ToplevelConfigureInv`,
  `PtyRecvInv`). `Session` says that there is a shell exactly when the session was
  started, and no message before; `Notices` keeps the dirty channel below the changes of
  the grid, which is what its type asks for. `NoLostWakeup` is inductive with these
  (`NextWakeup`): the drain takes the notices and redraws in one step, and a change of the grid
  is marked before it is announced.
* **History** (`ClientsProofs`). `RecentOnDisk` is about both files together, and a kill
  may come between any two steps, so the invariant describes the files and not the steps:
  there is a line b (the newest one of the rotated file) such that the rotated file ends in
  the lines up to b, the current one in the lines after b, and in the `Recent` newest ones
  once it is not `short` of them (`Files(b)`). A rotation that begins while the file is
  `short` may rename away what the other file still needs; that is `torn`, and from then on only
  the order of the lines is claimed. `Replaying` ties a replay in progress to the
  rotated file, `Descriptor` the open file to its name.
* **Client::connect**: a pause doubles until it meets the cap; that
  2^(n+1) is 2 * 2^n is proved by counting subsets (`PowerOfTwo`), because the SMT backend
  knows no exponentials.
* **LauncherWindow** (`LauncherProofs`). `scan` is a fold over the entries. Theorems that
  take an operator cannot be used, but induction over *sets* of numbers follows from
  the least number of a set (`SetInduction`); with it the fold has a table of its
  intermediate results (`TableExists`, `TableSteps`), each of which is the set of winners
  among the entries read so far (`InsertStep`, `KeptAreWinners`). The same induction shows
  that a finite set that is totally ordered has an order (`OrderExists`), so the ranking of
  the results is what the sort returns; any list that `Scan` admits names every kept entry once
  (`ListIsOnto`). `LInv` then says that the selection is within the results and that the last
  frame, unless it gave up, drew what is selected, from which `EnterLaunches` concludes what Enter
  launches.
* **Programs.** `PInv` joins the invariants above. A step is one of the program that runs
  and leaves the variables of the others alone (`OneProgram`); the two Booleans that
  several programs use in turn (`configured`, `should_close`) are followed by `Flags`.

Only model-checked: liveness (`StartsOrExits`, `Answered`, `CallsReturn`, `ToastsEnd`,
`ReloadEnds`), because the prover has no rules for fairness and ENABLED. Not proved either
is what a property of these does not need: the definitions of `WorkspaceManager` are used by
the proofs about `Desktop`, but what `PlanMove` and the others promise by themselves is not
stated.

## 6. Divergences from the documentation

Shown by a run:

1. **A window on two workspaces** (`Desktop_OneSpacePerWindow`). The drag of
   `move_grab.rs:37-39` maps into the workspace that is active *now*. Switch during a
   drag, by key or control socket, and the window is on both.
2. **Two launchers** (`LauncherLock_SingleInstance`). `LockGuard::drop` removes the
   name while the flock is still held; who has the old file open locks that, and a
   third locks a new one.
3. **An approved password that does not unlock** (`NxLock_CorrectPasswordUnlocks`).
   PAM's answer is read only after the next Wayland event.
4. **A notification that is never shown** (`Notifd_QueuedIsShown`). Only `enqueue` calls
   `pump_visible`, so a place that becomes free stays free until the next `Notify`.
5. **A lock without an owner** (`LockSession_ExitRestoresFocus`). When the lock client is
   killed FRAME keeps its request: the keyboard stays at nobody, input stays dropped, and
   every later `nullxes-lock` is refused. The run shows the kill; that a refused process
   leaves a lock is not what it shows.
6. **A focus slot that names a window elsewhere** (`Desktop_SlotPointsHome`).
   `toplevel_destroyed` clears the active workspace's slot only (`xdg_shell.rs:134`); the slot
   of the workspace that showed the window keeps the id, the client's next window gets it, and
   from then on the slot names a window that its workspace (`workspace.rs:4-5`) does not show.

Seen while modelling, without a run of their own:

* A dead window that is being dragged is mapped again by the next motion.
* Super+Q closes the window of the focus slot, which a click does not set, so it may
  not be the one with the keyboard; after a switch the keyboard stays with a window
  that is not shown. With colliding ids it may be another client's window.
* `MoveFocused` answers Ok although nothing may have moved (`keybind.rs:84-94`).
* The launcher asks for the keyboard exclusively (`launcher/state.rs:92`), but FRAME gives
  the focus to windows only (`input/mod.rs:105-130`, `session_lock.rs`), never to a layer
  surface.
* FRAME never confirms a lock and gives no lock surface the keyboard; `nx-lock` binds no
  outputs (`nx-lock/state.rs:376`), so it never creates a lock surface.
* The comment at `nx-lock/state.rs:213` ("exiting nonzero so systemd respawns us") counts
  on a respawn; while a dead client's lock is kept, every respawn is refused again.
* `slate/main.rs:6` speaks of a wakeup byte; there is none: the dirty channel is read after
  the next Wayland event, and without one the output is never drawn. `NoLostWakeup` is what
  is left: the next batch of events brings the redraw. Lines 10-12 say the window closes
  with its child; `send_event` turns `ChildExit` into an ordinary dirty notice and
  `should_close` stays false.
* `nx-greet/state.rs:133` asks for a user name only while the name field has the focus; Tab
  and Enter submit an empty name. greetd's question is not looked at: every prompt is
  answered from the password field. A name edited after the prompt does not end the old
  user's dialogue: the password goes to that one (`state.rs:151`).
* `launcher/apps.rs:5` says `Hidden` is honoured; it is not read, and such an entry is
  listed. A user's entry with `NoDisplay`, or not for this desktop, does not hide the
  system's of the same name, although `apps.rs:8-9` prefers the user's: it is dropped before
  the comparison. Names that differ in case only are listed in no fixed order
  (`apps.rs:90-91`).
* `nx-notif/history.rs:5-6` says that rotation writes the last half of the file to
  `notifications.json.0`; the whole file is renamed to it. No line is bounded, so a second
  rotation may come fewer than 256 lines after one that broke off (`history.rs:61-75`); it
  renames the short file over the one that still held the recent lines.
* `save_frame` and `write_atomic` (`nx-settings/conf.rs`), `IdleTracker`'s methods and
  `XwmState::handle_event` are called by nothing: the session is not locked on idle, and FRAME
  never hears of an Xwayland that is ready or dead.
* `Reload.Config` is answered Ok, and `nx-settings` prints "FRAME reloaded", also when
  `frame.toml` could not be read or parsed and the fallback is in force (`config.rs:130-143`,
  `ipc_server.rs:194-197`). Its log line says "using defaults", but the next path is tried.
* `nx-settings` shares one status line between all reload tasks: a later report overwrites an
  earlier one, and none is drawn before the next event.
* `finished` and an approval in one batch exit with 0, although the comment at
  `nx-lock/state.rs:213` promises a nonzero exit: `poll_auth` runs last and
  sets 0. `ExitNeedsApproval` is what does hold.
* `unlock_and_destroy` is only buffered when the process ends (`nx-lock/state.rs:108`).
* `Client::request` never compares ids (`ipc/client.rs:73-83`): after a cancelled
  request each later one is answered with its predecessor's reply.
* The documented bound of 256 on the channel to FRAME's main loop and the reply `Busy`
  (`ipc_server.rs:14`) are not in the code: the channel is unbounded (lines 79-80).
* `ipc_server.rs:66-67` removes "any stale socket", also that of a running FRAME.
* `nx-notif`'s thread never flushes nor reads its socket (`surface.rs:274` dispatches
  only what was read before), so toasts are not configured. A replaced toast is not drawn
  again although a comment says "Force redraw" (`surface.rs:95`), and a time-out of 0,
  "sticky" by `surface.rs:44`, becomes 1 ms: such a toast ends as soon as the clock moves.

## 7. What is not modelled, and why

* Rendering, fonts, keysyms, themes and their exporters (`render.rs`, `draw.rs`,
  `keymap.rs`, `fonts.rs`, crate `theme`): functions of their input, without state that
  outlives a call. A redraw is modelled as far as it may give up and as far as it
  matters what it showed.
* DRM, udev, VT switches and page flips: device I/O. Start-up and shutdown order is in
  `FrameFiles`, the end of the loop in `ControlIpc`.
* `idle.rs` and the respawning of `xwm.rs`: nothing calls `touch`, `tick`, `update_config`
  or `handle_event`, so in the program these state machines never leave the state that boot
  puts them in. A model would have to invent their callers.
* Panel widgets and D-Bus listeners: each shows the last value it heard.
* The TOML parser and the default values of the configuration. What the other parts see
  of a configuration (count, `wrap`, the version a reload brings) is in their modules.
* Pointer coordinates, scrolling, popups, resize and fullscreen requests in FRAME:
  geometry or no-ops. Layer surfaces and their keyboard focus; several outputs.
* The score of a fuzzy match, desktop-file syntax, the commands launched.
* A line of the history, or of the control socket, that is written in part; the wrap of
  notification ids at 2^32.
* `xtask`, packaging and the ISO have no run-time state.

## 8. Plan

Done: every module of section 2, its runs, and the proofs of section 5, which reach every
safety property of the runs.

Next, in this order:

1. Abstract specifications: `RequestReply` for `ControlIpc` (each request is pending, then
   answered or hung up on), which gives `Answered` a safety part that can be proved, and
   `LockPromise` for `NxLock`.
2. Lemmas about `WorkspaceManager` by itself: a switch out of range changes nothing, a
   planned move leaves the source's slot consistent.
3. Layer surfaces and their keyboard focus in `Desktop`; several outputs.
4. `Idle` and `Xwm`, once something calls them.

---------------------------------- MODULE Slate ----------------------------------
(***************************************************************************)
(* One SLATE process: the Wayland thread (events in batches, the drain of   *)
(* the dirty channel after each batch, redraw) and the PTY thread of        *)
(* alacritty_terminal with the shell behind it.  They share the grid, whose *)
(* contents are a version number here, and two channels: dirty notices one  *)
(* way, input and window sizes the other.  A draw may fail, as ShmPool says *)
(* when; cells, fonts and the blinking cursor are left out.                 *)
(***************************************************************************)
EXTENDS Integers, SequencesExt

CONSTANTS
  WindowSize,  (* sizes the toplevel is configured to                         *)
  MaxOutput,   (* bound: changes of the grid                                  *)
  MaxMsgs      (* bound: unread messages to the PTY thread                    *)

VARIABLES
  configured, should_close,
  window,    (* width and height                                              *)
  pool,      (* buffer.is_some()                                              *)
  term,      (* the terminal session was started                              *)
  dirty,     (* notices in the channel                                        *)
  loop,      (* the Wayland thread: blocked, in a batch of events, or ended   *)
  shown,     (* version of the grid on the screen; -1 before any commit       *)
  skipped,   (* the last redraw gave up                                       *)
  grid, gridSize,  (* the shared grid                                         *)
  msgs,      (* the channel to the PTY thread                                 *)
  ptySize,   (* the window size the shell sees                                *)
  changed,   (* the PTY thread has changed the grid and not said so yet       *)
  child      (* the shell                                                     *)

screen == <<shown, skipped>>
shared == <<grid, gridSize, dirty, msgs>>
pty == <<ptySize, changed, child>>
vars == <<configured, should_close, window, pool, term, loop, screen, shared, pty>>

Init ==
  /\ configured = FALSE /\ should_close = FALSE
  /\ window \in WindowSize
  /\ pool = FALSE /\ term = FALSE
  /\ dirty = 0
  /\ loop = "wait"
  /\ shown = -1 /\ skipped = FALSE
  /\ grid = 0 /\ gridSize = window
  /\ msgs = <<>>
  /\ ptySize = window
  /\ changed = FALSE
  /\ child = "none"

-------------------------------------------------------------------------------
(* The Wayland thread: blocking_dispatch returns after one event or more.   *)
Dispatch == loop \in {"wait", "batch"} /\ loop' = "batch"

(* ensure_term: no PTY may be had; the next redraw tries again.             *)
EnsureTerm ==
  \/ UNCHANGED <<term, gridSize, ptySize, child>>
  \/ /\ ~term
     /\ term' = TRUE /\ child' = "running"
     /\ gridSize' = window /\ ptySize' = window

(* redraw: the pool may not come up, or draw may find no buffer; otherwise  *)
(* the grid as it is now is committed (blank, where there is no terminal).  *)
Redraw ==
  /\ EnsureTerm
  /\ \/ /\ ~pool /\ UNCHANGED <<pool, shown>> /\ skipped' = TRUE
     \/ /\ pool' = TRUE
        /\ \/ shown' = grid /\ skipped' = FALSE
           \/ shown' = shown /\ skipped' = TRUE

(* xdg_surface.configure.                                                   *)
Configure ==
  /\ Dispatch
  /\ configured' = TRUE
  /\ Redraw
  /\ UNCHANGED <<should_close, window, grid, dirty, msgs, changed>>

(* Mutant of ToplevelConfigure: only the grid is resized.                   *)
ToplevelConfigureGridOnly(size) ==
  /\ Dispatch
  /\ size # window
  /\ window' = size
  /\ gridSize' = IF term THEN size ELSE gridSize
  /\ UNCHANGED <<configured, should_close, pool, term, screen, grid, dirty, msgs, pty>>

(* xdg_toplevel.configure: a new size is told to the PTY thread, and the    *)
(* grid gets it at once; it is painted by the configure that follows.       *)
ToplevelConfigure(size) ==
  /\ Dispatch
  /\ size # window
  /\ window' = size
  /\ IF term THEN Len(msgs) < MaxMsgs /\ msgs' = Append(msgs, size) /\ gridSize' = size
     ELSE UNCHANGED <<msgs, gridSize>>
  /\ UNCHANGED <<configured, should_close, pool, term, screen, grid, dirty, pty>>

(* A key press: bytes for the shell, dropped while there is no terminal.    *)
Key ==
  /\ Dispatch
  /\ IF term THEN Len(msgs) < MaxMsgs /\ msgs' = Append(msgs, "input") ELSE UNCHANGED msgs
  /\ UNCHANGED <<configured, should_close, window, pool, term, screen, grid, gridSize, dirty, pty>>

Close ==
  /\ Dispatch
  /\ should_close' = TRUE
  /\ UNCHANGED <<configured, window, pool, term, screen, shared, pty>>

(* Any event that changes nothing here: a release, a modifier, a ping.      *)
OtherEvent ==
  /\ Dispatch
  /\ UNCHANGED <<configured, should_close, window, pool, term, screen, shared, pty>>

(* Mutant of Drain: the notices are taken and the redraw is left to the     *)
(* next configure.                                                          *)
DrainNoRedraw ==
  /\ loop = "batch"
  /\ loop' = IF should_close THEN "exited" ELSE "wait"
  /\ dirty' = 0
  /\ UNCHANGED <<configured, should_close, window, pool, term, screen, grid, gridSize, msgs, pty>>

(* After the batch: all notices are taken and one redraw answers them.      *)
Drain ==
  /\ loop = "batch"
  /\ loop' = IF should_close THEN "exited" ELSE "wait"
  /\ dirty' = 0
  /\ IF dirty > 0 THEN Redraw ELSE UNCHANGED <<pool, term, screen, gridSize, ptySize, child>>
  /\ UNCHANGED <<configured, should_close, window, grid, msgs, changed>>

-------------------------------------------------------------------------------
(* The PTY thread: it lives while the shell does.                           *)
PtyRuns == loop # "exited" /\ child = "running"

(* Output of the shell is parsed into the grid under its lock ...           *)
PtyOutput ==
  /\ PtyRuns /\ ~changed
  /\ grid < MaxOutput
  /\ grid' = grid + 1
  /\ changed' = TRUE
  /\ UNCHANGED <<configured, should_close, window, pool, term, loop, screen, gridSize, dirty,
                 msgs, ptySize, child>>

(* ... and then send_event passes the wake-up on.                           *)
PtyWakeup ==
  /\ PtyRuns /\ changed
  /\ changed' = FALSE
  /\ dirty' = dirty + 1
  /\ UNCHANGED <<configured, should_close, window, pool, term, loop, screen, grid, gridSize,
                 msgs, ptySize, child>>

PtyRecv ==
  /\ PtyRuns
  /\ msgs # <<>>
  /\ msgs' = Tail(msgs)
  /\ ptySize' = IF Head(msgs) = "input" THEN ptySize ELSE Head(msgs)
  /\ UNCHANGED <<configured, should_close, window, pool, term, loop, screen, grid, gridSize,
                 dirty, changed, child>>

(* The shell ends: send_event sends the same notice for ChildExit.          *)
ChildExit ==
  /\ PtyRuns /\ ~changed
  /\ child' = "exited"
  /\ dirty' = dirty + 1
  /\ UNCHANGED <<configured, should_close, window, pool, term, loop, screen, grid, gridSize,
                 msgs, ptySize, changed>>

Next ==
  \/ Configure \/ (\E size \in WindowSize : ToplevelConfigure(size))
  \/ Key \/ Close \/ OtherEvent \/ Drain
  \/ PtyOutput \/ PtyWakeup \/ PtyRecv \/ ChildExit

Spec == Init /\ [][Next]_vars

-------------------------------------------------------------------------------
(* Type correctness of every variable.                                      *)
TypeOK ==
  /\ configured \in BOOLEAN /\ should_close \in BOOLEAN
  /\ window \in WindowSize /\ gridSize \in WindowSize /\ ptySize \in WindowSize
  /\ pool \in BOOLEAN /\ term \in BOOLEAN
  /\ dirty \in 0..(MaxOutput + 1)
  /\ loop \in {"wait", "batch", "exited"}
  /\ shown \in -1..MaxOutput /\ skipped \in BOOLEAN
  /\ grid \in 0..MaxOutput
  /\ msgs \in Seq(WindowSize \union {"input"}) /\ Len(msgs) <= MaxMsgs
  /\ changed \in BOOLEAN
  /\ child \in {"none", "running", "exited"}

(* What the renderer reads is of the window's size, and so is what the      *)
(* shell believes of the window once it has read all that was sent to it:   *)
(* the last size in the channel, or the one it has if none is there.        *)
SizesAgree ==
  term => /\ gridSize = window
          /\ \A k \in DOMAIN msgs :
               msgs[k] # "input" /\ (\A j \in DOMAIN msgs : j > k => msgs[j] = "input")
                 => msgs[k] = window
          /\ ptySize = window \/ \E k \in DOMAIN msgs : msgs[k] # "input"

(* No wake-up is lost: while the screen is behind the grid, a notice is in  *)
(* the channel or about to be sent, so that the next batch of events ends   *)
(* with a redraw; unless the last redraw gave up.  That an event comes is   *)
(* not claimed.                                                             *)
NoLostWakeup ==
  term /\ shown # grid /\ loop # "exited" => dirty > 0 \/ changed \/ skipped

===============================================================================

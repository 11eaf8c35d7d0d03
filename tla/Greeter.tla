--------------------------------- MODULE Greeter ---------------------------------
(***************************************************************************)
(* One nx-greet process and its conversation with greetd.  The greeter has  *)
(* one thread: it dispatches a batch of Wayland events, and a submit blocks *)
(* it for a whole round trip.  What it knows of the dialogue is the flag    *)
(* awaiting; the dialogue itself is greetd's (phase, account, last), which  *)
(* refuses what comes out of turn.  Painting is left out.                   *)
(***************************************************************************)
EXTENDS LoginDialogue

VARIABLES
  username, password,  (* the two fields; a password is "typed" or "empty"    *)
  focus,
  error,       (* an error line is shown                                      *)
  pending,
  awaiting,    (* awaiting_response                                           *)
  should_close,
  conn,        (* greetd: no connection yet, one that works, a broken one     *)
  pc           (* dispatching, between two round trips of a submit, or ended  *)

fields == <<username, password, focus>>
vars == <<dialogue, fields, error, pending, awaiting, should_close, conn, pc>>

GInit ==
  /\ Init
  /\ username = "empty" /\ password = "empty"
  /\ focus = "Username"
  /\ error = FALSE
  /\ pending = FALSE /\ awaiting = FALSE
  /\ should_close = FALSE
  /\ conn = "none"
  /\ pc = "dispatch"

-------------------------------------------------------------------------------
(* greetd.                                                                  *)

Refuse == last' = "refused" /\ UNCHANGED <<phase, account>>

CreateSession ==
  IF phase = "none" THEN Create /\ account' = username ELSE Refuse

PostAuthResponse == IF phase = "asked" THEN Answer ELSE Refuse

StartSession == IF phase = "passed" THEN Start ELSE Refuse

(* classify: the outcome of the answer to the request just handled.         *)
Classify ==
  CASE last = "refused" \/ phase = "failed" -> "failure"
    [] last # "refused" /\ phase = "asked" -> "prompt"
    [] OTHER -> "success"

(* One round trip.  It fails for good when the connection breaks, before or *)
(* after greetd has handled the request; the first one connects.            *)
Exchange(Request, outcome) ==
  \/ conn # "broken" /\ Request /\ conn' = "up" /\ outcome = Classify'
  \/ conn # "broken" /\ (Request \/ UNCHANGED dialogue) /\ conn' = "broken" /\ outcome = "io"
  \/ conn = "broken" /\ UNCHANGED <<dialogue, conn>> /\ outcome = "io"

-------------------------------------------------------------------------------
(* submit: its branches on the outcome of the first round trip.  Success    *)
(* and failure make a second one before submit returns.                     *)

OnPrompt ==
  /\ awaiting' = TRUE /\ focus' = "Password" /\ error' = FALSE
  /\ UNCHANGED <<pending, pc>>

OnSuccess ==
  /\ pending' = TRUE /\ pc' = "start"
  /\ UNCHANGED <<awaiting, focus, error>>

(* Mutant of OnFailure: the failed dialogue is not cancelled.               *)
OnFailureNoCancel ==
  /\ awaiting' = FALSE /\ focus' = "Password" /\ error' = TRUE
  /\ UNCHANGED <<pending, pc>>

OnFailure ==
  /\ awaiting' = FALSE /\ focus' = "Password" /\ error' = TRUE
  /\ pending' = TRUE /\ pc' = "cancel"

OnError ==
  /\ error' = TRUE
  /\ UNCHANGED <<awaiting, focus, pending, pc>>

Outcomes == {"prompt", "success", "failure", "io"}

Respond(outcome) ==
  \/ outcome = "prompt" /\ OnPrompt
  \/ outcome = "success" /\ OnSuccess
  \/ outcome = "failure" /\ OnFailure
  \/ outcome = "io" /\ OnError

(* Enter, where it does more than move the focus.                           *)
Submitting == pc = "dispatch" /\ ~pending /\ (focus = "Password" \/ awaiting)
NameMissing == username = "empty" /\ focus = "Username"

(* The name is missing, or there is no connection and none can be had.      *)
SubmitRejected ==
  /\ Submitting
  /\ NameMissing \/ conn = "none"
  /\ error' = TRUE
  /\ UNCHANGED <<dialogue, fields, pending, awaiting, should_close, conn, pc>>

SubmitName ==
  /\ Submitting /\ ~NameMissing /\ ~awaiting
  /\ \E outcome \in Outcomes :
       /\ Exchange(CreateSession, outcome)
       /\ Respond(outcome)
       /\ password' = IF outcome = "failure" THEN "empty" ELSE password
  /\ UNCHANGED <<username, should_close>>

(* The password leaves the field with the request.                          *)
SubmitPassword ==
  /\ Submitting /\ ~NameMissing /\ awaiting
  /\ \E outcome \in Outcomes : Exchange(PostAuthResponse, outcome) /\ Respond(outcome)
  /\ password' = "empty"
  /\ UNCHANGED <<username, should_close>>

(* The answer to start_session is ignored, an error too.                    *)
SubmitStarts ==
  /\ pc = "start"
  /\ \E outcome \in Outcomes : Exchange(StartSession, outcome)
  /\ should_close' = TRUE
  /\ pc' = "dispatch"
  /\ UNCHANGED <<fields, error, pending, awaiting>>

(* So is the answer to cancel.                                              *)
SubmitCancels ==
  /\ pc = "cancel"
  /\ \E outcome \in Outcomes : Exchange(Cancel, outcome)
  /\ pending' = FALSE
  /\ pc' = "dispatch"
  /\ UNCHANGED <<fields, error, awaiting, should_close>>

-------------------------------------------------------------------------------
(* The other keys and events.                                               *)

Tab ==
  /\ pc = "dispatch"
  /\ focus' = IF focus = "Username" THEN "Password" ELSE "Username"
  /\ UNCHANGED <<dialogue, username, password, error, pending, awaiting, should_close, conn, pc>>

EnterMovesOn ==
  /\ pc = "dispatch"
  /\ focus = "Username" /\ ~awaiting
  /\ focus' = "Password"
  /\ UNCHANGED <<dialogue, username, password, error, pending, awaiting, should_close, conn, pc>>

(* Text, unless a submit is pending, or Backspace in the focused field.     *)
EditText ==
  /\ pc = "dispatch"
  /\ \/ focus = "Username" /\ username' \in User /\ UNCHANGED password
     \/ focus = "Password" /\ password' \in {"empty", "typed"} /\ UNCHANGED username
  /\ pending => (username' \in {username, "empty"} /\ password' \in {password, "empty"})
  /\ UNCHANGED <<dialogue, focus, error, pending, awaiting, should_close, conn, pc>>

(* Mutant of Escape: the answer already asked for is still expected.        *)
EscapeKeepsAwaiting ==
  /\ pc = "dispatch"
  /\ username' = "empty" /\ password' = "empty"
  /\ error' = FALSE
  /\ IF conn = "none" THEN UNCHANGED <<dialogue, conn>>
     ELSE \E outcome \in Outcomes : Exchange(Cancel, outcome)
  /\ UNCHANGED <<focus, pending, awaiting, should_close, pc>>

(* Escape clears the fields and, where there is a connection, cancels.      *)
Escape ==
  /\ pc = "dispatch"
  /\ username' = "empty" /\ password' = "empty"
  /\ awaiting' = FALSE /\ error' = FALSE
  /\ IF conn = "none" THEN UNCHANGED <<dialogue, conn>>
     ELSE \E outcome \in Outcomes : Exchange(Cancel, outcome)
  /\ UNCHANGED <<focus, pending, should_close, pc>>

Close ==
  /\ pc = "dispatch"
  /\ should_close' = TRUE
  /\ UNCHANGED <<dialogue, fields, error, pending, awaiting, conn, pc>>

(* run's loop ends after the batch that set should_close, or by an error.   *)
Leave ==
  /\ pc = "dispatch"
  /\ pc' = "exited"
  /\ UNCHANGED <<dialogue, fields, error, pending, awaiting, should_close, conn>>

GNext ==
  \/ SubmitRejected \/ SubmitName \/ SubmitPassword \/ SubmitStarts \/ SubmitCancels
  \/ Tab \/ EnterMovesOn \/ EditText \/ Escape \/ Close \/ Leave

GSpec == GInit /\ [][GNext]_vars

-------------------------------------------------------------------------------
(* Type correctness of every variable.                                      *)
GTypeOK ==
  /\ phase \in {"none", "asked", "passed", "failed", "started"}
  /\ account \in User \union {"nobody"}
  /\ last \in {"none", "create", "answer", "start", "cancel", "refused"}
  /\ username \in User
  /\ password \in {"empty", "typed"}
  /\ focus \in {"Username", "Password"}
  /\ error \in BOOLEAN /\ pending \in BOOLEAN /\ awaiting \in BOOLEAN
  /\ should_close \in BOOLEAN
  /\ conn \in {"none", "up", "broken"}
  /\ pc \in {"dispatch", "start", "cancel", "exited"}

(* While the connection lives, the greeter's flag tells what greetd waits   *)
(* for: an answer exactly when it has asked, a user name when no session is *)
(* under configuration.  A refused, failed, cancelled or edited attempt can *)
(* therefore always be followed by another one.                             *)
InStep ==
  pc = "dispatch" /\ conn = "up" /\ ~pending =>
    phase = IF awaiting THEN "asked" ELSE "none"

(* The requests the greeter sends are a dialogue greetd understands, none   *)
(* of them out of turn.                                                     *)
KeepsToTheDialogue == Spec
===============================================================================

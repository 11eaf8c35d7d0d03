-------------------------------- MODULE NxLock --------------------------------
(***************************************************************************)
(* One nullxes-lock process: its main thread, which dispatches Wayland     *)
(* events in batches and looks for PAM answers after each batch, and the   *)
(* worker thread that asks PAM.  The compositor is any that speaks         *)
(* ext-session-lock-v1, the user types what they like, and PAM may refuse  *)
(* a right password (an expired account, a session that will not open).    *)
(* Painting and outputs are left out.                                      *)
(***************************************************************************)
EXTENDS Integers, Sequences

CONSTANT MaxFails   (* bound: no attempt is made after so many failures      *)

ASSUME MaxFailsAssumption == MaxFails \in Nat

VARIABLES
  password,  (* what the field holds                                         *)
  pending,   (* LockState.pending                                            *)
  fails,     (* LockState.fail_count                                         *)
  quit,      (* LockState.should_quit                                        *)
  code,      (* LockState.exit_code, then the process's exit status          *)
  asked,     (* unlock_and_destroy was called: the request lies in the       *)
             (* connection's buffer, and the loop ends without sending it    *)
  requests,  (* the channel to the worker                                    *)
  checking,  (* the password the worker has given to PAM, or "none"          *)
  stage,     (* the PAM call the worker is in                                *)
  answers,   (* the channel back                                             *)
  accepted,  (* history: PAM has accepted the right password                 *)
  pc         (* the main thread: blocked, inside a batch of events, or ended *)

field == <<password, pending, fails>>
ending == <<quit, code, asked>>
auth == <<requests, checking, stage, answers, accepted>>
vars == <<field, ending, auth, pc>>

(* All that matters of a password is whether it is empty or the right one.  *)
Password == {"empty", "right", "wrong"}
Answer == {"ok", "fail"}

Init ==
  /\ password = "empty"
  /\ pending = FALSE
  /\ fails = 0
  /\ quit = FALSE
  /\ code = 0
  /\ asked = FALSE
  /\ requests = <<>>
  /\ checking = "none"
  /\ stage = "idle"
  /\ answers = <<>>
  /\ accepted = FALSE
  /\ pc = "wait"

-------------------------------------------------------------------------------
(* The main thread: blocking_dispatch returns after one event or several.   *)

Dispatch ==
  /\ pc \in {"wait", "batch"}
  /\ pc' = "batch"

(* Characters are appended, unless PAM is being asked.                      *)
HandleText ==
  /\ Dispatch
  /\ IF pending THEN password' = password
     ELSE password' \in IF password = "right" THEN {"wrong"} ELSE {"right", "wrong"}
  /\ UNCHANGED <<pending, fails, ending, auth>>

(* Backspace may leave any beginning of the text.                           *)
Backspace ==
  /\ Dispatch
  /\ password' \in CASE password = "empty" -> {"empty"}
                     [] password = "right" -> {"empty", "wrong"}
                     [] password = "wrong" -> Password
  /\ UNCHANGED <<pending, fails, ending, auth>>

Escape ==
  /\ Dispatch
  /\ password' = "empty"
  /\ UNCHANGED <<pending, fails, ending, auth>>

(* Enter: mem::take moves the text out of the field and into the request.   *)
SubmitPassword ==
  /\ Dispatch
  /\ fails < MaxFails
  /\ IF password = "empty" \/ pending THEN UNCHANGED <<field, requests>>
     ELSE /\ pending' = TRUE
          /\ requests' = Append(requests, password)
          /\ password' = "empty"
          /\ UNCHANGED fails
  /\ UNCHANGED <<ending, checking, stage, answers, accepted>>

(* Mutant of Finished: the exit code is left at 0.                          *)
FinishedExitsZero ==
  /\ Dispatch
  /\ quit' = TRUE
  /\ UNCHANGED <<field, code, asked, auth>>

(* The compositor refused or dropped the lock.                              *)
Finished ==
  /\ Dispatch
  /\ quit' = TRUE
  /\ code' = 1
  /\ UNCHANGED <<field, asked, auth>>

(* Any event that leaves this state alone: a key release, `locked`, a       *)
(* modifier, a configure.                                                   *)
OtherEvent ==
  /\ Dispatch
  /\ UNCHANGED <<field, ending, auth>>

(* Mutant of Poll: `pending = false` before the loop instead of inside it.  *)
PollForgets ==
  /\ pc = "batch"
  /\ pending' = FALSE
  /\ IF answers = <<>> THEN UNCHANGED <<password, fails, asked, quit, code, answers>>
     ELSE /\ answers' = Tail(answers)
          /\ IF Head(answers) = "ok"
               THEN asked' = TRUE /\ quit' = TRUE /\ code' = 0 /\ UNCHANGED <<password, fails>>
               ELSE password' = "empty" /\ fails' = fails + 1 /\ UNCHANGED <<asked, quit, code>>
  /\ pc' = IF quit' THEN "exited" ELSE "wait"
  /\ UNCHANGED <<requests, checking, stage, accepted>>

(* poll_auth, once per batch, and the test of should_quit after it.  There  *)
(* is one answer at most (OneOutstanding), so its loop runs at most once.   *)
(* A password that PAM accepted ends the process with 0 whatever else the   *)
(* batch held.                                                              *)
Poll ==
  /\ pc = "batch"
  /\ IF answers = <<>> THEN UNCHANGED <<field, asked, quit, code, answers>>
     ELSE /\ pending' = FALSE
          /\ answers' = Tail(answers)
          /\ IF Head(answers) = "ok"
               THEN asked' = TRUE /\ quit' = TRUE /\ code' = 0 /\ UNCHANGED <<password, fails>>
               ELSE password' = "empty" /\ fails' = fails + 1 /\ UNCHANGED <<asked, quit, code>>
  /\ pc' = IF quit' THEN "exited" ELSE "wait"
  /\ UNCHANGED <<requests, checking, stage, accepted>>

(* blocking_dispatch fails: run returns the error and main exits with 1.    *)
ConnectionLost ==
  /\ pc = "wait"
  /\ pc' = "exited"
  /\ code' = 1
  /\ UNCHANGED <<field, quit, asked, auth>>

-------------------------------------------------------------------------------
(* The worker thread, which the end of the process ends too.                *)

Recv ==
  /\ pc # "exited"
  /\ checking = "none"
  /\ requests # <<>>
  /\ checking' = Head(requests)
  /\ stage' = "authenticate"
  /\ requests' = Tail(requests)
  /\ UNCHANGED <<field, ending, answers, accepted, pc>>

Respond(answer) ==
  /\ answers' = Append(answers, answer)
  /\ checking' = "none"
  /\ stage' = "idle"

(* with_password, authenticate: PAM accepts none but the right password.    *)
Authenticate ==
  /\ pc # "exited"
  /\ stage = "authenticate"
  /\ \/ Respond("fail")
     \/ /\ checking = "right"
        /\ stage' = "open_session"
        /\ UNCHANGED <<checking, answers>>
  /\ UNCHANGED <<field, ending, requests, accepted, pc>>

(* Mutant of OpenSession: only a failure is sent back.                      *)
OpenSessionSilent ==
  /\ pc # "exited"
  /\ stage = "open_session"
  /\ checking' = "none"
  /\ stage' = "idle"
  /\ answers' \in {answers, Append(answers, "fail")}
  /\ UNCHANGED <<field, ending, requests, accepted, pc>>

OpenSession ==
  /\ pc # "exited"
  /\ stage = "open_session"
  /\ \E answer \in Answer :
       /\ Respond(answer)
       /\ accepted' = (accepted \/ (answer = "ok" /\ checking = "right"))
  /\ UNCHANGED <<field, ending, requests, pc>>

Worker == Recv \/ Authenticate \/ OpenSession

Next ==
  \/ HandleText \/ Backspace \/ Escape \/ SubmitPassword
  \/ Finished \/ OtherEvent \/ Poll \/ ConnectionLost
  \/ Worker

Spec == Init /\ [][Next]_vars

(* Both threads run when they can, and PAM answers.                         *)
FairSpec == Spec /\ WF_vars(Poll) /\ WF_vars(Worker)

-------------------------------------------------------------------------------
(* Type correctness of every variable.                                      *)
TypeOK ==
  /\ password \in Password
  /\ pending \in BOOLEAN
  /\ fails \in 0..MaxFails
  /\ quit \in BOOLEAN
  /\ code \in {0, 1}
  /\ asked \in BOOLEAN
  /\ accepted \in BOOLEAN
  /\ requests \in Seq(Password)
  /\ checking \in Password \union {"none"}
  /\ stage \in {"idle", "authenticate", "open_session"}
  /\ answers \in Seq(Answer)
  /\ pc \in {"wait", "batch", "exited"}

(* `pending` counts what is under way between the two threads: it is set    *)
(* exactly while one request, one running check or one unread answer        *)
(* exists, so no attempt is lost, doubled or answered for another one.      *)
OneOutstanding ==
  Len(requests) + (IF checking = "none" THEN 0 ELSE 1) + Len(answers)
    = IF pending THEN 1 ELSE 0

(* While PAM is asked the field stays empty, so that a rejected attempt     *)
(* leaves nothing behind for the next one (poll_auth clears, handle_text    *)
(* refuses, submit_password takes).                                         *)
PendingFieldEmpty == pending => password = "empty"

(* Nothing but PAM's word for the right password makes the lock screen ask  *)
(* for the unlock or end with status 0, whatever typing, Escape, `finished` *)
(* and answers a batch brings together (main.rs: "on success ... exit 0").  *)
ExitNeedsApproval == asked \/ (pc = "exited" /\ code = 0) => accepted

-------------------------------------------------------------------------------
(* smoke-checklist.md: "correct password unlocks".  Without another event   *)
(* the approval stays in its channel and the unlock is not even asked for.  *)
CorrectPasswordUnlocks ==
  answers # <<>> /\ Head(answers) = "ok" ~> asked \/ pc = "exited"
===============================================================================

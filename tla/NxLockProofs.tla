----------------------------- MODULE NxLockProofs -----------------------------
(***************************************************************************)
(* What holds of nullxes-lock for any number of attempts: `pending` and    *)
(* the two channels agree, the field is empty while PAM is asked, and only *)
(* PAM's word for the right password leads to an unlock or to status 0.    *)
(*                                                                         *)
(* The strengthening follows that word through the worker: open_session is *)
(* only called with the right password, and an "ok" in the channel means   *)
(* that PAM gave it; until the process ends the exit code is the one that  *)
(* Finished set, and 0 only if should_quit is not set.                     *)
(***************************************************************************)
EXTENDS NxLock, TLAPS

(* An attempt is under way only below the bound on failures, the worker is  *)
(* in a PAM call exactly while it has a password, an "ok" is PAM's, and quit *)
(* and code go together until the process ends.                             *)
Strengthening ==
  /\ pending => fails < MaxFails
  /\ checking = "none" <=> stage = "idle"
  /\ stage = "open_session" => checking = "right"
  /\ \A k \in DOMAIN answers : answers[k] = "ok" => accepted = TRUE
  /\ pc # "exited" => /\ asked = FALSE
                      /\ code = IF quit THEN 1 ELSE 0

Inv == TypeOK /\ OneOutstanding /\ PendingFieldEmpty /\ ExitNeedsApproval /\ Strengthening

(* The invariant holds at the start.                                        *)
LEMMA InvInit == Init => Inv
<1> SUFFICES ASSUME Init PROVE Inv
  OBVIOUS
<1>0. fails \in 0..MaxFails
  BY MaxFailsAssumption DEF Init
<1>1. {pending, quit, asked, accepted} \subseteq BOOLEAN
  BY Zenon DEF Init
<1>1a. requests \in Seq(Password) /\ answers \in Seq(Answer)
  BY DEF Init
<1>1b. TypeOK
  BY <1>0, <1>1, <1>1a DEF Init, TypeOK, Password
<1>2. OneOutstanding
  BY DEF Init, OneOutstanding
<1>3. PendingFieldEmpty /\ ExitNeedsApproval /\ Strengthening
  BY DEF Init, PendingFieldEmpty, ExitNeedsApproval, Strengthening
<1> QED BY <1>1b, <1>2, <1>3 DEF Inv

(* Events that touch the field only.                                        *)
LEMMA InvField ==
  ASSUME Inv, HandleText \/ Backspace \/ Escape \/ OtherEvent
  PROVE  Inv'
<1>1. /\ Dispatch
      /\ password' \in Password
      /\ pending => password' = "empty"
      /\ UNCHANGED <<pending, fails, ending, auth>>
  BY DEF Inv, TypeOK, PendingFieldEmpty, HandleText, Backspace, Escape, OtherEvent, Password, field
<1> QED
  BY <1>1 DEF Inv, TypeOK, OneOutstanding, PendingFieldEmpty, ExitNeedsApproval, Strengthening,
       Dispatch, ending, auth

(* Enter keeps the invariant.                                               *)
LEMMA InvSubmitPassword ==
  ASSUME Inv, SubmitPassword
  PROVE  Inv'
<1>1. CASE password = "empty" \/ pending
  BY <1>1 DEF Inv, TypeOK, OneOutstanding, PendingFieldEmpty, ExitNeedsApproval, Strengthening,
       SubmitPassword, Dispatch, field, ending
<1>2. CASE ~(password = "empty" \/ pending)
  <2>1. /\ pending' = TRUE /\ password' = "empty"
        /\ requests' = Append(requests, password)
        /\ requests' \in Seq(Password) /\ Len(requests') = Len(requests) + 1
        /\ UNCHANGED <<fails, ending, checking, stage, answers, accepted>>
        /\ fails < MaxFails /\ Dispatch
    BY <1>2 DEF Inv, TypeOK, SubmitPassword
  <2>2. Len(requests) \in Nat /\ Len(answers) \in Nat
    BY DEF Inv, TypeOK
  <2> QED
    BY <1>2, <2>1, <2>2 DEF Inv, TypeOK, OneOutstanding, PendingFieldEmpty, ExitNeedsApproval,
         Strengthening, Dispatch, ending, Password
<1> QED BY <1>1, <1>2

(* The ways to end keep the invariant.                                      *)
LEMMA InvEnding ==
  ASSUME Inv, Finished \/ ConnectionLost
  PROVE  Inv'
<1>0. UNCHANGED <<field, auth>> /\ pc' \in {"batch", "exited"}
  BY DEF Inv, TypeOK, Finished, ConnectionLost, Dispatch
<1>a. quit' \in BOOLEAN /\ asked' \in BOOLEAN /\ code' \in {0, 1}
  BY DEF Inv, TypeOK, Finished, ConnectionLost
<1>1. TypeOK' /\ OneOutstanding' /\ PendingFieldEmpty'
  BY <1>0, <1>a DEF Inv, TypeOK, OneOutstanding, PendingFieldEmpty, field, auth
<1>2. asked' = FALSE /\ code' = 1 /\ (Finished => quit' = TRUE)
  BY DEF Inv, Strengthening, Finished, ConnectionLost, Dispatch
<1>3. ExitNeedsApproval'
  BY <1>2 DEF ExitNeedsApproval
<1>4. Strengthening'
  BY <1>2 DEF Inv, Strengthening, Finished, ConnectionLost, Dispatch, field, auth
<1> QED BY <1>1, <1>3, <1>4 DEF Inv

(* The window's poll for a result keeps the invariant.                      *)
LEMMA InvPoll ==
  ASSUME Inv, Poll
  PROVE  Inv'
<1>0. Len(requests) \in Nat /\ Len(answers) \in Nat
  BY DEF Inv, TypeOK
<1>1. CASE answers = <<>>
  <2>1. UNCHANGED <<password, pending, fails, asked, quit, code, answers,
                    requests, checking, stage, accepted>>
    BY <1>1 DEF Poll, field
  <2>2. pc = "batch" /\ pc' = IF quit THEN "exited" ELSE "wait"
    BY <2>1 DEF Poll
  <2> QED
    BY <2>1, <2>2 DEF Inv, TypeOK, OneOutstanding, PendingFieldEmpty, ExitNeedsApproval,
         Strengthening
<1>2. CASE answers # <<>>
  <2>1. Len(answers) > 0
    BY <1>2 DEF Inv, TypeOK
  <2>2. /\ answers' = Tail(answers) /\ pending' = FALSE /\ pc = "batch"
        /\ UNCHANGED <<requests, checking, stage, accepted>>
    BY <1>2 DEF Poll
  <2>3. answers' \in Seq(Answer) /\ Len(answers') = Len(answers) - 1
    BY <2>1, <2>2 DEF Inv, TypeOK
  <2>4. pending /\ fails < MaxFails
    BY <1>0, <2>1 DEF Inv, TypeOK, OneOutstanding, Strengthening
  <2>5. OneOutstanding'
    BY <1>0, <2>1, <2>2, <2>3, <2>4 DEF Inv, TypeOK, OneOutstanding
  <2>5a. ASSUME NEW k \in DOMAIN answers', answers'[k] = "ok" PROVE accepted' = TRUE
    <3>1. k + 1 \in DOMAIN answers /\ answers[k + 1] = answers'[k]
      BY <2>1, <2>2, <2>3 DEF Inv, TypeOK
    <3> QED BY <2>2, <2>5a, <3>1 DEF Inv, Strengthening
  <2>6. CASE Head(answers) = "ok"
    <3>1. /\ asked' = TRUE /\ quit' = TRUE /\ code' = 0
          /\ UNCHANGED <<password, fails>> /\ pc' = "exited"
      BY <1>2, <2>6 DEF Poll
    <3>2. accepted = TRUE
      <4>1. 1 \in DOMAIN answers /\ answers[1] = "ok"
        BY <2>1, <2>6 DEF Inv, TypeOK
      <4> QED BY <4>1 DEF Inv, Strengthening
    <3>3. TypeOK' /\ PendingFieldEmpty'
      BY <2>2, <2>3, <3>1 DEF Inv, TypeOK, PendingFieldEmpty
    <3>4. ExitNeedsApproval'
      BY <2>2, <3>2 DEF ExitNeedsApproval
    <3>5. Strengthening'
      BY <2>2, <2>5a, <3>1 DEF Inv, Strengthening
    <3> QED BY <2>5, <3>3, <3>4, <3>5 DEF Inv
  <2>7. CASE Head(answers) # "ok"
    <3>1. /\ password' = "empty" /\ fails' = fails + 1 /\ UNCHANGED <<asked, quit, code>>
      BY <1>2, <2>7 DEF Poll
    <3>2. pc' = IF quit THEN "exited" ELSE "wait"
      BY <3>1 DEF Poll
    <3>3. fails' \in 0..MaxFails
      BY <2>4, <3>1, MaxFailsAssumption DEF Inv, TypeOK
    <3>4. TypeOK' /\ PendingFieldEmpty'
      BY <2>2, <2>3, <3>1, <3>2, <3>3 DEF Inv, TypeOK, PendingFieldEmpty, Password
    <3>5. asked' = FALSE /\ code' = IF quit THEN 1 ELSE 0
      BY <2>2, <3>1 DEF Inv, Strengthening
    <3>6. ExitNeedsApproval' /\ Strengthening'
      BY <2>2, <2>5a, <3>1, <3>2, <3>5 DEF Inv, TypeOK, ExitNeedsApproval, Strengthening
    <3> QED BY <2>5, <3>4, <3>6 DEF Inv
  <2> QED BY <2>6, <2>7
<1> QED BY <1>1, <1>2

(* The PAM thread's recv keeps the invariant.                               *)
LEMMA InvRecv ==
  ASSUME Inv, Recv
  PROVE  Inv'
<1>1. /\ Head(requests) \in Password /\ requests' \in Seq(Password)
      /\ Len(requests') = Len(requests) - 1
      /\ Len(requests) \in Nat /\ Len(answers) \in Nat
  BY DEF Inv, TypeOK, Recv
<1> QED
  BY <1>1 DEF Inv, TypeOK, OneOutstanding, PendingFieldEmpty, ExitNeedsApproval, Strengthening,
       Recv, field, ending, Password

(* The worker's answer takes the place of the check it was made from; an    *)
(* "ok" is only sent once the ghost says that PAM gave it.                  *)
LEMMA InvRespond ==
  ASSUME Inv, checking # "none", NEW answer \in Answer, Respond(answer),
         UNCHANGED <<field, ending, requests, pc>>,
         accepted' \in BOOLEAN, accepted = TRUE => accepted' = TRUE,
         answer = "ok" => accepted' = TRUE
  PROVE  Inv'
<1>1. /\ answers' \in Seq(Answer) /\ Len(answers') = Len(answers) + 1
      /\ Len(requests) \in Nat /\ Len(answers) \in Nat
  BY DEF Inv, TypeOK, Respond
<1>2. ASSUME NEW k \in DOMAIN answers', answers'[k] = "ok" PROVE accepted' = TRUE
  <2>1. (k \in DOMAIN answers /\ answers'[k] = answers[k]) \/ answers'[k] = answer
    BY DEF Inv, TypeOK, Respond
  <2> QED BY <1>2, <2>1 DEF Inv, Strengthening
<1>3. TypeOK' /\ OneOutstanding' /\ PendingFieldEmpty'
  BY <1>1 DEF Inv, TypeOK, OneOutstanding, PendingFieldEmpty, Respond, field, ending
<1>4. ExitNeedsApproval'
  BY DEF Inv, TypeOK, ExitNeedsApproval, ending
<1>5. Strengthening'
  BY <1>2 DEF Inv, Strengthening, Respond, field, ending
<1> QED BY <1>3, <1>4, <1>5 DEF Inv

(* PAM's verdict keeps the invariant.                                       *)
LEMMA InvAuthenticate ==
  ASSUME Inv, Authenticate
  PROVE  Inv'
<1>1. checking # "none"
  BY DEF Inv, Strengthening, Authenticate
<1>2. accepted' = accepted /\ accepted' \in BOOLEAN /\ UNCHANGED <<field, ending, requests, pc>>
  BY DEF Inv, TypeOK, Authenticate
<1>3. CASE Respond("fail")
  BY <1>1, <1>2, <1>3, InvRespond DEF Answer
<1>4. CASE checking = "right" /\ stage' = "open_session" /\ UNCHANGED <<checking, answers>>
  BY <1>2, <1>4 DEF Inv, TypeOK, OneOutstanding, PendingFieldEmpty, ExitNeedsApproval,
     Strengthening, field, ending
<1> QED BY <1>3, <1>4 DEF Authenticate

(* Opening the session keeps the invariant.                                 *)
LEMMA InvOpenSession ==
  ASSUME Inv, OpenSession
  PROVE  Inv'
<1>1. checking # "none" /\ checking = "right"
  BY DEF Inv, Strengthening, OpenSession
<1>2. PICK answer \in Answer :
        /\ Respond(answer)
        /\ accepted' = (accepted \/ (answer = "ok" /\ checking = "right"))
  BY DEF OpenSession
<1>3. accepted' \in BOOLEAN
  BY <1>2, Zenon
<1>4. (accepted = TRUE => accepted' = TRUE) /\ (answer = "ok" => accepted' = TRUE)
  BY <1>1, <1>2
<1> QED BY <1>1, <1>2, <1>3, <1>4, InvRespond DEF OpenSession

(* Every step keeps the invariant.                                          *)
LEMMA InvNext == Inv /\ [Next]_vars => Inv'
<1> SUFFICES ASSUME Inv, [Next]_vars PROVE Inv'
  OBVIOUS
<1>1. CASE UNCHANGED vars
  BY <1>1 DEF vars, field, ending, auth, Inv, TypeOK, OneOutstanding, PendingFieldEmpty,
       ExitNeedsApproval, Strengthening
<1>2. CASE Next
  BY <1>2, InvField, InvSubmitPassword, InvEnding, InvPoll, InvRecv, InvAuthenticate,
     InvOpenSession DEF Next, Worker
<1> QED BY <1>1, <1>2

(* `pending` is exactly one attempt between the threads, at whatever speed  *)
(* PAM, the worker and the user go, and the field is empty meanwhile.       *)
THEOREM AttemptsCorrect == Spec => [](TypeOK /\ OneOutstanding /\ PendingFieldEmpty)
<1>1. Inv => TypeOK /\ OneOutstanding /\ PendingFieldEmpty BY DEF Inv
<1> QED BY <1>1, InvInit, InvNext, PTL DEF Spec

(* A process asks for the unlock, or ends with status 0, only after PAM has *)
(* accepted the right password (poll_auth, Finished, main.rs).              *)
THEOREM ExitNeedsApprovalCorrect == Spec => []ExitNeedsApproval
<1>1. Inv => ExitNeedsApproval BY DEF Inv
<1> QED BY <1>1, InvInit, InvNext, PTL DEF Spec

(* Every variable keeps its type, whatever the handlers and threads do.     *)
THEOREM TypeCorrect == Spec => []TypeOK
  BY AttemptsCorrect, PTL

(* While an attempt is under way the field is empty, so a rejection leaves  *)
(* nothing behind (submit_password, handle_text, poll_auth).                *)
THEOREM PendingFieldEmptyCorrect == Spec => []PendingFieldEmpty
  BY AttemptsCorrect, PTL

===============================================================================

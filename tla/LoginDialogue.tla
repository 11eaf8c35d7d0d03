------------------------------ MODULE LoginDialogue ------------------------------
(***************************************************************************)
(* What greetd expects of a greeter, whatever its keys and windows: one     *)
(* session under configuration at a time, an answer only to an open         *)
(* question, a start only once greetd is satisfied, and after a failure     *)
(* nothing but a cancel.                                                    *)
(***************************************************************************)
CONSTANT User

VARIABLES
  phase,    (* none, asked, passed, failed or started                         *)
  account,  (* whom the session under configuration is for, or "nobody"       *)
  last      (* the request greetd handled last                                *)

dialogue == <<phase, account, last>>

Init == phase = "none" /\ account = "nobody" /\ last = "none"

Create ==
  /\ phase = "none"
  /\ account' \in User
  /\ phase' \in {"asked", "passed", "failed"}
  /\ last' = "create"

Answer ==
  /\ phase = "asked"
  /\ phase' \in {"asked", "passed", "failed"}
  /\ last' = "answer"
  /\ UNCHANGED account

Start ==
  /\ phase = "passed"
  /\ phase' \in {"started", "failed"}
  /\ last' = "start"
  /\ UNCHANGED account

(* A session that was started is no longer under configuration.             *)
Cancel ==
  /\ IF phase = "started" THEN UNCHANGED <<phase, account>>
     ELSE phase' = "none" /\ account' = "nobody"
  /\ last' = "cancel"

Next == Create \/ Answer \/ Start \/ Cancel

Spec == Init /\ [][Next]_dialogue
===============================================================================

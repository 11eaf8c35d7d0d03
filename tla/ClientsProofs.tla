------------------------------ MODULE ClientsProofs ------------------------------
(***************************************************************************)
(* The greeter, SLATE, Settings and the history of the notification daemon, *)
(* each as a program of its own, for any names, window sizes, numbers of    *)
(* reloads and lengths of the history: the invariants that Programs checks  *)
(* on small instances, with the inductive invariant each one needs.         *)
(***************************************************************************)
EXTENDS Programs, Integers, SequenceTheorems, TLAPS

-------------------------------------------------------------------------------
(* Sequences.                                                               *)

(* What a sequence holds.                                                   *)
LEMMA ElementShape ==
  ASSUME NEW A, NEW seq \in Seq(A)
  PROVE  DOMAIN seq = 1..Len(seq) /\ Len(seq) \in Nat /\ \A t \in DOMAIN seq : seq[t] \in A
  OBVIOUS

(* What is left of one after its first element was taken.                   *)
LEMMA TailShape ==
  ASSUME NEW A, NEW seq \in Seq(A), seq # <<>>
  PROVE  /\ Tail(seq) \in Seq(A)
         /\ Len(Tail(seq)) = Len(seq) - 1
         /\ DOMAIN Tail(seq) = 1..(Len(seq) - 1)
         /\ Len(seq) \in Nat \ {0}
         /\ \A k \in 1..(Len(seq) - 1) : Tail(seq)[k] = seq[k + 1]
         /\ Head(seq) = seq[1] /\ Head(seq) \in A
         /\ DOMAIN seq = 1..Len(seq)
  OBVIOUS

(* What one holds after an element was put behind it.                       *)
LEMMA AppendShape ==
  ASSUME NEW A, NEW seq \in Seq(A), NEW a \in A
  PROVE  /\ Append(seq, a) \in Seq(A)
         /\ Len(Append(seq, a)) = Len(seq) + 1
         /\ Len(seq) \in Nat
         /\ DOMAIN seq = 1..Len(seq)
         /\ DOMAIN Append(seq, a) = 1..(Len(seq) + 1)
         /\ \A k \in 1..Len(seq) : Append(seq, a)[k] = seq[k]
         /\ Append(seq, a)[Len(seq) + 1] = a
  OBVIOUS

-------------------------------------------------------------------------------
(* The greeter.                                                             *)

(* The state of the dialogue at each place of the greeter.  Only a cancel   *)
(* after a failure ends `pending`; a session that was started leaves it set.*)
Matching ==
  conn # "broken" /\ greeting = "dispatch" /\ ~pending =>
    phase = IF awaiting THEN "asked" ELSE "none"

Starting == greeting = "start" => pending /\ (conn # "broken" => phase = "passed")

Cancelling == greeting = "cancel" => pending /\ ~awaiting /\ (conn # "broken" => phase # "started")

(* Without a connection nothing was ever asked.                             *)
Unconnected == conn = "none" => ~awaiting

GInv == G!GTypeOK /\ Matching /\ Starting /\ Cancelling /\ Unconnected

-------------------------------------------------------------------------------
(* The initial state satisfies the invariant, whatever the names are, as    *)
(* long as the empty one is among them.                                     *)
LEMMA InitGInv == G!GInit => GInv
  BY UserAssumption
  DEF G!GInit, G!Init, GInv, G!GTypeOK, Matching, Starting, Cancelling, Unconnected

(* Where the greeter asks for a session the dialogue is at its beginning,   *)
(* or the connection is gone.                                               *)
LEMMA SubmitNameInv == GInv /\ G!SubmitName => GInv'
<1> SUFFICES ASSUME GInv, G!SubmitName PROVE GInv'
  OBVIOUS
<1> USE DEF GInv, G!GTypeOK, Matching, Starting, Cancelling, Unconnected
<1>1. PICK outcome \in G!Outcomes :
        /\ G!Exchange(G!CreateSession, outcome)
        /\ G!Respond(outcome)
        /\ password' = IF outcome = "failure" THEN "empty" ELSE password
  BY DEF G!SubmitName
<1>2. /\ greeting = "dispatch" /\ ~pending /\ ~awaiting
      /\ UNCHANGED <<username, should_close>>
  BY DEF G!SubmitName, G!Submitting
<1>3. /\ phase' \in {"none", "asked", "passed", "failed", "started"}
      /\ account' \in User \union {"nobody"}
      /\ last' \in {"none", "create", "answer", "start", "cancel", "refused"}
      /\ conn' \in {"up", "broken"}
      /\ conn' # "broken" => /\ phase' \in {"asked", "passed", "failed"} /\ last' = "create"
                             /\ outcome = G!Classify'
  BY <1>1, <1>2 DEF G!Exchange, G!CreateSession, G!Create, G!Refuse, G!dialogue
<1>4. conn' # "broken" => /\ outcome = "prompt" => phase' = "asked"
                          /\ outcome = "success" => phase' = "passed"
                          /\ outcome = "failure" => phase' = "failed"
                          /\ outcome # "io"
  BY <1>3 DEF G!Classify
<1>5. conn' = "broken" => outcome = "io"
  BY <1>1, <1>2 DEF G!Exchange
<1>6. QED
  BY <1>1, <1>2, <1>3, <1>4, <1>5 DEF G!Respond, G!OnPrompt, G!OnSuccess, G!OnFailure, G!OnError

(* A prompt is answered only while greetd waits for an answer.              *)
LEMMA SubmitPasswordInv == GInv /\ G!SubmitPassword => GInv'
<1> SUFFICES ASSUME GInv, G!SubmitPassword PROVE GInv'
  OBVIOUS
<1> USE DEF GInv, G!GTypeOK, Matching, Starting, Cancelling, Unconnected
<1>1. PICK outcome \in G!Outcomes : G!Exchange(G!PostAuthResponse, outcome) /\ G!Respond(outcome)
  BY DEF G!SubmitPassword
<1>2. /\ greeting = "dispatch" /\ ~pending /\ awaiting
      /\ password' = "empty"
      /\ UNCHANGED <<username, should_close>>
  BY DEF G!SubmitPassword, G!Submitting
<1>3. /\ phase' \in {"none", "asked", "passed", "failed", "started"}
      /\ account' \in User \union {"nobody"}
      /\ last' \in {"none", "create", "answer", "start", "cancel", "refused"}
      /\ conn' \in {"up", "broken"}
      /\ conn' # "broken" => /\ phase' \in {"asked", "passed", "failed"} /\ last' = "answer"
                             /\ outcome = G!Classify'
  BY <1>1, <1>2 DEF G!Exchange, G!PostAuthResponse, G!Answer, G!Refuse, G!dialogue
<1>4. conn' # "broken" => /\ outcome = "prompt" => phase' = "asked"
                          /\ outcome = "success" => phase' = "passed"
                          /\ outcome = "failure" => phase' = "failed"
                          /\ outcome # "io"
  BY <1>3 DEF G!Classify
<1>5. conn' = "broken" => outcome = "io"
  BY <1>1, <1>2 DEF G!Exchange
<1>6. QED
  BY <1>1, <1>2, <1>3, <1>4, <1>5 DEF G!Respond, G!OnPrompt, G!OnSuccess, G!OnFailure, G!OnError

(* Every other step keeps the invariant: what moves the dialogue beside a   *)
(* submit is a start, after which pending stays set, and a cancel.          *)
LEMMA NextGInv == GInv /\ [G!GNext]_G!vars => GInv'
<1> SUFFICES ASSUME GInv, [G!GNext]_G!vars PROVE GInv'
  OBVIOUS
<1> USE DEF GInv, G!GTypeOK, Matching, Starting, Cancelling, Unconnected
<1>1. CASE G!SubmitRejected
  BY <1>1 DEF G!SubmitRejected, G!dialogue, G!fields
<1>2. CASE G!SubmitName
  BY <1>2, SubmitNameInv
<1>3. CASE G!SubmitPassword
  BY <1>3, SubmitPasswordInv
<1>4. CASE G!SubmitStarts
  BY <1>4 DEF G!SubmitStarts, G!Exchange, G!StartSession, G!Start, G!Refuse, G!dialogue, G!fields
<1>5. CASE G!SubmitCancels
  BY <1>5 DEF G!SubmitCancels, G!Exchange, G!Cancel, G!dialogue, G!fields
<1>6. CASE G!Tab
  BY <1>6 DEF G!Tab, G!dialogue
<1>7. CASE G!EnterMovesOn
  BY <1>7 DEF G!EnterMovesOn, G!dialogue
<1>8. CASE G!EditText
  BY <1>8 DEF G!EditText, G!dialogue
<1>9. CASE G!Escape
  <2>1. CASE conn = "none"
    BY <1>9, <2>1, UserAssumption DEF G!Escape, G!dialogue
  <2>2. CASE conn # "none"
    BY <1>9, <2>2, UserAssumption DEF G!Escape, G!Exchange, G!Cancel, G!dialogue
  <2>3. QED
    BY <2>1, <2>2
<1>10. CASE G!Close
  BY <1>10 DEF G!Close, G!dialogue, G!fields
<1>11. CASE G!Leave
  BY <1>11 DEF G!Leave, G!dialogue, G!fields
<1>12. CASE UNCHANGED G!vars
  BY <1>12 DEF G!vars, G!dialogue, G!fields
<1>13. QED
  BY <1>1, <1>2, <1>3, <1>4, <1>5, <1>6, <1>7, <1>8, <1>9, <1>10, <1>11, <1>12 DEF G!GNext

(* The greeter's invariant always holds.                                    *)
LEMMA GInvariance == G!GSpec => []GInv
  BY InitGInv, NextGInv, PTL DEF G!GSpec

-------------------------------------------------------------------------------
(* Whatever the user types, cancels or edits, and whatever greetd answers:  *)
(* between two keys the greeter's flag tells what greetd waits for.         *)
THEOREM InStepCorrect == G!GSpec => [](G!GTypeOK /\ G!InStep)
<1>1. GInv => G!GTypeOK /\ G!InStep
  BY DEF GInv, Matching, G!InStep
<1>2. QED
  BY <1>1, GInvariance, PTL

(* Every step of the greeter is one of the dialogue's or leaves it alone;   *)
(* greetd refuses nothing.                                                  *)
LEMMA StepUnderstood == GInv /\ [G!GNext]_G!vars => [G!Next]_G!dialogue
<1> SUFFICES ASSUME GInv, [G!GNext]_G!vars PROVE G!Next \/ UNCHANGED G!dialogue
  OBVIOUS
<1> USE DEF GInv, G!Next
<1>1. CASE G!SubmitName
  <2>1. conn # "broken" => phase = "none"
    BY <1>1 DEF G!SubmitName, G!Submitting, Matching
  <2>2. QED
    BY <1>1, <2>1 DEF G!SubmitName, G!Exchange, G!CreateSession
<1>2. CASE G!SubmitPassword
  <2>1. conn # "broken" => phase = "asked"
    BY <1>2 DEF G!SubmitPassword, G!Submitting, Matching
  <2>2. QED
    BY <1>2, <2>1 DEF G!SubmitPassword, G!Exchange, G!PostAuthResponse
<1>3. CASE G!SubmitStarts
  BY <1>3 DEF G!SubmitStarts, Starting, G!Exchange, G!StartSession
<1>4. CASE G!SubmitCancels
  BY <1>4 DEF G!SubmitCancels, G!Exchange
<1>5. CASE G!Escape
  BY <1>5 DEF G!Escape, G!Exchange, G!dialogue
<1>6. CASE G!SubmitRejected \/ G!Tab \/ G!EnterMovesOn \/ G!EditText \/ G!Close \/ G!Leave
  BY <1>6 DEF G!SubmitRejected, G!Tab, G!EnterMovesOn, G!EditText, G!Close, G!Leave
<1>7. CASE UNCHANGED G!vars
  BY <1>7 DEF G!vars
<1>8. QED
  BY <1>1, <1>2, <1>3, <1>4, <1>5, <1>6, <1>7 DEF G!GNext

(* The greeter implements the dialogue greetd accepts.                      *)
THEOREM DialogueCorrect == G!GSpec => G!KeepsToTheDialogue
<1>1. G!GInit => G!Init
  BY DEF G!GInit
<1>2. QED
  BY <1>1, GInvariance, StepUnderstood, PTL DEF G!GSpec, G!Spec, G!KeepsToTheDialogue

-------------------------------------------------------------------------------
(* SLATE.                                                                    *)

(* Between a change of the grid and its notice, and between the notice and  *)
(* the drain, no change is counted twice.                                   *)
Notices ==
  /\ dirty <= grid + 1
  /\ child # "exited" => dirty <= grid
  /\ changed = TRUE => dirty < grid /\ child = "running"

(* There is a shell exactly when the session was started, and no message    *)
(* before.                                                                  *)
Session == (term = TRUE <=> child # "none") /\ (term = TRUE \/ msgs = <<>>)

(* Type correctness of what is SLATE's alone.                               *)
STypes ==
  /\ window \in WindowSize /\ gridSize \in WindowSize /\ ptySize \in WindowSize
  /\ pool \in BOOLEAN /\ term \in BOOLEAN
  /\ dirty \in Nat
  /\ loop \in {"wait", "batch", "exited"}
  /\ screenful \in -1..MaxOutput /\ skipped \in BOOLEAN
  /\ grid \in 0..MaxOutput
  /\ msgs \in Seq(WindowSize \union {"input"}) /\ Len(msgs) <= MaxMsgs
  /\ changed \in BOOLEAN
  /\ child \in {"none", "running", "exited"}

SInv == STypes /\ Notices /\ Session /\ S!SizesAgree

(* A started session has the window's size, and no message is on its way.   *)
LEMMA RedrawShape ==
  ASSUME SInv, S!Redraw, UNCHANGED <<window, grid, msgs, changed>>, dirty' \in Nat, dirty' <= dirty,
         loop' \in {"wait", "batch", "exited"}
  PROVE  SInv'
<1>1. \/ UNCHANGED <<term, gridSize, ptySize, child>>
      \/ ~term /\ term' = TRUE /\ child' = "running" /\ gridSize' = window /\ ptySize' = window
  BY DEF S!Redraw, S!EnsureTerm
<1>2. pool' \in BOOLEAN /\ screenful' \in -1..MaxOutput /\ skipped' \in BOOLEAN
  <2>1. pool \in BOOLEAN /\ screenful \in -1..MaxOutput /\ grid \in -1..MaxOutput
    BY SlateAssumption DEF SInv, STypes
  <2>2. /\ pool' = pool \/ pool' = TRUE
        /\ screenful' = screenful \/ screenful' = grid
        /\ skipped' = TRUE \/ skipped' = FALSE
    BY DEF S!Redraw
  <2>3. QED
    BY <2>1, <2>2
<1>3. STypes'
  BY <1>1, <1>2 DEF SInv, STypes
<1>4. Notices'
  <2>1. \/ child' = child
        \/ child = "none" /\ child' = "running"
    BY <1>1 DEF SInv, STypes, Session
  <2>2. grid \in Nat /\ dirty \in Nat
    BY DEF SInv, STypes
  <2>3. QED
    BY <2>1, <2>2 DEF SInv, Notices
<1>5. Session'
  BY <1>1 DEF SInv, Session
<1>6. S!SizesAgree'
  <2>1. CASE UNCHANGED <<term, gridSize, ptySize, child>>
    BY <2>1 DEF SInv, S!SizesAgree
  <2>2. CASE ~term /\ gridSize' = window /\ ptySize' = window
    BY <2>2 DEF SInv, Session, S!SizesAgree
  <2>3. QED
    BY <1>1, <2>1, <2>2
<1>7. QED
  BY <1>3, <1>4, <1>5, <1>6 DEF SInv

(* A message for the PTY thread comes after all others.                     *)
LEMMA ToplevelConfigureInv ==
  ASSUME SInv, NEW size \in WindowSize, S!ToplevelConfigure(size)
  PROVE  SInv'
<1>1. /\ window' = size /\ loop' = "batch"
      /\ UNCHANGED <<pool, term, screenful, skipped, grid, dirty, ptySize, changed, child>>
  BY DEF S!ToplevelConfigure, S!Dispatch, S!screen, S!pty
<1>2. CASE ~term
  <2>1. UNCHANGED <<msgs, gridSize>>
    BY <1>2 DEF S!ToplevelConfigure
  <2>2. QED
    BY <1>1, <1>2, <2>1 DEF SInv, STypes, Notices, Session, S!SizesAgree
<1>3. CASE term
  <2>1. msgs' = Append(msgs, size) /\ gridSize' = size /\ Len(msgs) < MaxMsgs
    BY <1>3 DEF S!ToplevelConfigure
  <2>2. /\ msgs' \in Seq(WindowSize \union {"input"})
        /\ Len(msgs') = Len(msgs) + 1 /\ Len(msgs) \in Nat
        /\ DOMAIN msgs' = 1..(Len(msgs) + 1)
        /\ msgs'[Len(msgs) + 1] = size
    BY <2>1, AppendShape DEF SInv, STypes
  <2>3. STypes'
    BY <1>1, <2>1, <2>2, SlateAssumption DEF SInv, STypes
  <2>4. \A k \in DOMAIN msgs' :
          (\A j \in DOMAIN msgs' : j > k => msgs'[j] = "input") => k = Len(msgs) + 1
    BY <2>2, SlateAssumption
  <2>5. S!SizesAgree'
    BY <1>1, <2>1, <2>2, <2>4, SlateAssumption DEF S!SizesAgree
  <2>6. QED
    BY <1>1, <1>3, <2>3, <2>5 DEF SInv, Notices, Session
<1>4. QED
  BY <1>2, <1>3

(* Input does not change what the last size is.                             *)
LEMMA KeyInv == ASSUME SInv, S!Key PROVE SInv'
<1>1. /\ loop' = "batch"
      /\ UNCHANGED <<window, pool, term, screenful, skipped, grid, gridSize, dirty, ptySize,
                     changed, child>>
  BY DEF S!Key, S!Dispatch, S!screen, S!pty
<1>2. CASE ~term
  BY <1>1, <1>2 DEF S!Key, SInv, STypes, Notices, Session, S!SizesAgree
<1>3. CASE term
  <2>1. msgs' = Append(msgs, "input") /\ Len(msgs) < MaxMsgs
    BY <1>3 DEF S!Key
  <2>2. /\ msgs' \in Seq(WindowSize \union {"input"})
        /\ Len(msgs') = Len(msgs) + 1 /\ Len(msgs) \in Nat
        /\ DOMAIN msgs = 1..Len(msgs)
        /\ DOMAIN msgs' = 1..(Len(msgs) + 1)
        /\ \A k \in 1..Len(msgs) : msgs'[k] = msgs[k]
        /\ msgs'[Len(msgs) + 1] = "input"
    BY <2>1, AppendShape DEF SInv, STypes
  <2>3. STypes'
    BY <1>1, <2>1, <2>2, SlateAssumption DEF SInv, STypes
  <2>4. S!SizesAgree'
    BY <1>1, <2>2 DEF SInv, S!SizesAgree
  <2>5. QED
    BY <1>1, <1>3, <2>3, <2>4 DEF SInv, Notices, Session
<1>4. QED
  BY <1>2, <1>3

(* What the shell reads is the oldest of what was sent to it.               *)
LEMMA PtyRecvInv == ASSUME SInv, S!PtyRecv PROVE SInv'
<1>1. /\ msgs # <<>> /\ child = "running" /\ msgs' = Tail(msgs)
      /\ ptySize' = IF Head(msgs) = "input" THEN ptySize ELSE Head(msgs)
      /\ UNCHANGED <<window, pool, term, loop, screenful, skipped, grid, gridSize, dirty, changed,
                     child>>
  BY DEF S!PtyRecv, S!PtyRuns, S!screen
<1>2. /\ msgs' \in Seq(WindowSize \union {"input"})
      /\ Len(msgs') = Len(msgs) - 1
      /\ DOMAIN msgs' = 1..(Len(msgs) - 1)
      /\ Len(msgs) \in Nat \ {0}
      /\ \A k \in 1..(Len(msgs) - 1) : msgs'[k] = msgs[k + 1]
      /\ Head(msgs) = msgs[1] /\ Head(msgs) \in WindowSize \union {"input"}
      /\ DOMAIN msgs = 1..Len(msgs)
  BY <1>1, TailShape DEF SInv, STypes
<1>3. STypes'
  BY <1>1, <1>2, SlateAssumption DEF SInv, STypes
<1>4. S!SizesAgree'
  <2>1. term
    BY <1>1 DEF SInv, Session
  <2>2. ASSUME NEW k \in DOMAIN msgs', msgs'[k] # "input",
               \A j \in DOMAIN msgs' : j > k => msgs'[j] = "input"
        PROVE  msgs'[k] = window
    <3>1. k + 1 \in DOMAIN msgs /\ msgs[k + 1] = msgs'[k]
      BY <1>2
    <3>2. ASSUME NEW j \in DOMAIN msgs, j > k + 1 PROVE msgs[j] = "input"
      <4>1. j - 1 \in DOMAIN msgs' /\ j - 1 > k /\ msgs'[j - 1] = msgs[j]
        BY <1>2, <3>2
      <4>2. QED
        BY <2>2, <4>1
    <3>3. QED
      BY <2>1, <2>2, <3>1, <3>2 DEF SInv, S!SizesAgree
  <2>3. ptySize' = window \/ \E k \in DOMAIN msgs' : msgs'[k] # "input"
    <3>1. SUFFICES ASSUME \A k \in DOMAIN msgs' : msgs'[k] = "input" PROVE ptySize' = window
      OBVIOUS
    <3>2. ASSUME NEW j \in DOMAIN msgs, j # 1 PROVE msgs[j] = "input"
      <4>1. j - 1 \in DOMAIN msgs' /\ msgs'[j - 1] = msgs[j]
        BY <1>2, <3>2
      <4>2. QED
        BY <3>1, <4>1
    <3>3. 1 \in DOMAIN msgs /\ \A j \in DOMAIN msgs : j > 1 => j # 1
      BY <1>2
    <3>4. QED
      BY <1>1, <1>2, <2>1, <3>2, <3>3 DEF SInv, S!SizesAgree
  <2>4. QED
    BY <1>1, <2>2, <2>3 DEF SInv, S!SizesAgree
<1>5. QED
  BY <1>1, <1>3, <1>4 DEF SInv, Notices, Session

(* Every step of SLATE keeps the invariant.                                 *)
LEMMA NextSInv == SInv /\ [S!Next]_S!vars => SInv'
<1> SUFFICES ASSUME SInv, [S!Next]_S!vars PROVE SInv'
  OBVIOUS
<1>1. CASE S!Configure
  <2>1. S!Redraw /\ UNCHANGED <<window, grid, dirty, msgs, changed>> /\ loop' = "batch"
    BY <1>1 DEF S!Configure, S!Dispatch
  <2>2. dirty' \in Nat /\ dirty' <= dirty
    BY <2>1 DEF SInv, STypes
  <2>3. QED
    BY <2>1, <2>2, RedrawShape
<1>2. ASSUME NEW size \in WindowSize, S!ToplevelConfigure(size) PROVE SInv'
  BY <1>2, ToplevelConfigureInv
<1>3. CASE S!Key
  BY <1>3, KeyInv
<1>4. CASE S!Close \/ S!OtherEvent
  BY <1>4 DEF S!Close, S!OtherEvent, S!Dispatch, S!screen, S!shared, S!pty, SInv, STypes, Notices,
              Session, S!SizesAgree
<1>5. CASE S!Drain
  <2>1. /\ UNCHANGED <<window, grid, msgs, changed>> /\ dirty' = 0
        /\ loop' \in {"wait", "batch", "exited"}
    BY <1>5 DEF S!Drain
  <2>2. CASE dirty > 0
    <3>1. S!Redraw /\ dirty' \in Nat /\ dirty' <= dirty
      BY <1>5, <2>1, <2>2 DEF S!Drain, SInv, STypes
    <3>2. QED
      BY <2>1, <3>1, RedrawShape
  <2>3. CASE ~(dirty > 0)
    <3>1. UNCHANGED <<pool, term, screenful, skipped, gridSize, ptySize, child>>
      BY <1>5, <2>3 DEF S!Drain, S!screen
    <3>2. STypes'
      BY <2>1, <3>1 DEF SInv, STypes
    <3>3. Notices' /\ Session' /\ S!SizesAgree'
      BY <2>1, <2>3, <3>1 DEF SInv, STypes, Notices, Session, S!SizesAgree
    <3>4. QED
      BY <3>2, <3>3 DEF SInv
  <2>4. QED
    BY <2>2, <2>3
<1>6. CASE S!PtyOutput
  <2>1. /\ grid' = grid + 1 /\ grid < MaxOutput /\ changed' = TRUE /\ changed = FALSE
        /\ child = "running"
        /\ UNCHANGED <<window, pool, term, loop, screenful, skipped, gridSize, dirty, msgs,
                       ptySize, child>>
    BY <1>6 DEF S!PtyOutput, S!PtyRuns, S!screen, SInv, STypes
  <2>2. STypes' /\ Notices'
    BY <2>1, SlateAssumption DEF SInv, STypes, Notices
  <2>3. Session' /\ S!SizesAgree'
    BY <2>1 DEF SInv, Session, S!SizesAgree
  <2>4. QED
    BY <2>2, <2>3 DEF SInv
<1>7. CASE S!PtyWakeup
  <2>1. changed' = FALSE /\ changed = TRUE /\ child = "running" /\ dirty' = dirty + 1
    BY <1>7 DEF S!PtyWakeup, S!PtyRuns, SInv, STypes
  <2>2. UNCHANGED <<window, pool, term, loop, screenful, skipped, grid, gridSize, msgs, ptySize,
                    child>>
    BY <1>7 DEF S!PtyWakeup, S!screen
  <2>3. dirty' \in Nat /\ changed' \in BOOLEAN
    <3>1. dirty \in Nat /\ dirty' = dirty + 1
      BY <2>1 DEF SInv, STypes
    <3>2. changed' \in BOOLEAN
      BY <2>1
    <3>3. QED
      BY <3>1, <3>2
  <2>4. STypes'
    BY <2>2, <2>3 DEF SInv, STypes
  <2>5. Notices'
    <3>1. grid \in Nat /\ dirty \in Nat
      BY DEF SInv, STypes
    <3>2. QED
      BY <2>1, <2>2, <3>1 DEF SInv, Notices
  <2>6. Session' /\ S!SizesAgree'
    BY <2>1, <2>2 DEF SInv, Session, S!SizesAgree
  <2>7. QED
    BY <2>4, <2>5, <2>6 DEF SInv
<1>8. CASE S!PtyRecv
  BY <1>8, PtyRecvInv
<1>9. CASE S!ChildExit
  <2>1. /\ child' = "exited" /\ child = "running" /\ dirty' = dirty + 1 /\ changed = FALSE
        /\ UNCHANGED <<window, pool, term, loop, screenful, skipped, grid, gridSize, msgs,
                       ptySize, changed>>
    BY <1>9 DEF S!ChildExit, S!PtyRuns, S!screen, SInv, STypes
  <2>2. STypes' /\ Notices'
    BY <2>1, SlateAssumption DEF SInv, STypes, Notices
  <2>3. Session' /\ S!SizesAgree'
    BY <2>1 DEF SInv, Session, S!SizesAgree
  <2>4. QED
    BY <2>2, <2>3 DEF SInv
<1>10. CASE UNCHANGED S!vars
  BY <1>10 DEF S!vars, S!screen, S!shared, S!pty, SInv, STypes, Notices, Session, S!SizesAgree
<1>11. QED
  BY <1>1, <1>2, <1>3, <1>4, <1>5, <1>6, <1>7, <1>8, <1>9, <1>10 DEF S!Next

(* SLATE's initial state satisfies the invariant.                           *)
LEMMA InitSInv == S!Init => SInv
<1> SUFFICES ASSUME S!Init PROVE SInv
  OBVIOUS
<1>1. STypes
  <2>1. MaxOutput \in Nat /\ MaxMsgs \in Nat
    BY SlateAssumption
  <2>2. msgs \in Seq(WindowSize \union {"input"}) /\ Len(msgs) <= MaxMsgs
    BY <2>1 DEF S!Init
  <2>3. grid \in 0..MaxOutput /\ screenful \in -1..MaxOutput /\ dirty \in Nat
    BY <2>1 DEF S!Init
  <2>4. QED
    BY <2>2, <2>3 DEF S!Init, STypes
<1>2. Notices /\ Session /\ S!SizesAgree
  BY DEF S!Init, Notices, Session, S!SizesAgree
<1>3. QED
  BY <1>1, <1>2 DEF SInv

(* A change of the grid is drawn, or its notice is on its way.              *)
LEMMA NextWakeup ==
  ASSUME SInv, S!NoLostWakeup, [S!Next]_S!vars
  PROVE  S!NoLostWakeup'
<1>1. term \in BOOLEAN /\ changed \in BOOLEAN /\ skipped \in BOOLEAN /\ dirty \in Nat
  BY DEF SInv, STypes
<1>2. ASSUME loop # "exited", S!Redraw, UNCHANGED <<grid, changed>> PROVE S!NoLostWakeup'
  <2>1. \/ skipped' = TRUE
        \/ screenful' = grid
    BY <1>2 DEF S!Redraw
  <2>2. grid' = grid
    BY <1>2
  <2>3. QED
    BY <2>1, <2>2 DEF S!NoLostWakeup
<1>3. ASSUME UNCHANGED <<term, screenful, skipped, grid, changed>>, dirty' >= dirty, dirty' \in Nat,
             loop' # "exited" => loop # "exited"
      PROVE  S!NoLostWakeup'
  BY <1>1, <1>3 DEF S!NoLostWakeup
<1>4. CASE S!Configure
  BY <1>2, <1>4 DEF S!Configure, S!Dispatch
<1>5. CASE S!Key \/ S!Close \/ S!OtherEvent \/ \E size \in WindowSize : S!ToplevelConfigure(size)
  BY <1>1, <1>3, <1>5
  DEF S!Key, S!Close, S!OtherEvent, S!ToplevelConfigure, S!Dispatch, S!screen, S!shared, S!pty
<1>6. CASE S!Drain
  <2>1. loop = "batch" /\ UNCHANGED <<grid, changed>>
    BY <1>6 DEF S!Drain
  <2>2. CASE dirty > 0
    BY <1>2, <1>6, <2>1, <2>2 DEF S!Drain
  <2>3. CASE ~(dirty > 0)
    <3>1. UNCHANGED <<term, screenful, skipped>> /\ dirty' = 0
      BY <1>6, <2>3 DEF S!Drain, S!screen
    <3>2. dirty = 0
      BY <1>1, <2>3
    <3>3. QED
      BY <1>3, <2>1, <3>1, <3>2
  <2>4. QED
    BY <2>2, <2>3
<1>7. CASE S!PtyOutput
  BY <1>7 DEF S!PtyOutput, S!NoLostWakeup
<1>8. CASE S!PtyWakeup
  <2>1. dirty' = dirty + 1
    BY <1>8 DEF S!PtyWakeup
  <2>2. dirty' > 0
    BY <1>1, <2>1
  <2>3. QED
    BY <2>2 DEF S!NoLostWakeup
<1>9. CASE S!ChildExit
  <2>1. dirty' = dirty + 1
    BY <1>9 DEF S!ChildExit
  <2>2. dirty' > 0
    BY <1>1, <2>1
  <2>3. QED
    BY <2>2 DEF S!NoLostWakeup
<1>10. CASE S!PtyRecv \/ UNCHANGED S!vars
  BY <1>1, <1>3, <1>10 DEF S!PtyRecv, S!vars, S!screen, S!shared, S!pty
<1>11. QED
  BY <1>4, <1>5, <1>6, <1>7, <1>8, <1>9, <1>10 DEF S!Next

-------------------------------------------------------------------------------
(* Settings.                                                                 *)

(* No version is newer than the file: neither the one FRAME has loaded nor  *)
(* the one a task was started for; and a version in force could be loaded.  *)
Versions ==
  /\ file \in 0..MaxSaves /\ good \subseteq 0..file /\ config \in good \union {-1}
  /\ tasks \in Seq(T!Task)
  /\ \A t \in DOMAIN tasks : tasks[t].saved <= file

TInv == Versions /\ T!ReloadTakes

Statuses == {"none", "reloading", "reloaded", "failed"}

TTypes ==
  /\ status \in Statuses /\ statusShown \in Statuses /\ ended \in BOOLEAN
  /\ Len(tasks) <= MaxReloads

(* What a task's progress changes, and leaves as it was.                    *)
LEMMA AdvanceShape ==
  ASSUME Versions, NEW t \in DOMAIN tasks, NEW from \in T!Running,
         NEW to \in T!Running \union {"done", "failed"}, T!Advance(t, from, to)
  PROVE  /\ tasks' \in Seq(T!Task)
         /\ DOMAIN tasks' = DOMAIN tasks
         /\ \A u \in DOMAIN tasks :
              /\ tasks'[u].saved = tasks[u].saved
              /\ tasks'[u].state = IF u = t THEN to ELSE tasks[u].state
         /\ tasks[t].state = from
<1> DEFINE new == [tasks[t] EXCEPT !.state = to]
<1>1. tasks \in Seq(T!Task) /\ tasks[t].state = from
  BY DEF Versions, T!Advance
<1>2. DOMAIN tasks = 1..Len(tasks) /\ \A u \in DOMAIN tasks : tasks[u] \in T!Task
  BY <1>1, ElementShape
<1>3. new \in T!Task /\ new.state = to /\ new.saved = tasks[t].saved
  BY <1>2 DEF T!Task
<1>4. tasks' = [tasks EXCEPT ![t] = new]
  BY DEF T!Advance
<1> HIDE DEF new
<1>5. tasks' \in Seq(T!Task) /\ DOMAIN tasks' = DOMAIN tasks
  BY <1>1, <1>2, <1>3, <1>4
<1>6. \A u \in DOMAIN tasks : tasks'[u] = IF u = t THEN new ELSE tasks[u]
  BY <1>4
<1>7. QED
  BY <1>1, <1>3, <1>5, <1>6

(* A step that only a task takes, short of FRAME's reload, neither adds an  *)
(* answer nor touches a version.                                            *)
LEMMA TaskOnly ==
  ASSUME TInv, NEW t \in DOMAIN tasks, NEW from \in T!Running,
         NEW to \in T!Running \union {"done", "failed"}, T!Advance(t, from, to),
         to \in {"replied", "done"} => from = "replied", UNCHANGED <<file, good, config>>
  PROVE  TInv'
<1>1. /\ tasks' \in Seq(T!Task)
      /\ DOMAIN tasks' = DOMAIN tasks
      /\ \A u \in DOMAIN tasks :
           /\ tasks'[u].saved = tasks[u].saved
           /\ tasks'[u].state = IF u = t THEN to ELSE tasks[u].state
      /\ tasks[t].state = from
  BY AdvanceShape DEF TInv
<1>2. Versions'
  BY <1>1 DEF TInv, Versions
<1>3. T!ReloadTakes'
  BY <1>1 DEF TInv, T!ReloadTakes
<1>4. QED
  BY <1>2, <1>3 DEF TInv

(* Every step keeps the invariant.                                          *)
LEMMA NextTInv == TInv /\ [T!Next]_T!vars => TInv'
<1> SUFFICES ASSUME TInv, [T!Next]_T!vars PROVE TInv'
  OBVIOUS
<1>1. ASSUME UNCHANGED <<tasks, file, good, config>> PROVE TInv'
  BY <1>1 DEF TInv, Versions, T!ReloadTakes
<1>2. CASE T!Configure \/ T!ChangeSection \/ T!Close \/ T!Leave \/ UNCHANGED T!vars
  BY <1>1, <1>2 DEF T!Configure, T!ChangeSection, T!Close, T!Leave, T!vars, T!disk
<1>3. CASE T!Enter
  <2> DEFINE new == [state |-> "connecting", saved |-> file]
  <2>1. new \in T!Task
    BY DEF TInv, Versions, T!Task, T!Running
  <2>2. tasks' = Append(tasks, new) /\ UNCHANGED <<file, good, config>>
    BY <1>3 DEF T!Enter, T!disk
  <2>3. new.saved = file /\ new.state = "connecting"
    OBVIOUS
  <2> HIDE DEF new
  <2>4. /\ tasks' \in Seq(T!Task)
        /\ \A t \in DOMAIN tasks' : tasks'[t] = new \/ (t \in DOMAIN tasks /\ tasks'[t] = tasks[t])
    BY <2>1, <2>2 DEF TInv, Versions
  <2>5. QED
    BY <2>2, <2>3, <2>4 DEF TInv, Versions, T!ReloadTakes
<1>4. ASSUME NEW t \in DOMAIN tasks, T!TaskSends(t) PROVE TInv'
  BY <1>4, TaskOnly DEF T!TaskSends, T!Running, T!disk
<1>5. ASSUME NEW t \in DOMAIN tasks, T!FrameReloads(t) PROVE TInv'
  <2>1. /\ tasks' \in Seq(T!Task)
        /\ DOMAIN tasks' = DOMAIN tasks
        /\ \A u \in DOMAIN tasks : tasks'[u].saved = tasks[u].saved
    BY <1>5, AdvanceShape DEF T!FrameReloads, TInv, T!Running
  <2>2. /\ config' = IF file \in good THEN file ELSE -1
        /\ UNCHANGED <<file, good>>
    BY <1>5 DEF T!FrameReloads, T!Loaded, T!Fallback, T!disk
  <2>3. Versions'
    BY <2>1, <2>2 DEF TInv, Versions
  <2>4. T!ReloadTakes'
    <3>1. SUFFICES ASSUME NEW u \in DOMAIN tasks
                   PROVE  \/ config' \in tasks[u].saved..MaxSaves
                          \/ config' = -1 /\ \E v \in tasks[u].saved..file : v \notin good
      BY <2>1, <2>2 DEF T!ReloadTakes, T!Fallback
    <3>2. tasks[u].saved \in Int /\ tasks[u].saved <= file /\ file \in Int /\ file <= MaxSaves
      <4>1. tasks[u] \in T!Task
        BY ElementShape DEF TInv, Versions
      <4>2. QED
        BY <4>1, SettingsAssumption DEF TInv, Versions, T!Task
    <3>3. file \in tasks[u].saved..file /\ file \in tasks[u].saved..MaxSaves
      BY <3>2, SettingsAssumption
    <3>4. QED
      BY <2>2, <3>3
  <2>5. QED
    BY <2>3, <2>4 DEF TInv
<1>6. ASSUME NEW t \in DOMAIN tasks, T!TaskReports(t) PROVE TInv'
  BY <1>6, TaskOnly DEF T!TaskReports, T!Running, T!disk
<1>7. ASSUME NEW t \in DOMAIN tasks, T!TaskFails(t) PROVE TInv'
  BY <1>7, TaskOnly DEF T!TaskFails, T!Running, T!disk
<1>8. CASE T!Save
  <2>1. /\ file < MaxSaves /\ file' = file + 1 /\ UNCHANGED <<tasks, config>>
        /\ good' = good \/ good' = good \union {file'}
    BY <1>8 DEF T!Save
  <2>2. file \in Int /\ file >= 0 /\ MaxSaves \in Int
    BY SettingsAssumption DEF TInv, Versions
  <2>3. \A t \in DOMAIN tasks : tasks[t].saved \in 0..MaxSaves
    <3>1. \A t \in DOMAIN tasks : tasks[t] \in T!Task
      BY ElementShape DEF TInv, Versions
    <3>2. QED
      BY <3>1 DEF T!Task
  <2>4. Versions'
    <3>1. file' \in 0..MaxSaves /\ \A t \in DOMAIN tasks : tasks[t].saved <= file'
      BY <2>1, <2>2, <2>3 DEF TInv, Versions
    <3>2. good' \subseteq 0..file'
      <4>1. good \subseteq 0..file
        BY DEF TInv, Versions
      <4>2. \A v \in 0..file : v \in 0..file'
        BY <2>1, <2>2
      <4>3. file' \in 0..file'
        BY <3>1, <2>1, <2>2
      <4>4. QED
        BY <2>1, <4>1, <4>2, <4>3
    <3>3. config' \in good' \union {-1}
      BY <2>1 DEF TInv, Versions
    <3>4. QED
      BY <2>1, <3>1, <3>2, <3>3 DEF TInv, Versions
  <2>5. \A v \in Int : v <= file /\ v \notin good => v <= file' /\ v \notin good'
    BY <2>1, <2>2
  <2>6. T!ReloadTakes'
    <3>1. SUFFICES ASSUME NEW t \in DOMAIN tasks, tasks[t].state \in {"replied", "done"}
                   PROVE  \/ config \in tasks[t].saved..MaxSaves
                          \/ config = -1 /\ \E v \in tasks[t].saved..file' : v \notin good'
      BY <2>1 DEF T!ReloadTakes, T!Fallback
    <3>2. \/ config \in tasks[t].saved..MaxSaves
          \/ config = -1 /\ \E v \in tasks[t].saved..file : v \notin good
      <4>1. T!ReloadTakes
        BY DEF TInv
      <4>2. QED
        BY <3>1, <4>1 DEF T!ReloadTakes, T!Fallback
    <3>3. ASSUME NEW v \in tasks[t].saved..file, v \notin good
          PROVE  v \in tasks[t].saved..file' /\ v \notin good'
      BY <2>1, <2>2, <2>3, <2>5, <3>3
    <3>4. QED
      BY <3>2, <3>3
  <2>7. QED
    BY <2>4, <2>6 DEF TInv
<1>9. QED
  BY <1>2, <1>3, <1>4, <1>5, <1>6, <1>7, <1>8 DEF T!Next, T!TaskStep

(* Before the first Enter there is no version but the first.                *)
LEMMA InitTInv == T!Init => TInv /\ TTypes
<1> SUFFICES ASSUME T!Init PROVE TInv /\ TTypes
  OBVIOUS
<1>1. /\ file = 0 /\ tasks = <<>> /\ Len(<<>>) = 0 /\ ended = FALSE
      /\ good \subseteq {0} /\ config \in good \union {-1}
      /\ status = "none" /\ statusShown = "none"
  BY DEF T!Init, T!Loaded, T!Fallback
<1>2. 0 \in 0..MaxSaves /\ 0 \in 0..0 /\ 0 <= MaxReloads
  BY SettingsAssumption
<1>3. <<>> \in Seq(T!Task) /\ DOMAIN <<>> = {}
  OBVIOUS
<1>4. TInv
  BY <1>1, <1>2, <1>3 DEF TInv, Versions, T!ReloadTakes
<1>5. ended \in BOOLEAN
  BY <1>1
<1>6. status \in Statuses /\ statusShown \in Statuses
  BY <1>1 DEF Statuses
<1>7. Len(tasks) <= MaxReloads
  BY <1>1, <1>2
<1>8. QED
  BY <1>4, <1>5, <1>6, <1>7 DEF TTypes

(* The status line, and the number of tasks, stay what they can be.         *)
LEMMA NextTTypes == TInv /\ TTypes /\ [T!Next]_T!vars => TTypes'
<1> SUFFICES ASSUME TInv, TTypes, [T!Next]_T!vars PROVE TTypes'
  OBVIOUS
<1>1. ASSUME UNCHANGED <<ended, tasks>>, status' \in Statuses, statusShown' \in Statuses
      PROVE  TTypes'
  BY <1>1 DEF TTypes
<1>2. /\ status \in Statuses /\ statusShown \in Statuses /\ ended \in BOOLEAN
      /\ Len(tasks) <= MaxReloads /\ tasks \in Seq(T!Task)
  BY DEF TTypes, TInv, Versions
<1>3. T!Redraw /\ status' \in Statuses => statusShown' \in Statuses
  BY <1>2 DEF T!Redraw
<1>4. CASE T!Configure \/ T!ChangeSection \/ T!Close \/ T!Save \/ UNCHANGED T!vars
  BY <1>1, <1>2, <1>3, <1>4
  DEF T!Configure, T!ChangeSection, T!Close, T!Save, T!vars, T!window, T!disk
<1>5. CASE T!Leave
  <2>1. /\ ended' = TRUE /\ UNCHANGED <<status, statusShown, tasks>>
    BY <1>5 DEF T!Leave
  <2>2. ended' \in BOOLEAN
    BY <2>1
  <2>3. QED
    BY <1>2, <2>1, <2>2 DEF TTypes
<1>6. CASE T!Enter
  <2>1. /\ Len(tasks) < MaxReloads /\ UNCHANGED ended /\ T!Redraw /\ status' = "reloading"
        /\ tasks' = Append(tasks, [state |-> "connecting", saved |-> file])
    BY <1>6 DEF T!Enter
  <2>2. [state |-> "connecting", saved |-> file] \in T!Task
    BY DEF TInv, Versions, T!Task, T!Running
  <2>3. Len(tasks') = Len(tasks) + 1 /\ Len(tasks) \in Nat
    BY <1>2, <2>1, <2>2, AppendShape
  <2>4. Len(tasks') <= MaxReloads
    BY <2>1, <2>3, SettingsAssumption
  <2>5. status' \in Statuses
    BY <2>1 DEF Statuses
  <2>6. QED
    BY <1>2, <1>3, <2>1, <2>4, <2>5 DEF TTypes
<1>7. ASSUME NEW t \in DOMAIN tasks, T!TaskStep(t) PROVE TTypes'
  <2>1. PICK from \in T!Running, to \in T!Running \union {"done", "failed"} : T!Advance(t, from, to)
    BY <1>7
    DEF T!TaskStep, T!TaskSends, T!FrameReloads, T!TaskReports, T!TaskFails, T!Running
  <2>2. /\ UNCHANGED <<statusShown, ended>>
        /\ status' = status \/ status' = "reloaded" \/ status' = "failed"
    BY <1>7 DEF T!TaskStep, T!TaskSends, T!FrameReloads, T!TaskReports, T!TaskFails, T!window
  <2>3. tasks' \in Seq(T!Task) /\ DOMAIN tasks' = DOMAIN tasks
    BY <2>1, AdvanceShape DEF TInv
  <2>4. Len(tasks') = Len(tasks)
    BY <1>2, <2>3, ElementShape
  <2>5. status' \in Statuses
    BY <1>2, <2>2 DEF Statuses
  <2>6. QED
    BY <1>2, <2>2, <2>4, <2>5 DEF TTypes
<1>8. QED
  BY <1>4, <1>5, <1>6, <1>7 DEF T!Next

(* A reload that was answered has been made: FRAME's configuration is as    *)
(* new as the file was when Enter was pressed, or the fallback because a    *)
(* version saved since cannot be loaded, however the tasks of several       *)
(* Enters and the saves interleave (handle_action, FrameConfig::load).      *)
THEOREM ReloadTakesCorrect == T!Spec => []T!ReloadTakes
<1>1. T!Init => TInv
  BY InitTInv
<1>2. TInv => T!ReloadTakes
  BY DEF TInv
<1>3. QED
  BY <1>1, <1>2, NextTInv, PTL DEF T!Spec

-------------------------------------------------------------------------------
(* The history.                                                              *)

Least(a, b) == IF a <= b THEN a ELSE b

(* The end of a file: its m newest lines are those up to newest, without a  *)
(* gap.                                                                     *)
EndsIn(lines, m, newest) ==
  m <= Len(lines) /\ \A j \in 0..(m - 1) : lines[Len(lines) - j] = newest - j

Below(lines, m, b) == \A k \in 1..m : lines[k] <= b

Increasing(lines) == \A j, k \in DOMAIN lines : j < k => lines[j] < lines[k]

(* What the two files hold, where b is the newest line of the rotated one.  *)
(* The lines after b are in the current file; once it is not short of them, *)
(* it ends in the Recent newest.                                            *)
Files(b) ==
  /\ b \in 0..written
  /\ EndsIn(rotated, Least(Recent, b), b)
  /\ EndsIn(current, written - b, written)
  /\ short = 0 => EndsIn(current, Least(Recent, written), written)
  /\ short # 0 => Recent - short <= written - b

(* A replay in progress: what was carried over and what is to come are the  *)
(* newest lines of the rotated file.                                        *)
Replaying ==
  LET newest == H!Newest(rotated) IN
  /\ Len(current) + Len(replay) = Len(newest)
  /\ \A k \in 1..Len(current) : current[k] = newest[k]
  /\ \A k \in 1..Len(replay) : replay[k] = newest[Len(current) + k]

(* Where the daemon is and what it has open.                                *)
Descriptor ==
  /\ daemon = "down" <=> handle = "none"
  /\ handle = "current" => exists = TRUE
  /\ handle = "rotated" => exists = FALSE
  /\ exists = FALSE => current = <<>>
  /\ daemon = "reopen" => handle = "rotated"
  /\ daemon = "replay" => handle = "current"
  /\ daemon \in {"reopen", "replay"} \/ handle = "rotated" => short = Recent

HInv ==
  /\ H!TypeOK /\ Descriptor
  /\ Increasing(current) /\ Increasing(rotated)
  /\ Below(current, Len(current), written) /\ Below(rotated, Len(rotated), written)
  /\ daemon = "replay" => Replaying
  /\ torn = FALSE => \E b \in 0..written : Files(b) /\ (daemon = "replay" => written = b)

-------------------------------------------------------------------------------
(* The numbers of the history are numbers.                                  *)
LEMMA HistoryBounds == Recent \in Nat /\ MaxLines \in Nat
  BY HistoryAssumption DEF H!HistoryAssumption

(* The smaller one of two numbers.                                          *)
LEMMA LeastShape ==
  ASSUME NEW a \in Int, NEW b \in Int
  PROVE  /\ Least(a, b) \in Int /\ Least(a, b) <= a /\ Least(a, b) <= b
         /\ Least(a, b) = a \/ Least(a, b) = b
  BY DEF Least

(* A shorter end of the same file.                                          *)
LEMMA EndsInLess ==
  ASSUME NEW A, NEW lines \in Seq(A), NEW m \in Int, NEW k \in Int, k <= m, NEW x \in Int,
         EndsIn(lines, m, x)
  PROVE  EndsIn(lines, k, x)
<1>1. Len(lines) \in Nat
  BY ElementShape
<1>2. m <= Len(lines) /\ \A j \in 0..(m - 1) : lines[Len(lines) - j] = x - j
  BY DEF EndsIn
<1>3. k <= Len(lines) /\ \A j \in 0..(k - 1) : j \in 0..(m - 1)
  BY <1>1, <1>2
<1>4. QED
  BY <1>2, <1>3 DEF EndsIn

(* The next line makes the end longer.                                      *)
LEMMA EndsInAppend ==
  ASSUME NEW lines \in Seq(1..MaxLines), NEW m \in Int, NEW x \in Int, EndsIn(lines, m, x),
         x + 1 \in 1..MaxLines
  PROVE  EndsIn(Append(lines, x + 1), m + 1, x + 1)
<1> DEFINE more == Append(lines, x + 1)
<1>1. /\ Len(more) = Len(lines) + 1 /\ Len(lines) \in Nat
      /\ \A k \in 1..Len(lines) : more[k] = lines[k]
      /\ more[Len(lines) + 1] = x + 1
  BY AppendShape
<1>2. m <= Len(lines) /\ \A j \in 0..(m - 1) : lines[Len(lines) - j] = x - j
  BY DEF EndsIn
<1> HIDE DEF more
<1>3. m + 1 <= Len(more)
  BY <1>1, <1>2
<1>4. ASSUME NEW j \in 0..m PROVE more[Len(more) - j] = x + 1 - j
  <2>1. CASE j = 0
    BY <1>1, <2>1
  <2>2. CASE j # 0
    <3>1. j - 1 \in 0..(m - 1) /\ Len(lines) - (j - 1) \in 1..Len(lines)
      BY <1>1, <1>2, <2>2
    <3>2. Len(more) - j = Len(lines) - (j - 1)
      BY <1>1, <1>2
    <3>3. lines[Len(lines) - (j - 1)] = x - (j - 1)
      BY <1>2, <3>1
    <3>4. more[Len(lines) - (j - 1)] = lines[Len(lines) - (j - 1)]
      BY <1>1, <3>1
    <3>5. QED
      BY <3>2, <3>3, <3>4
  <2>3. QED
    BY <2>1, <2>2
<1>5. (m + 1) - 1 = m
  OBVIOUS
<1>6. QED
  BY <1>3, <1>4, <1>5 DEF EndsIn, more

(* Newest returns the end of the file.                                      *)
LEMMA NewestShape ==
  ASSUME NEW lines \in Seq(1..MaxLines)
  PROVE  /\ H!Newest(lines) \in Seq(1..MaxLines)
         /\ Len(H!Newest(lines)) = Least(Recent, Len(lines))
         /\ \A k \in 1..Len(H!Newest(lines)) :
              H!Newest(lines)[k] = lines[Len(lines) - Len(H!Newest(lines)) + k]
<1>1. Recent \in Nat /\ Len(lines) \in Nat
  BY HistoryBounds, ElementShape
<1>2. CASE Len(lines) <= Recent
  <2>1. H!Newest(lines) = lines
    BY <1>2 DEF H!Newest
  <2>2. Least(Recent, Len(lines)) = Len(lines)
    BY <1>1, <1>2 DEF Least
  <2>3. \A k \in 1..Len(lines) : Len(lines) - Len(lines) + k = k
    BY <1>1
  <2>4. QED
    BY <2>1, <2>2, <2>3
<1>3. CASE ~(Len(lines) <= Recent)
  <2> DEFINE from == Len(lines) - Recent + 1
             newest == SubSeq(lines, from, Len(lines))
  <2>1. H!Newest(lines) = newest
    BY <1>3 DEF H!Newest
  <2>2. from \in Nat \ {0} /\ Len(lines) - from + 1 = Recent
    BY <1>1, <1>3
  <2>3. /\ newest \in Seq(1..MaxLines)
        /\ Len(newest) = Len(lines) - from + 1
        /\ \A k \in 1..(Len(lines) - from + 1) : newest[k] = lines[from + k - 1]
    <3>1. /\ from \in Int /\ Len(lines) \in Int
          /\ \A i \in from..Len(lines) : lines[i] \in 1..MaxLines
      <4>1. \A i \in from..Len(lines) : i \in 1..Len(lines)
        BY <1>1, <2>2
      <4>2. \A i \in 1..Len(lines) : lines[i] \in 1..MaxLines
        BY ElementShape
      <4>3. QED
        BY <1>1, <2>2, <4>1, <4>2
    <3>2. from <= Len(lines) \/ Len(lines) - from + 1 = 0
      BY <1>1, <2>2
    <3>3. QED
      BY <1>1, <3>1, <3>2, SubSeqProperties
  <2>4. Least(Recent, Len(lines)) = Recent
    BY <1>1, <1>3 DEF Least
  <2> HIDE DEF newest
  <2>5. \A k \in 1..Recent : newest[k] = lines[Len(lines) - Recent + k]
    <3>1. \A k \in 1..Recent : from + k - 1 = Len(lines) - Recent + k
      BY <1>1
    <3>2. QED
      BY <2>2, <2>3, <3>1
  <2>6. Len(newest) = Recent
    BY <2>2, <2>3
  <2>7. QED
    BY <2>1, <2>3, <2>4, <2>5, <2>6
<1>4. QED
  BY <1>2, <1>3

(* A newer line at the end keeps a file in order.                           *)
LEMMA IncreasingAppend ==
  ASSUME NEW lines \in Seq(1..MaxLines), NEW x \in 1..MaxLines, Increasing(lines),
         \A k \in DOMAIN lines : lines[k] < x
  PROVE  Increasing(Append(lines, x))
<1>1. /\ Len(lines) \in Nat /\ DOMAIN lines = 1..Len(lines)
      /\ DOMAIN Append(lines, x) = 1..(Len(lines) + 1)
      /\ \A k \in 1..Len(lines) : Append(lines, x)[k] = lines[k]
      /\ Append(lines, x)[Len(lines) + 1] = x
  BY AppendShape
<1>2. QED
  BY <1>1 DEF Increasing

(* The next line written keeps a file in order.                             *)
LEMMA LineAppended ==
  ASSUME NEW lines \in Seq(1..MaxLines), Increasing(lines), NEW w \in Nat, w + 1 \in 1..MaxLines,
         Below(lines, Len(lines), w)
  PROVE  LET more == Append(lines, w + 1) IN
         more \in Seq(1..MaxLines) /\ Increasing(more) /\ Below(more, Len(more), w + 1)
<1> DEFINE more == Append(lines, w + 1)
<1>1. /\ more \in Seq(1..MaxLines)
      /\ Len(lines) \in Nat /\ Len(more) = Len(lines) + 1 /\ DOMAIN lines = 1..Len(lines)
      /\ \A k \in 1..Len(lines) : more[k] = lines[k]
      /\ more[Len(lines) + 1] = w + 1
  BY AppendShape
<1>2. \A k \in DOMAIN lines : lines[k] \in 1..MaxLines /\ lines[k] <= w
  BY <1>1, ElementShape DEF Below
<1>3. \A k \in DOMAIN lines : lines[k] < w + 1
  BY <1>2
<1>4. Increasing(more)
  BY <1>3, IncreasingAppend
<1> HIDE DEF more
<1>5. Below(more, Len(more), w + 1)
  <2>1. ASSUME NEW k \in 1..(Len(lines) + 1) PROVE more[k] <= w + 1
    <3>1. CASE k = Len(lines) + 1
      BY <1>1, <3>1
    <3>2. CASE k # Len(lines) + 1
      <4>1. k \in 1..Len(lines)
        BY <1>1, <3>2
      <4>2. more[k] = lines[k] /\ lines[k] \in 1..MaxLines /\ lines[k] <= w
        BY <1>1, <1>2, <4>1
      <4>3. QED
        BY <4>2
    <3>3. QED
      BY <3>1, <3>2
  <2>2. QED
    BY <1>1, <2>1 DEF Below
<1>6. QED
  BY <1>1, <1>4, <1>5 DEF more

(* A step that leaves the files alone.                                      *)
LEMMA FilesKept ==
  ASSUME HInv, UNCHANGED <<current, rotated, written, short, torn>>, H!TypeOK', Descriptor',
         daemon' = "replay" => FALSE
  PROVE  HInv'
<1>1. /\ Increasing(current)' /\ Increasing(rotated)'
      /\ Below(current, Len(current), written)' /\ Below(rotated, Len(rotated), written)'
  BY DEF HInv
<1>2. ASSUME torn' = FALSE PROVE \E b \in 0..written' : Files(b)'
  <2>1. PICK b \in 0..written : Files(b)
    BY <1>2 DEF HInv
  <2>2. Files(b)'
    BY <2>1 DEF Files
  <2>3. QED
    BY <2>2
<1>3. QED
  BY <1>1, <1>2 DEF HInv

(* append to the current file: it is one line less short of the newest.     *)
LEMMA WriteCurrentInv == ASSUME HInv, H!WriteLine, handle = "current" PROVE HInv'
<1> DEFINE line == written + 1
<1>1. /\ daemon = "idle" /\ written < MaxLines /\ written' = line
      /\ current' = Append(current, line)
      /\ toolong' \in {toolong, TRUE}
      /\ daemon' \in {"idle", "rename"}
      /\ short' = IF short = 0 THEN 0 ELSE short - 1
      /\ UNCHANGED <<exists, handle, replay, torn, rotated>>
  BY DEF H!WriteLine
<1>2. /\ H!TypeOK /\ Descriptor
      /\ Increasing(current) /\ Below(current, Len(current), written)
      /\ Increasing(rotated) /\ Below(rotated, Len(rotated), written)
      /\ current \in Seq(1..MaxLines) /\ rotated \in Seq(1..MaxLines)
      /\ written \in 0..MaxLines /\ short \in 0..Recent
  BY DEF HInv, H!TypeOK
<1>3. /\ line \in 1..MaxLines /\ line \in 0..MaxLines /\ written \in Nat /\ line = written + 1
      /\ short \in Nat /\ Recent \in Nat
  BY <1>1, <1>2, HistoryBounds
<1>4. /\ current' \in Seq(1..MaxLines) /\ Increasing(current')
      /\ Below(current', Len(current'), line)
  BY <1>1, <1>2, <1>3, LineAppended
<1> HIDE DEF line
<1>5. H!TypeOK'
  <2>1. short' \in 0..Recent
    BY <1>1, <1>2, <1>3
  <2>2. toolong' \in BOOLEAN
    BY <1>1, <1>2 DEF H!TypeOK
  <2>3. QED
    BY <1>1, <1>2, <1>3, <1>4, <2>1, <2>2 DEF H!TypeOK
<1>6. Descriptor'
  BY <1>1, <1>2 DEF Descriptor
<1>7. Below(rotated', Len(rotated'), line)
  <2>1. \A k \in 1..Len(rotated) : rotated[k] \in 1..MaxLines /\ rotated[k] <= written
    BY <1>2, ElementShape DEF Below
  <2>2. \A k \in 1..Len(rotated) : rotated[k] <= line
    BY <1>3, <2>1
  <2>3. QED
    BY <1>1, <2>2 DEF Below
<1>8. ASSUME torn' = FALSE PROVE \E b \in 0..written' : Files(b)'
  <2>1. PICK b \in 0..written : Files(b)
    BY <1>1, <1>8 DEF HInv
  <2>2. b \in Int /\ b \in 0..line
    BY <1>3
  <2>3. EndsIn(current', line - b, line)
    <3>1. EndsIn(current, written - b, written)
      BY <2>1 DEF Files
    <3>2. EndsIn(Append(current, written + 1), written - b + 1, written + 1)
      BY <1>2, <1>3, <2>2, <3>1, EndsInAppend
    <3>3. written - b + 1 = line - b
      BY <1>3, <2>2
    <3>4. QED
      BY <1>1, <1>3, <3>2, <3>3
  <2>4. /\ Least(Recent, line) \in Int /\ Least(Recent, written) \in Int
        /\ Least(Recent, line) <= Least(Recent, written) + 1
        /\ Least(Recent, line) <= Recent
    BY <1>3 DEF Least
  <2>5. short' = 0 => EndsIn(current', Least(Recent, line), line)
    <3>1. CASE short = 0
      <4>1. EndsIn(current, Least(Recent, written), written)
        BY <2>1, <3>1 DEF Files
      <4>2. EndsIn(current', Least(Recent, written) + 1, line)
        BY <1>1, <1>2, <1>3, <2>4, <4>1, EndsInAppend
      <4>3. Least(Recent, written) + 1 \in Int /\ line \in Int
        BY <1>3, <2>4
      <4>4. QED
        BY <1>4, <2>4, <4>2, <4>3, EndsInLess
    <3>2. CASE short = 1
      <4>1. Recent - 1 <= written - b
        BY <2>1, <3>2 DEF Files
      <4>2. Least(Recent, line) <= line - b /\ line - b \in Int /\ line \in Int
        BY <1>3, <2>2, <2>4, <4>1
      <4>3. QED
        BY <1>4, <2>3, <2>4, <4>2, EndsInLess
    <3>3. CASE short # 0 /\ short # 1
      <4>1. short' # 0
        BY <1>1, <1>3, <3>3
      <4>2. QED
        BY <4>1
    <3>4. QED
      BY <3>1, <3>2, <3>3
  <2>6. short' # 0 => Recent - short' <= line - b
    <3>1. CASE short = 0
      BY <1>1, <3>1
    <3>2. CASE short # 0
      <4>1. Recent - short <= written - b /\ short' = short - 1
        BY <1>1, <2>1, <3>2 DEF Files
      <4>2. QED
        BY <1>3, <2>2, <4>1
    <3>3. QED
      BY <3>1, <3>2
  <2>7. EndsIn(rotated', Least(Recent, b), b)
    BY <1>1, <2>1 DEF Files
  <2>8. Files(b)'
    BY <1>1, <2>2, <2>3, <2>5, <2>6, <2>7 DEF Files
  <2>9. QED
    BY <1>1, <2>2, <2>8
<1>9. Increasing(rotated') /\ daemon' # "replay"
  BY <1>1, <1>2
<1>10. QED
  BY <1>1, <1>4, <1>5, <1>6, <1>7, <1>8, <1>9 DEF HInv

(* append through a descriptor that still stands for the renamed file: that *)
(* file then ends in the newest line, and the current one is empty.         *)
LEMMA WriteRotatedInv == ASSUME HInv, H!WriteLine, handle = "rotated" PROVE HInv'
<1> DEFINE line == written + 1
<1>1. /\ daemon = "idle" /\ written < MaxLines /\ written' = line
      /\ rotated' = Append(rotated, line)
      /\ daemon' = "rename"
      /\ UNCHANGED <<exists, handle, replay, torn, current, toolong, short>>
  BY DEF H!WriteLine
<1>2. /\ H!TypeOK /\ Descriptor
      /\ Increasing(current) /\ Below(current, Len(current), written)
      /\ Increasing(rotated) /\ Below(rotated, Len(rotated), written)
      /\ current \in Seq(1..MaxLines) /\ rotated \in Seq(1..MaxLines)
      /\ written \in 0..MaxLines
  BY DEF HInv, H!TypeOK
<1>3. /\ line \in 1..MaxLines /\ line \in 0..MaxLines /\ written \in Nat /\ line = written + 1
      /\ Recent \in Nat
  BY <1>1, <1>2, HistoryBounds
<1>4. /\ rotated' \in Seq(1..MaxLines) /\ Increasing(rotated')
      /\ Below(rotated', Len(rotated'), line)
  BY <1>1, <1>2, <1>3, LineAppended
<1>5. current = <<>> /\ short = Recent
  BY <1>2 DEF Descriptor
<1> HIDE DEF line
<1>6. H!TypeOK'
  BY <1>1, <1>2, <1>3, <1>4 DEF H!TypeOK
<1>7. Descriptor'
  BY <1>1, <1>2 DEF Descriptor
<1>8. Increasing(current') /\ Below(current', Len(current'), line)
  BY <1>1, <1>2, <1>5 DEF Below
<1>9. ASSUME torn' = FALSE PROVE \E c \in 0..written' : Files(c)'
  <2>1. PICK b \in 0..written : Files(b)
    BY <1>1, <1>9 DEF HInv
  <2>2. b = written
    <3>1. written - b <= 0
      BY <1>5, <2>1 DEF Files, EndsIn
    <3>2. QED
      BY <1>3, <3>1
  <2>3. /\ Least(Recent, line) \in Int /\ Least(Recent, written) \in Int
        /\ Least(Recent, line) <= Least(Recent, written) + 1
        /\ Least(Recent, written) + 1 \in Int /\ line \in Int
    BY <1>3 DEF Least
  <2>4. EndsIn(rotated', Least(Recent, line), line)
    <3>1. EndsIn(rotated, Least(Recent, written), written)
      BY <2>1, <2>2 DEF Files
    <3>2. EndsIn(rotated', Least(Recent, written) + 1, line)
      BY <1>1, <1>2, <1>3, <2>3, <3>1, EndsInAppend
    <3>3. QED
      BY <1>4, <2>3, <3>2, EndsInLess
  <2>5. line - line = 0 /\ EndsIn(<<>>, 0, line)
    BY <1>3 DEF EndsIn
  <2>6. short = 0 => EndsIn(<<>>, Least(Recent, line), line)
    <3>1. Recent = 0 => Least(Recent, line) = 0
      BY <1>3 DEF Least
    <3>2. QED
      BY <1>5, <2>5, <3>1
  <2>7. Recent - short <= 0
    BY <1>3, <1>5
  <2>8. line \in 0..line
    BY <1>3
  <2>9. PICK c \in 0..line : c = line
    BY <2>8
  <2>10. Files(c)'
    BY <1>1, <1>5, <2>4, <2>5, <2>6, <2>7, <2>8, <2>9 DEF Files
  <2>11. QED
    BY <1>1, <2>10
<1>10. daemon' # "replay"
  BY <1>1
<1>11. QED
  BY <1>1, <1>4, <1>6, <1>7, <1>8, <1>9, <1>10 DEF HInv

(* rotate: the current file becomes the rotated one, and the new one is     *)
(* short of all the Recent newest lines.  If the current file was not short *)
(* of them, the rotated one ends in them.                                   *)
LEMMA RenameInv == ASSUME HInv, H!Rename PROVE HInv'
<1>1. /\ daemon = "rename" /\ rotated' = current /\ current' = <<>>
      /\ exists' = FALSE /\ toolong' = FALSE /\ handle' = "rotated" /\ daemon' = "reopen"
      /\ torn' = (torn \/ short > 0)
      /\ short' = Recent
      /\ UNCHANGED <<written, replay>>
  BY DEF H!Rename
<1>2. /\ H!TypeOK /\ Descriptor /\ Increasing(current) /\ Below(current, Len(current), written)
      /\ current \in Seq(1..MaxLines) /\ written \in Nat /\ short \in 0..Recent /\ Recent \in Nat
  BY HistoryBounds DEF HInv, H!TypeOK
<1>3. ASSUME torn' = FALSE PROVE \E c \in 0..written' : Files(c)'
  <2>1. torn = FALSE /\ ~(short > 0)
    BY <1>1, <1>2, <1>3 DEF H!TypeOK
  <2>2. short = 0
    BY <1>2, <2>1
  <2>3. EndsIn(current, Least(Recent, written), written)
    BY <2>1, <2>2 DEF HInv, Files
  <2>4. written - written = 0 /\ Recent - Recent = 0 /\ EndsIn(<<>>, 0, written)
    BY <1>2 DEF EndsIn
  <2>5. Recent = 0 => EndsIn(<<>>, Least(Recent, written), written)
    <3>1. Recent = 0 => Least(Recent, written) = 0
      BY <1>2 DEF Least
    <3>2. QED
      BY <2>4, <3>1
  <2>6. 0 <= 0 /\ written \in 0..written
    BY <1>2
  <2>7. PICK c \in 0..written : c = written
    BY <2>6
  <2>8. Files(c)'
    BY <1>1, <2>3, <2>4, <2>5, <2>6, <2>7 DEF Files
  <2>9. QED
    BY <1>1, <2>8
<1>4. H!TypeOK'
  <2>1. <<>> \in Seq(1..MaxLines) /\ Recent \in 0..Recent
    BY <1>2
  <2>2. exists' \in BOOLEAN
    BY <1>1
  <2>3. toolong' \in BOOLEAN
    BY <1>1
  <2>4. torn' \in BOOLEAN
    BY <1>1
  <2>5. QED
    BY <1>1, <1>2, <2>1, <2>2, <2>3, <2>4 DEF H!TypeOK
<1>5. Descriptor'
  BY <1>1 DEF Descriptor
<1>6. /\ Increasing(current') /\ Increasing(rotated')
      /\ Below(current', Len(current'), written') /\ Below(rotated', Len(rotated'), written')
  BY <1>1, <1>2 DEF Increasing, Below
<1>7. daemon' # "replay"
  BY <1>1
<1>8. QED
  BY <1>3, <1>4, <1>5, <1>6, <1>7 DEF HInv

(* The replay starts with the newest lines of the rotated file and an empty *)
(* current one.                                                             *)
LEMMA ReopenInv == ASSUME HInv, H!Reopen PROVE HInv'
<1>1. /\ daemon = "reopen" /\ exists' = TRUE /\ handle' = "current"
      /\ replay' = H!Newest(rotated) /\ daemon' = "replay"
      /\ UNCHANGED <<current, toolong, rotated, written, short, torn>>
  BY DEF H!Reopen, H!ghosts
<1>2. /\ H!TypeOK /\ Descriptor
      /\ rotated \in Seq(1..MaxLines) /\ written \in Nat
  BY HistoryBounds DEF HInv, H!TypeOK
<1>3. current = <<>>
  BY <1>1, <1>2 DEF Descriptor
<1>4. H!Newest(rotated) \in Seq(1..MaxLines)
  BY <1>2, NewestShape
<1>5. H!TypeOK'
  <2>1. exists' \in BOOLEAN
    BY <1>1
  <2>2. QED
    BY <1>1, <1>2, <1>4, <2>1 DEF H!TypeOK
<1>6. Descriptor'
  BY <1>1, <1>2 DEF Descriptor
<1>7. Replaying'
  <2> DEFINE newest == H!Newest(rotated)
  <2>1. H!Newest(rotated)' = newest
    BY <1>1 DEF H!Newest
  <2>2. newest \in Seq(1..MaxLines) /\ Len(newest) \in Nat
    BY <1>4, ElementShape
  <2> HIDE DEF newest
  <2>3. /\ Len(<<>>) + Len(newest) = Len(newest)
        /\ \A k \in 1..Len(newest) : newest[k] = newest[Len(<<>>) + k]
    BY <2>2
  <2>4. current' = <<>> /\ replay' = newest
    BY <1>1, <1>3 DEF newest
  <2>5. QED
    BY <2>1, <2>3, <2>4 DEF Replaying
<1>8. ASSUME torn' = FALSE PROVE \E b \in 0..written' : Files(b)' /\ written' = b
  <2>1. PICK b \in 0..written : Files(b)
    BY <1>1, <1>8 DEF HInv
  <2>2. b = written
    <3>1. written - b <= 0
      BY <1>3, <2>1 DEF Files, EndsIn
    <3>2. QED
      BY <1>2, <3>1
  <2>3. Files(b)'
    BY <1>1, <2>1 DEF Files
  <2>4. QED
    BY <1>1, <2>2, <2>3
<1>9. /\ Increasing(current)' /\ Increasing(rotated)'
      /\ Below(current, Len(current), written)' /\ Below(rotated, Len(rotated), written)'
  BY <1>1 DEF HInv
<1>10. QED
  BY <1>5, <1>6, <1>7, <1>8, <1>9 DEF HInv

(* What a replay in progress has carried over is part of the rotated file.  *)
LEMMA CarriedOver ==
  ASSUME H!TypeOK, Replaying, NEW n \in Nat, n <= Len(H!Newest(rotated)), NEW lines,
         \A k \in 1..n : lines[k] = H!Newest(rotated)[k]
  PROVE  /\ Len(H!Newest(rotated)) <= Len(rotated) /\ Len(H!Newest(rotated)) \in Nat
         /\ Len(rotated) \in Nat
         /\ \A k \in 1..n :
              /\ Len(rotated) - Len(H!Newest(rotated)) + k \in 1..Len(rotated)
              /\ lines[k] = rotated[Len(rotated) - Len(H!Newest(rotated)) + k]
<1> DEFINE newest == H!Newest(rotated)
<1>1. rotated \in Seq(1..MaxLines)
  BY DEF H!TypeOK
<1>2. /\ Len(newest) = Least(Recent, Len(rotated)) /\ Len(rotated) \in Nat
      /\ \A k \in 1..Len(newest) : newest[k] = rotated[Len(rotated) - Len(newest) + k]
  BY <1>1, NewestShape, ElementShape
<1> HIDE DEF newest
<1>3. Least(Recent, Len(rotated)) \in Nat /\ Least(Recent, Len(rotated)) <= Len(rotated)
  BY <1>2, HistoryBounds DEF Least
<1>4. Len(newest) \in Nat /\ Len(newest) <= Len(rotated) /\ n <= Len(newest)
  BY <1>2, <1>3 DEF newest
<1>5. \A k \in 1..n :
        k \in 1..Len(newest) /\ Len(rotated) - Len(newest) + k \in 1..Len(rotated)
  BY <1>2, <1>4
<1>6. \A k \in 1..n : lines[k] = newest[k]
  BY DEF newest
<1>7. QED
  BY <1>2, <1>4, <1>5, <1>6 DEF newest

(* All lines are carried over: the current file is no longer short of them. *)
LEMMA ReplayEndsInv == ASSUME HInv, H!Replay, replay = <<>> PROVE HInv'
<1> DEFINE newest == H!Newest(rotated)
<1>1. /\ daemon = "replay" /\ daemon' = "idle" /\ short' = 0
      /\ UNCHANGED <<current, toolong, replay, exists, rotated, handle, written, torn>>
  BY DEF H!Replay
<1>2. /\ H!TypeOK /\ Descriptor /\ Replaying
      /\ current \in Seq(1..MaxLines) /\ rotated \in Seq(1..MaxLines)
      /\ written \in Nat /\ Recent \in Nat
  BY <1>1, HistoryBounds DEF HInv, H!TypeOK
<1>3. handle = "current" /\ exists = TRUE
  BY <1>1, <1>2 DEF Descriptor
<1>4. /\ Len(newest) = Least(Recent, Len(rotated)) /\ newest \in Seq(1..MaxLines)
      /\ Len(current) \in Nat
  BY <1>2, NewestShape, ElementShape
<1>5. Len(current) + 0 = Len(newest) /\ \A k \in 1..Len(current) : current[k] = newest[k]
  BY <1>2 DEF Replaying
<1>6. /\ Len(rotated) \in Nat /\ Len(newest) \in Nat /\ Len(newest) <= Len(rotated)
      /\ \A k \in 1..Len(current) : current[k] = rotated[Len(rotated) - Len(newest) + k]
  <2>1. Len(current) <= Len(newest)
    BY <1>4, <1>5
  <2>2. QED
    BY <1>2, <1>4, <1>5, <2>1, CarriedOver
<1>7. ASSUME torn = FALSE PROVE EndsIn(current, Least(Recent, written), written)
  <2>1. EndsIn(rotated, Least(Recent, written), written)
    BY <1>1, <1>7 DEF HInv, Files
  <2>2. /\ Least(Recent, written) <= Len(rotated)
        /\ \A j \in 0..(Least(Recent, written) - 1) : rotated[Len(rotated) - j] = written - j
    BY <2>1 DEF EndsIn
  <2> HIDE DEF newest
  <2>3. /\ Least(Recent, written) \in Int /\ Least(Recent, written) <= Recent
    BY <1>2 DEF Least
  <2>4. Least(Recent, Len(rotated)) >= Least(Recent, written)
    BY <1>2, <1>6, <2>2, <2>3 DEF Least
  <2>5. Least(Recent, written) <= Len(current) /\ Len(current) = Len(newest)
    BY <1>4, <1>5, <1>6, <2>3, <2>4 DEF newest
  <2>6. ASSUME NEW j \in 0..(Least(Recent, written) - 1)
        PROVE  current[Len(current) - j] = written - j
    <3>1. /\ Len(current) - j \in 1..Len(current)
          /\ Len(rotated) - Len(newest) + (Len(current) - j) = Len(rotated) - j
      BY <1>4, <1>6, <2>3, <2>5
    <3>2. QED
      BY <1>6, <2>2, <3>1
  <2>7. QED
    BY <2>5, <2>6 DEF EndsIn
<1>8. ASSUME torn' = FALSE PROVE \E c \in 0..written' : Files(c)'
  <2>1. torn = FALSE
    BY <1>1, <1>8
  <2>2. Files(written)
    BY <1>1, <2>1 DEF HInv
  <2>3. EndsIn(current, Least(Recent, written), written)
    BY <1>7, <2>1
  <2>4. PICK c \in 0..written : c = written
    BY <1>2
  <2>5. Files(c)'
    BY <1>1, <2>2, <2>3, <2>4 DEF Files
  <2>6. QED
    BY <1>1, <2>5
<1>9. H!TypeOK'
  <2>1. 0 \in 0..Recent
    BY <1>2
  <2>2. QED
    BY <1>1, <1>2, <2>1 DEF H!TypeOK
<1>10. Descriptor'
  BY <1>1, <1>3 DEF Descriptor
<1>11. /\ Increasing(current)' /\ Increasing(rotated)'
       /\ Below(current, Len(current), written)' /\ Below(rotated, Len(rotated), written)'
  BY <1>1 DEF HInv
<1>12. daemon' # "replay"
  BY <1>1
<1>13. QED
  BY <1>8, <1>9, <1>10, <1>11, <1>12 DEF HInv

(* One more line is carried over.                                           *)
LEMMA ReplayLineInv == ASSUME HInv, H!Replay, replay # <<>> PROVE HInv'
<1> DEFINE newest == H!Newest(rotated)
           n == Len(current)
<1>1. /\ daemon = "replay" /\ UNCHANGED <<exists, rotated, handle, written, torn, daemon, short>>
      /\ current' = Append(current, Head(replay)) /\ replay' = Tail(replay)
      /\ toolong' \in {toolong, TRUE}
  BY DEF H!Replay
<1>2. /\ H!TypeOK /\ Descriptor /\ Replaying
      /\ Increasing(rotated) /\ Below(rotated, Len(rotated), written)
      /\ current \in Seq(1..MaxLines) /\ rotated \in Seq(1..MaxLines)
      /\ replay \in Seq(1..MaxLines) /\ written \in Nat /\ Recent \in Nat
  BY <1>1, HistoryBounds DEF HInv, H!TypeOK
<1>3. /\ replay' \in Seq(1..MaxLines)
      /\ Len(replay') = Len(replay) - 1 /\ Len(replay) \in Nat \ {0}
      /\ \A k \in 1..(Len(replay) - 1) : replay'[k] = replay[k + 1]
      /\ Head(replay) = replay[1] /\ Head(replay) \in 1..MaxLines
  BY <1>1, <1>2, TailShape
<1>4. /\ current' \in Seq(1..MaxLines)
      /\ Len(current') = n + 1 /\ n \in Nat
      /\ DOMAIN current' = 1..(n + 1)
      /\ \A k \in 1..n : current'[k] = current[k]
      /\ current'[n + 1] = replay[1]
  BY <1>1, <1>2, <1>3, AppendShape
<1>5. /\ n + Len(replay) = Len(newest)
      /\ \A k \in 1..n : current[k] = newest[k]
      /\ \A k \in 1..Len(replay) : replay[k] = newest[n + k]
  BY <1>2 DEF Replaying
<1>6. newest' = newest
  BY <1>1 DEF H!Newest
<1> HIDE DEF newest, n
<1>7. \A k \in 1..(n + 1) : current'[k] = newest[k]
  <2>1. current'[n + 1] = newest[n + 1]
    BY <1>3, <1>4, <1>5
  <2>2. QED
    BY <1>4, <1>5, <2>1
<1>8. n + 1 + Len(replay') = Len(newest) /\ n + 1 \in Nat /\ n + 1 <= Len(newest)
  <2>1. n \in Nat /\ Len(replay) \in Nat /\ Len(replay) >= 1
    BY <1>3, <1>4
  <2>2. Len(replay') = Len(replay) - 1 /\ n + Len(replay) = Len(newest)
    BY <1>3, <1>5
  <2>3. n + 1 + (Len(replay) - 1) = n + Len(replay) /\ n + 1 <= n + Len(replay) /\ n + 1 \in Nat
    BY <2>1
  <2>4. QED
    BY <2>2, <2>3
<1>9. Replaying'
  <2>1. ASSUME NEW k \in 1..Len(replay') PROVE replay'[k] = newest[n + 1 + k]
    <3>1. k \in 1..(Len(replay) - 1) /\ k + 1 \in 1..Len(replay) /\ n + (k + 1) = n + 1 + k
      BY <1>3, <1>4
    <3>2. QED
      BY <1>3, <1>5, <3>1
  <2>2. /\ Len(current') + Len(replay') = Len(newest)
        /\ \A k \in 1..Len(current') : current'[k] = newest[k]
        /\ \A k \in 1..Len(replay') : replay'[k] = newest[Len(current') + k]
    BY <1>4, <1>7, <1>8, <2>1
  <2>3. QED
    BY <1>6, <2>2 DEF Replaying, newest
<1>10. /\ Len(rotated) \in Nat /\ Len(newest) \in Nat /\ Len(newest) <= Len(rotated)
       /\ \A k \in 1..(n + 1) :
            /\ Len(rotated) - Len(newest) + k \in 1..Len(rotated)
            /\ current'[k] = rotated[Len(rotated) - Len(newest) + k]
  BY <1>2, <1>7, <1>8, CarriedOver DEF newest
<1>11. Increasing(current')
  <2>1. ASSUME NEW j \in 1..(n + 1), NEW k \in 1..(n + 1), j < k PROVE current'[j] < current'[k]
    <3>1. Len(rotated) - Len(newest) + j < Len(rotated) - Len(newest) + k
      BY <1>4, <1>10, <2>1
    <3>2. DOMAIN rotated = 1..Len(rotated)
      BY <1>2, ElementShape
    <3>3. QED
      BY <1>2, <1>10, <3>1, <3>2 DEF Increasing
  <2>2. QED
    BY <1>4, <2>1 DEF Increasing
<1>12. Below(current', Len(current'), written')
  BY <1>1, <1>2, <1>4, <1>10 DEF Below
<1>13. H!TypeOK'
  <2>1. toolong' \in BOOLEAN
    BY <1>1, <1>2 DEF H!TypeOK
  <2>2. QED
    BY <1>1, <1>2, <1>3, <1>4, <2>1 DEF H!TypeOK
<1>14. Descriptor'
  BY <1>1, <1>2 DEF Descriptor
<1>15. ASSUME torn' = FALSE PROVE \E c \in 0..written' : Files(c)' /\ written' = c
  <2>1. Files(written)
    BY <1>1, <1>15 DEF HInv
  <2>2. written - written = 0 /\ EndsIn(current', 0, written)
    BY <1>2, <1>4 DEF EndsIn
  <2>3. short = Recent
    BY <1>1, <1>2 DEF Descriptor
  <2>4. short = 0 => EndsIn(current', Least(Recent, written), written)
    <3>1. Recent = 0 => Least(Recent, written) = 0
      BY <1>2 DEF Least
    <3>2. QED
      BY <2>2, <2>3, <3>1
  <2>5. PICK c \in 0..written : c = written
    BY <1>2
  <2>6. Files(c)'
    BY <1>1, <2>1, <2>2, <2>4, <2>5 DEF Files
  <2>7. QED
    BY <1>1, <2>5, <2>6
<1>16. Increasing(rotated') /\ Below(rotated', Len(rotated'), written')
  BY <1>1, <1>2
<1>17. QED
  BY <1>1, <1>9, <1>11, <1>12, <1>13, <1>14, <1>15, <1>16 DEF HInv

(* Every step of the daemon keeps the invariant.                            *)
LEMMA NextHInv == HInv /\ [H!Next]_H!vars => HInv'
<1> SUFFICES ASSUME HInv, [H!Next]_H!vars PROVE HInv'
  OBVIOUS
<1>1. H!TypeOK /\ Descriptor
  BY DEF HInv
<1>2. CASE H!Open
  <2>1. /\ daemon = "down" /\ daemon' = "idle" /\ exists' = TRUE /\ handle' = "current"
        /\ UNCHANGED <<current, toolong, rotated, written, replay, short, torn>>
    BY <1>2 DEF H!Open, H!ghosts
  <2>2. H!TypeOK'
    <3>1. exists' \in BOOLEAN
      BY <2>1
    <3>2. QED
      BY <1>1, <2>1, <3>1 DEF H!TypeOK
  <2>3. Descriptor'
    BY <2>1 DEF Descriptor
  <2>4. QED
    BY <2>1, <2>2, <2>3, FilesKept
<1>3. CASE H!WriteLine
  <2>1. handle = "current" \/ handle = "rotated"
    BY <1>3 DEF H!WriteLine
  <2>2. QED
    BY <1>3, <2>1, WriteCurrentInv, WriteRotatedInv
<1>4. CASE H!Rename
  BY <1>4, RenameInv
<1>5. CASE H!Reopen
  BY <1>5, ReopenInv
<1>6. CASE H!Replay
  BY <1>6, ReplayEndsInv, ReplayLineInv
<1>7. CASE H!RotateFails
  <2>1. /\ daemon' = "idle" /\ daemon # "down" /\ replay' = <<>>
        /\ UNCHANGED <<current, exists, toolong, rotated, handle, written, short, torn>>
    BY <1>7 DEF H!RotateFails, H!disk, H!ghosts
  <2>2. <<>> \in Seq(1..MaxLines)
    OBVIOUS
  <2>3. H!TypeOK' /\ Descriptor'
    BY <1>1, <2>1, <2>2 DEF H!TypeOK, Descriptor
  <2>4. QED
    BY <2>1, <2>3, FilesKept
<1>8. CASE H!Crash
  <2>1. /\ daemon' = "down" /\ handle' = "none" /\ replay' = <<>>
        /\ UNCHANGED <<current, exists, toolong, rotated, written, short, torn>>
    BY <1>8 DEF H!Crash, H!disk, H!ghosts
  <2>2. <<>> \in Seq(1..MaxLines)
    OBVIOUS
  <2>3. H!TypeOK' /\ Descriptor'
    BY <1>1, <2>1, <2>2 DEF H!TypeOK, Descriptor
  <2>4. QED
    BY <2>1, <2>3, FilesKept
<1>9. CASE UNCHANGED H!vars
  <2>1. UNCHANGED <<current, exists, toolong, rotated, handle, written, replay, daemon,
                    short, torn>>
    BY <1>9 DEF H!vars, H!disk, H!ghosts
  <2>2. HInv
    OBVIOUS
  <2>3. /\ H!TypeOK' /\ Descriptor' /\ Increasing(current)' /\ Increasing(rotated)'
        /\ Below(current, Len(current), written)' /\ Below(rotated, Len(rotated), written)'
    BY <2>1, <2>2 DEF HInv, H!TypeOK, Descriptor
  <2>4. daemon' = "replay" => Replaying'
    BY <2>1, <2>2 DEF HInv, Replaying, H!Newest
  <2>5. ASSUME torn' = FALSE
        PROVE  \E c \in 0..written' : Files(c)' /\ (daemon' = "replay" => written' = c)
    <3>1. PICK c \in 0..written : Files(c) /\ (daemon = "replay" => written = c)
      BY <2>1, <2>5 DEF HInv
    <3>2. Files(c)'
      BY <2>1, <3>1 DEF Files
    <3>3. QED
      BY <2>1, <3>1, <3>2
  <2>6. QED
    BY <2>3, <2>4, <2>5 DEF HInv
<1>10. QED
  BY <1>2, <1>3, <1>4, <1>5, <1>6, <1>7, <1>8, <1>9 DEF H!Next

(* At the start both files are empty or absent, and the daemon is not       *)
(* running.                                                                 *)
LEMMA InitHInv == H!Init => HInv
<1> SUFFICES ASSUME H!Init PROVE HInv
  OBVIOUS
<1>1. /\ current = <<>> /\ rotated = <<>> /\ replay = <<>> /\ written = 0
      /\ exists = FALSE /\ toolong = FALSE /\ handle = "none" /\ daemon = "down"
      /\ short = 0 /\ torn = FALSE
  BY DEF H!Init
<1>2. H!TypeOK
  <2>1. <<>> \in Seq(1..MaxLines)
    OBVIOUS
  <2>2. exists \in BOOLEAN
    BY <1>1
  <2>3. toolong \in BOOLEAN
    BY <1>1
  <2>4. torn \in BOOLEAN
    BY <1>1
  <2>5. 0 \in 0..MaxLines /\ 0 \in 0..Recent
    BY HistoryBounds
  <2>6. QED
    BY <1>1, <2>1, <2>2, <2>3, <2>4, <2>5 DEF H!TypeOK
<1>3. Descriptor
  BY <1>1 DEF Descriptor
<1>4. Increasing(current) /\ Increasing(rotated)
  BY <1>1 DEF Increasing
<1>5. Files(0)
  <2>1. Least(Recent, 0) = 0
    BY HistoryBounds DEF Least
  <2>2. EndsIn(<<>>, 0, 0)
    BY DEF EndsIn
  <2>3. QED
    BY <1>1, <2>1, <2>2 DEF Files
<1>6. Below(current, Len(current), written) /\ Below(rotated, Len(rotated), written)
  BY <1>1 DEF Below
<1>7. QED
  BY <1>1, <1>2, <1>3, <1>4, <1>5, <1>6 DEF HInv

(* The invariant is strong enough.                                          *)
LEMMA HInvRecent == HInv => H!RecentOnDisk
<1> SUFFICES ASSUME HInv PROVE H!RecentOnDisk
  OBVIOUS
<1>1. /\ current \in Seq(1..MaxLines) /\ rotated \in Seq(1..MaxLines) /\ torn \in BOOLEAN
      /\ written \in Nat /\ Increasing(current) /\ Increasing(rotated)
  BY HistoryBounds DEF HInv, H!TypeOK
<1>2. /\ DOMAIN current = 1..Len(current) /\ Len(current) \in Nat
      /\ DOMAIN rotated = 1..Len(rotated) /\ Len(rotated) \in Nat
  BY <1>1, ElementShape
<1>3. ASSUME torn = FALSE, NEW line \in H!RecentLines
      PROVE  \/ \E k \in DOMAIN current : current[k] = line
             \/ \E k \in DOMAIN rotated : rotated[k] = line
  <2>1. line \in 1..written /\ line > written - Recent
    BY DEF H!RecentLines
  <2>2. PICK b \in 0..written : Files(b)
    BY <1>3 DEF HInv
  <2>3. CASE line > b
    <3>1. /\ written - line \in 0..(written - b - 1)
          /\ written - (written - line) = line
      BY <1>1, <2>1, <2>3
    <3>2. /\ written - b <= Len(current)
          /\ current[Len(current) - (written - line)] = written - (written - line)
      BY <2>2, <3>1 DEF Files, EndsIn
    <3>3. Len(current) - (written - line) \in DOMAIN current
      BY <1>1, <1>2, <3>1, <3>2
    <3>4. QED
      BY <3>1, <3>2, <3>3
  <2>4. CASE ~(line > b)
    <3>1. b - line \in 0..(Least(Recent, b) - 1) /\ b - (b - line) = line
          /\ Least(Recent, b) \in Int
      BY <1>1, <2>1, <2>4, HistoryBounds DEF Least
    <3>2. /\ Least(Recent, b) <= Len(rotated)
          /\ rotated[Len(rotated) - (b - line)] = b - (b - line)
      BY <2>2, <3>1 DEF Files, EndsIn
    <3>3. Len(rotated) - (b - line) \in DOMAIN rotated
      BY <1>1, <1>2, <2>1, <3>1, <3>2
    <3>4. QED
      BY <3>1, <3>2, <3>3
  <2>5. QED
    BY <2>3, <2>4
<1>4. torn = TRUE \/ torn = FALSE
  BY <1>1
<1>5. torn = FALSE => H!RecentLines \subseteq H!ToSet(current) \union H!ToSet(rotated)
  BY <1>3 DEF H!ToSet
<1>6. QED
  BY <1>1, <1>4, <1>5 DEF H!RecentOnDisk, Increasing
===============================================================================

---------------------------- MODULE ControlIpcProofs ----------------------------
(***************************************************************************)
(* Proofs about ControlIpc, for any number of connections and requests: a   *)
(* task waits exactly while its one command or its reply is under way, and  *)
(* the replies of a connection come in the order of its requests.           *)
(***************************************************************************)
EXTENDS ControlIpc, TLAPS

-------------------------------------------------------------------------------
(* The shape of what is read from the queue and the connections.            *)

(* Tail drops the first element and keeps the order of the others.          *)
LEMMA TailShape ==
  ASSUME NEW S, NEW seq \in Seq(S), seq # <<>>
  PROVE  /\ Tail(seq) \in Seq(S) /\ Head(seq) \in S /\ Len(seq) \in Nat \ {0}
         /\ Len(Tail(seq)) = Len(seq) - 1 /\ Head(seq) = seq[1]
         /\ \A k \in 1..(Len(seq) - 1) : Tail(seq)[k] = seq[k + 1]
  OBVIOUS

(* Append adds one at the end.                                              *)
LEMMA AppendShape ==
  ASSUME NEW S, NEW seq \in Seq(S), NEW e \in S
  PROVE  /\ Append(seq, e) \in Seq(S) /\ Len(seq) \in Nat
         /\ Len(Append(seq, e)) = Len(seq) + 1
         /\ Append(seq, e)[Len(seq) + 1] = e
         /\ \A k \in 1..Len(seq) : Append(seq, e)[k] = seq[k]
  OBVIOUS

-------------------------------------------------------------------------------
(* The part of the types that the two threads' channels rest on, and the    *)
(* ends of the loop and of the process.                                     *)
Types ==
  /\ TypeOK
  /\ loop \in {"dropped", "exited"} => queue = <<>>
  /\ loop = "exited" => \A c \in Conn : task[c] = "gone"
  /\ \A c \in Conn : task[c] = "waiting" => current[c] \in Line

Queued(c) == {k \in 1..Len(queue) : queue[k].conn = c}

(* One connection's part of OneCommandPerTask.                              *)
OneCommand(c) ==
  /\ \A j, k \in Queued(c) : j = k
  /\ Queued(c) # {} => slot[c] = "empty"
  /\ task[c] = "waiting" <=> Queued(c) # {} \/ slot[c] # "empty"

Inv == Types /\ \A c \in Conn : OneCommand(c)

Command == [conn : Conn, kind : Kind]

-------------------------------------------------------------------------------
(* Nothing is queued and nobody waits at the start.                         *)
LEMMA InitInv == Init => Inv
  BY MaxRequestsAssumption DEF Init, Inv, Types, TypeOK, OneCommand, Queued, NoLine, Line, Kind, Id

(* A written response keeps its channel's type, the task's and the ends.    *)
LEMMA WriteTypes ==
  ASSUME Types, NEW c \in Conn, task[c] # "gone", NEW to \in Id,
         NEW id \in Id \union {0}, NEW reply \in Reply, Write(c, to, id, reply)
  PROVE  /\ toClient' \in [Conn -> Seq(Response)]
         /\ task' \in [Conn -> {"reading", "waiting", "gone"}]
         /\ loop # "exited"
         /\ \A d \in Conn : task'[d] = "waiting" => d # c /\ task[d] = "waiting"
<1>1. /\ toClient \in [Conn -> Seq(Response)]
      /\ task \in [Conn -> {"reading", "waiting", "gone"}]
      /\ loop # "exited"
  BY DEF Types, TypeOK
<1>2. [to |-> to, id |-> id, reply |-> reply] \in Response
  BY DEF Response
<1>3. Append(toClient[c], [to |-> to, id |-> id, reply |-> reply]) \in Seq(Response)
  BY <1>1, <1>2
<1>4. QED
  BY <1>1, <1>3 DEF Write

(* The line a task takes, and what is left.                                 *)
LEMMA LineTaken ==
  ASSUME Types, NEW c \in Conn, toTask[c] # <<>>
  PROVE  Head(toTask[c]) \in Line /\ Tail(toTask[c]) \in Seq(Line)
<1>1. toTask[c] \in Seq(Line)
  BY DEF Types, TypeOK
<1>2. QED
  BY <1>1, TailShape

(* The command the main loop takes, and what is left.                       *)
LEMMA CommandTaken ==
  ASSUME Types, queue # <<>>
  PROVE  Head(queue) \in Command /\ Tail(queue) \in Seq(Command)
<1>1. queue \in Seq(Command)
  BY DEF Types, TypeOK, Command
<1>2. QED
  BY <1>1, TailShape

(* Every step keeps the types.                                              *)
LEMMA TypesStep == Types /\ [Next]_vars => Types'
<1> SUFFICES ASSUME Types, [Next]_vars PROVE Types'
  OBVIOUS
<1> USE MaxRequestsAssumption DEF Types, TypeOK
<1>1. ASSUME NEW c \in Conn, NEW kind \in Kind, Send(c, kind) PROVE Types'
  <2>1. [id |-> nextId[c], kind |-> kind] \in Line
    BY <1>1 DEF Send, Line, Id
  <2>2. toTask' \in [Conn -> Seq(Line)]
    BY <1>1, <2>1, AppendShape DEF Send
  <2>3. QED
    BY <1>1, <2>2 DEF Send, server
<1>2. ASSUME NEW c \in Conn, Return(c) PROVE Types'
  <2>1. toClient[c] \in Seq(Response) /\ toClient[c] # <<>>
    BY <1>2 DEF Return
  <2>2. Tail(toClient[c]) \in Seq(Response)
    BY <2>1, TailShape
  <2>3. toClient' \in [Conn -> Seq(Response)] /\ awaited' \in [Conn -> 0..MaxRequests]
    BY <1>2, <2>2 DEF Return
  <2>4. QED
    BY <1>2, <2>3 DEF Return, server
<1>3. ASSUME NEW c \in Conn, Hangup(c) \/ Cancel(c) PROVE Types'
  <2>1. awaited' \in [Conn -> 0..MaxRequests] /\ open' \in [Conn -> BOOLEAN]
    <3>1. CASE Hangup(c)
      <4>1. awaited' = [awaited EXCEPT ![c] = 0] /\ open' = [open EXCEPT ![c] = FALSE]
        BY <3>1 DEF Hangup
      <4>2. 0 \in 0..MaxRequests
        OBVIOUS
      <4>3. awaited' \in [Conn -> 0..MaxRequests]
        BY <4>1, <4>2
      <4>4. open' \in [Conn -> BOOLEAN]
        BY <4>1
      <4>5. QED
        BY <4>3, <4>4
    <3>2. CASE Cancel(c)
      BY <3>2 DEF Cancel
    <3>3. QED
      BY <1>3, <3>1, <3>2
  <2>2. UNCHANGED <<nextId, toTask, toClient, task, current, slot, queue, loop>>
    BY <1>3 DEF Hangup, Cancel, server
  <2>3. QED
    BY <2>1, <2>2
<1>4. ASSUME NEW c \in Conn, Close(c) PROVE Types'
  <2>1. awaited' \in [Conn -> 0..MaxRequests] /\ open' \in [Conn -> BOOLEAN]
    BY <1>4 DEF Close
  <2>2. <<>> \in Seq(Response)
    OBVIOUS
  <2>3. toClient' \in [Conn -> Seq(Response)]
    BY <1>4, <2>2 DEF Close
  <2>4. UNCHANGED <<nextId, toTask, task, current, slot, queue, loop>>
    BY <1>4 DEF Close, server
  <2>5. QED
    BY <2>1, <2>3, <2>4
<1>5. ASSUME NEW c \in Conn, ReadLine(c) PROVE Types'
  <2> DEFINE line == Head(toTask[c])
  <2>1. line \in Line /\ line.id \in Id /\ line.kind \in Kind
    BY <1>5, LineTaken DEF ReadLine, Line
  <2>2. toTask' \in [Conn -> Seq(Line)] /\ UNCHANGED <<open, nextId, awaited, loop>>
    BY <1>5, LineTaken DEF ReadLine, client
  <2> HIDE DEF line
  <2>3. ASSUME NEW id \in Id \union {0}, NEW reply \in Reply, Write(c, line.id, id, reply),
               UNCHANGED <<current, slot, queue>>
        PROVE Types'
    <3>1. /\ toClient' \in [Conn -> Seq(Response)]
          /\ task' \in [Conn -> {"reading", "waiting", "gone"}]
          /\ loop # "exited"
          /\ \A d \in Conn : task'[d] = "waiting" => d # c /\ task[d] = "waiting"
      <4>1. task[c] # "gone"
        BY <1>5 DEF ReadLine
      <4>2. QED
        BY <2>1, <2>3, <4>1, WriteTypes DEF Types, TypeOK
    <3>2. QED
      BY <2>2, <2>3, <3>1
  <2>4. ASSUME loop \in {"running", "stopping"},
               queue' = Append(queue, [conn |-> c, kind |-> line.kind]),
               current' = [current EXCEPT ![c] = line],
               task' = [task EXCEPT ![c] = "waiting"],
               UNCHANGED <<toClient, slot>>
        PROVE Types'
    <3>1. [conn |-> c, kind |-> line.kind] \in [conn : Conn, kind : Kind]
      BY <2>1
    <3>2. queue' \in Seq([conn : Conn, kind : Kind])
      BY <2>4, <3>1
    <3>3. /\ current' \in [Conn -> Line \union {NoLine}]
          /\ task' \in [Conn -> {"reading", "waiting", "gone"}]
      BY <2>1, <2>4
    <3>4. \A d \in Conn : task'[d] = "waiting" => current'[d] \in Line
      BY <2>1, <2>4
    <3>5. QED
      BY <2>2, <2>4, <3>2, <3>3, <3>4
  <2>5. QED
    BY <1>5, <2>1, <2>3, <2>4 DEF ReadLine, Dispatch, Reply, line
<1>6. ASSUME NEW c \in Conn, Respond(c) PROVE Types'
  <2>1. PICK reply \in Reply : Write(c, current[c].id, current[c].id, reply)
    BY <1>6 DEF Respond, Reply
  <2>2. current[c].id \in Id /\ task[c] # "gone"
    BY <1>6 DEF Respond, Line
  <2>3. /\ toClient' \in [Conn -> Seq(Response)]
        /\ task' \in [Conn -> {"reading", "waiting", "gone"}]
        /\ loop # "exited"
        /\ \A d \in Conn : task'[d] = "waiting" => d # c /\ task[d] = "waiting"
    BY <2>1, <2>2, WriteTypes
  <2>4. /\ current' \in [Conn -> Line \union {NoLine}]
        /\ slot' \in [Conn -> Reply \union {"empty", "dropped"}]
        /\ \A d \in Conn \ {c} : current'[d] = current[d]
        /\ UNCHANGED <<open, nextId, awaited, toTask, queue, loop>>
    BY <1>6 DEF Respond, client
  <2>5. QED
    BY <2>3, <2>4
<1>7. ASSUME NEW c \in Conn, SeeHangup(c) PROVE Types'
  <2>1. /\ task' \in [Conn -> {"reading", "waiting", "gone"}]
        /\ UNCHANGED <<open, nextId, awaited, toTask, toClient, current, slot, queue, loop>>
        /\ \A d \in Conn : task'[d] \in {task[d], "gone"}
    BY <1>7 DEF SeeHangup, client
  <2>2. QED
    BY <2>1
<1>8. CASE Handle
  <2>1. Head(queue).conn \in Conn /\ Tail(queue) \in Seq([conn : Conn, kind : Kind])
    BY <1>8, CommandTaken DEF Handle, Command
  <2>2. /\ slot' \in [Conn -> Reply \union {"empty", "dropped"}]
        /\ queue' = Tail(queue)
        /\ loop' \in {"running", "stopping"}
        /\ UNCHANGED <<open, nextId, awaited, toTask, toClient, task, current>>
    BY <1>8, <2>1 DEF Handle, client, Reply
  <2>3. QED
    BY <2>1, <2>2
<1>9. CASE Signal
  BY <1>9 DEF Signal, client, server
<1>10. CASE DropLoop
  BY <1>10 DEF DropLoop, client
<1>11. CASE Exit
  BY <1>11 DEF Exit, client
<1>12. CASE UNCHANGED vars
  BY <1>12 DEF vars, client, server
<1>13. QED
  BY <1>1, <1>2, <1>3, <1>4, <1>5, <1>6, <1>7, <1>8, <1>9, <1>10, <1>11, <1>12 DEF Next, Server

-------------------------------------------------------------------------------
(* A step that leaves the queue, the oneshot and the waiting of a           *)
(* connection alone keeps its part.                                         *)
LEMMA Undisturbed ==
  ASSUME NEW d \in Conn, OneCommand(d), Queued(d)' = Queued(d), slot'[d] = slot[d],
         task'[d] = "waiting" <=> task[d] = "waiting"
  PROVE  OneCommand(d)'
  BY DEF OneCommand

(* Every step keeps every connection's part.                                *)
LEMMA OneCommandStep ==
  ASSUME Inv, [Next]_vars, NEW d \in Conn
  PROVE  OneCommand(d)'
<1>1. /\ OneCommand(d)
      /\ \A c \in Conn : OneCommand(c)
      /\ task \in [Conn -> {"reading", "waiting", "gone"}]
      /\ slot \in [Conn -> Reply \union {"empty", "dropped"}]
      /\ queue \in Seq(Command)
  BY DEF Inv, Types, TypeOK, Command
<1>2. ASSUME queue' = queue PROVE Queued(d)' = Queued(d)
  BY <1>2 DEF Queued
<1>3. ASSUME UNCHANGED <<task, slot, queue>> PROVE OneCommand(d)'
  BY <1>1, <1>2, <1>3, Undisturbed
<1>4. ASSUME NEW c \in Conn, task[c] = "reading", UNCHANGED <<slot, queue>>,
             task'= [task EXCEPT ![c] = "reading"] \/ task' = [task EXCEPT ![c] = "gone"]
      PROVE  OneCommand(d)'
  BY <1>1, <1>2, <1>4, Undisturbed
<1>5. ASSUME NEW c \in Conn, ReadLine(c) PROVE OneCommand(d)'
  <2> DEFINE line == Head(toTask[c])
  <2>1. task[c] = "reading" /\ line.kind \in Kind
    BY <1>5, LineTaken DEF ReadLine, Inv, Line
  <2> HIDE DEF line
  <2>2. ASSUME NEW id \in Id \union {0}, NEW reply \in Reply, Write(c, line.id, id, reply),
               UNCHANGED <<slot, queue>>
        PROVE OneCommand(d)'
    BY <1>4, <2>1, <2>2 DEF Write
  <2>3. ASSUME queue' = Append(queue, [conn |-> c, kind |-> line.kind]),
               task' = [task EXCEPT ![c] = "waiting"],
               UNCHANGED slot
        PROVE OneCommand(d)'
    <3>1. [conn |-> c, kind |-> line.kind] \in Command
      BY <2>1 DEF Command
    <3>2. /\ Len(queue) \in Nat /\ Len(queue') = Len(queue) + 1
          /\ queue'[Len(queue) + 1].conn = c
          /\ \A k \in 1..Len(queue) : queue'[k] = queue[k]
      BY <1>1, <2>3, <3>1, AppendShape
    <3>3. CASE d # c
      <4>1. Queued(d)' = Queued(d)
        BY <3>2, <3>3 DEF Queued
      <4>2. QED
        BY <1>1, <2>3, <3>3, <4>1, Undisturbed
    <3>4. CASE d = c
      <4>1. Queued(c) = {} /\ slot[c] = "empty"
        BY <1>1, <2>1 DEF OneCommand
      <4>2. Queued(c)' = {Len(queue) + 1}
        BY <3>2, <4>1 DEF Queued
      <4>3. QED
        BY <1>1, <2>3, <3>4, <4>1, <4>2 DEF OneCommand
    <3>5. QED
      BY <3>3, <3>4
  <2>4. line.id \in Id
    BY <1>5, LineTaken DEF ReadLine, Inv, Line, line
  <2>5. QED
    BY <1>5, <2>2, <2>3, <2>4 DEF ReadLine, Dispatch, Reply, line
<1>6. ASSUME NEW c \in Conn, Respond(c) PROVE OneCommand(d)'
  <2>1. /\ task[c] = "waiting" /\ slot[c] # "empty"
        /\ slot' = [slot EXCEPT ![c] = "empty"] /\ queue' = queue
        /\ task' = [task EXCEPT ![c] = "reading"] \/ task' = [task EXCEPT ![c] = "gone"]
    BY <1>6 DEF Respond, Write
  <2>2. CASE d # c
    BY <1>1, <1>2, <2>1, <2>2, Undisturbed
  <2>3. CASE d = c
    BY <1>1, <1>2, <2>1, <2>3 DEF OneCommand
  <2>4. QED
    BY <2>2, <2>3
<1>7. CASE Handle
  <2> DEFINE c == Head(queue).conn
  <2>1. /\ Tail(queue) \in Seq(Command) /\ Head(queue) \in Command
        /\ Len(queue) \in Nat \ {0} /\ Len(Tail(queue)) = Len(queue) - 1
        /\ Head(queue) = queue[1]
        /\ \A k \in 1..(Len(queue) - 1) : Tail(queue)[k] = queue[k + 1]
    BY <1>1, <1>7, TailShape DEF Handle
  <2>2. c \in Conn /\ c = queue[1].conn
    BY <2>1 DEF Command
  <2>3. /\ queue' = Tail(queue) /\ task' = task
        /\ \E reply \in {"ok", "invalid"} : slot' = [slot EXCEPT ![c] = reply]
    BY <1>7 DEF Handle
  <2> HIDE DEF c
  <2>4. 1 \in Queued(c)
    BY <2>1, <2>2 DEF Queued
  <2>5. Queued(c) = {1} /\ task[c] = "waiting"
    BY <1>1, <2>2, <2>4 DEF OneCommand
  <2>6. \A k \in Queued(d)' : k + 1 \in Queued(d) /\ k \in Nat \ {0}
    BY <2>1, <2>3 DEF Queued
  <2>7. CASE d = c
    <3>1. Queued(d)' = {}
      BY <2>5, <2>6, <2>7
    <3>2. slot'[d] # "empty" /\ task'[d] = "waiting"
      BY <1>1, <2>2, <2>3, <2>5, <2>7
    <3>3. QED
      BY <3>1, <3>2 DEF OneCommand
  <2>8. CASE d # c
    <3>1. slot'[d] = slot[d] /\ task'[d] = task[d]
      BY <1>1, <2>2, <2>3, <2>8
    <3>2. \A j, k \in Queued(d)' : j = k
      <4>1. TAKE j, k \in Queued(d)'
      <4>2. j + 1 = k + 1 /\ j \in Nat /\ k \in Nat
        BY <1>1, <2>6 DEF OneCommand
      <4>3. QED
        BY <4>2
    <3>3. Queued(d)' # {} <=> Queued(d) # {}
      <4>1. ASSUME NEW k \in Queued(d) PROVE k - 1 \in Queued(d)'
        <5>1. k \in 1..Len(queue) /\ k # 1 /\ queue[k].conn = d
          BY <2>2, <2>8 DEF Queued
        <5>2. k - 1 \in 1..(Len(queue) - 1) /\ (k - 1) + 1 = k
          BY <2>1, <5>1
        <5>3. Tail(queue)[k - 1] = queue[k]
          BY <2>1, <5>2
        <5>4. QED
          BY <2>1, <2>3, <5>1, <5>2, <5>3 DEF Queued
      <4>2. QED
        BY <2>6, <4>1
    <3>4. QED
      BY <1>1, <3>1, <3>2, <3>3 DEF OneCommand
  <2>9. QED
    BY <2>7, <2>8
<1>8. CASE DropLoop
  <2>1. Queued(d)' = {}
    BY <1>8 DEF DropLoop, Queued
  <2>2. DOMAIN queue = 1..Len(queue)
    BY <1>1
  <2>3. slot'[d] = IF Queued(d) # {} THEN "dropped" ELSE slot[d]
    BY <1>8, <2>2 DEF DropLoop, Queued
  <2>4. task' = task
    BY <1>8 DEF DropLoop
  <2>5. QED
    BY <1>1, <2>1, <2>3, <2>4 DEF OneCommand
<1>9. CASE Exit
  <2>1. queue' = <<>> /\ task'[d] = "gone" /\ slot'[d] = "empty"
    BY <1>9 DEF Exit, Inv, Types
  <2>2. Queued(d)' = {}
    BY <2>1 DEF Queued
  <2>3. QED
    BY <2>1, <2>2 DEF OneCommand
<1>10. ASSUME NEW c \in Conn, SeeHangup(c) PROVE OneCommand(d)'
  BY <1>4, <1>10 DEF SeeHangup
<1>11. ASSUME NEW c \in Conn, NEW kind \in Kind,
              Send(c, kind) \/ Return(c) \/ Hangup(c) \/ Cancel(c) \/ Close(c)
       PROVE  OneCommand(d)'
  BY <1>3, <1>11 DEF Send, Return, Hangup, Cancel, Close, server
<1>12. CASE Signal \/ UNCHANGED vars
  BY <1>3, <1>12 DEF Signal, vars, server
<1>13. Kind # {}
  BY DEF Kind
<1>14. QED
  BY <1>5, <1>6, <1>7, <1>8, <1>9, <1>10, <1>11, <1>12, <1>13 DEF Next, Server

(* Types and OneCommand are inductive.                                      *)
LEMMA InvInvariance == Spec => []Inv
<1>1. Inv /\ [Next]_vars => Inv'
  BY TypesStep, OneCommandStep DEF Inv
<1>2. QED
  BY <1>1, InitInv, PTL DEF Spec

(* A task waits for the main loop exactly while one command of its is in    *)
(* the queue or one reply in its oneshot, whatever the compositor's end     *)
(* interrupts (client_loop, handle_request_on_main).                        *)
THEOREM OneCommandCorrect == Spec => [](TypeOK /\ OneCommandPerTask)
<1>1. Inv => TypeOK /\ OneCommandPerTask
  <2> SUFFICES ASSUME Inv PROVE TypeOK /\ OneCommandPerTask
    OBVIOUS
  <2>1. TypeOK /\ DOMAIN queue = 1..Len(queue)
    BY DEF Inv, Types, TypeOK
  <2>2. QED
    BY <2>1 DEF Inv, OneCommand, Queued, OneCommandPerTask
<1>2. QED
  BY <1>1, InvInvariance, PTL

-------------------------------------------------------------------------------
(* RepliesInOrder, one channel at a time: the lines not yet read end with   *)
(* the last id sent, the line being worked on precedes them, and the        *)
(* responses not yet read precede that.                                     *)
Working(c) == IF task[c] = "waiting" THEN 1 ELSE 0
LastId(c) == nextId[c] - 1

InOrder(c) ==
  open[c] /\ task[c] # "gone" =>
    /\ \A k \in 1..Len(toTask[c]) : toTask[c][k].id = LastId(c) - (Len(toTask[c]) - k)
    /\ task[c] = "waiting" => current[c].id = LastId(c) - Len(toTask[c])
    /\ \A k \in 1..Len(toClient[c]) :
         toClient[c][k].to
           = LastId(c) - Len(toTask[c]) - Working(c) - (Len(toClient[c]) - k)

(* A written response goes where the answered line was.                     *)
LEMMA WriteInOrder ==
  ASSUME Types, NEW c \in Conn, InOrder(c), NEW to \in Id, NEW id \in Id \union {0},
         NEW reply \in Reply, task[c] # "gone", Write(c, to, id, reply), UNCHANGED <<open, nextId>>,
         \/ /\ task[c] = "waiting" /\ to = current[c].id /\ UNCHANGED toTask
         \/ /\ task[c] = "reading" /\ toTask[c] # <<>> /\ to = Head(toTask[c]).id
            /\ toTask' = [toTask EXCEPT ![c] = Tail(@)]
  PROVE  InOrder(c)'
<1> SUFFICES ASSUME open[c], task'[c] # "gone" PROVE InOrder(c)'
  BY DEF InOrder
<1>1. /\ toTask[c] \in Seq(Line) /\ toClient[c] \in Seq(Response)
      /\ nextId[c] \in Nat /\ toClient \in [Conn -> Seq(Response)]
      /\ task \in [Conn -> {"reading", "waiting", "gone"}]
      /\ toTask \in [Conn -> Seq(Line)]
  BY MaxRequestsAssumption DEF Types, TypeOK
<1>2. Len(toTask[c]) \in Nat /\ Len(toClient[c]) \in Nat
  BY <1>1
<1> DEFINE response == [to |-> to, id |-> id, reply |-> reply]
<1>3. /\ task'[c] = "reading"
      /\ toClient'[c] = Append(toClient[c], response)
  BY <1>1 DEF Write
<1>4. response \in Response /\ response.to = to
  BY DEF Response
<1> HIDE DEF response
<1>5. /\ Len(toClient'[c]) = Len(toClient[c]) + 1
      /\ toClient'[c][Len(toClient[c]) + 1].to = to
      /\ \A k \in 1..Len(toClient[c]) : toClient'[c][k] = toClient[c][k]
  BY <1>1, <1>3, <1>4, AppendShape
<1>6. CASE task[c] = "waiting" /\ to = current[c].id /\ UNCHANGED toTask
  <2>1. to = LastId(c) - Len(toTask[c]) /\ toTask'[c] = toTask[c]
    BY <1>6 DEF InOrder
  <2>2. \A k \in 1..Len(toClient[c]) :
          toClient[c][k].to = LastId(c) - Len(toTask[c]) - 1 - (Len(toClient[c]) - k)
    BY <1>6 DEF InOrder, Working
  <2>3. \A k \in 1..Len(toTask[c]) : toTask[c][k].id = LastId(c) - (Len(toTask[c]) - k)
    BY <1>6 DEF InOrder
  <2>4. \A k \in 1..(Len(toClient[c]) + 1) :
          toClient'[c][k].to = LastId(c) - Len(toTask[c]) - (Len(toClient[c]) + 1 - k)
    <3>1. TAKE k \in 1..(Len(toClient[c]) + 1)
    <3>2. k \in Int /\ LastId(c) \in Int
      BY <1>1, <1>2 DEF LastId
    <3>3. CASE k = Len(toClient[c]) + 1
      BY <1>2, <1>5, <2>1, <2>1, <3>2, <3>3
    <3>4. CASE k \in 1..Len(toClient[c])
      <4>1. toClient'[c][k].to = toClient[c][k].to
        BY <1>5, <3>4
      <4>2. toClient[c][k].to = LastId(c) - Len(toTask[c]) - 1 - (Len(toClient[c]) - k)
        BY <2>2, <3>4
      <4>3. Len(toTask[c]) \in Int /\ Len(toClient[c]) \in Int
        BY <1>2
      <4>4. QED
        BY <3>2, <4>1, <4>2, <4>3
    <3>5. k = Len(toClient[c]) + 1 \/ k \in 1..Len(toClient[c])
      BY <1>2
    <3>6. QED
      BY <3>3, <3>4, <3>5
  <2>5. LastId(c)' = LastId(c) /\ Working(c)' = 0
    BY <1>3 DEF LastId, Working
  <2>6. \A k \in 1..Len(toClient'[c]) :
          toClient'[c][k].to
            = LastId(c)' - Len(toTask'[c]) - Working(c)' - (Len(toClient'[c]) - k)
    <3>1. TAKE k \in 1..Len(toClient'[c])
    <3>2. toClient'[c][k].to = LastId(c) - Len(toTask[c]) - (Len(toClient[c]) + 1 - k)
      BY <1>5, <2>4
    <3>3. LastId(c) \in Int /\ k \in Int
      BY <1>1 DEF LastId
    <3>4. QED
      BY <1>2, <1>5, <2>1, <2>5, <3>2, <3>3
  <2>7. QED
    BY <1>3, <2>1, <2>3, <2>5, <2>6 DEF InOrder
<1>7. CASE /\ task[c] = "reading" /\ toTask[c] # <<>> /\ to = Head(toTask[c]).id
           /\ toTask' = [toTask EXCEPT ![c] = Tail(@)]
  <2>1. /\ toTask'[c] = Tail(toTask[c]) /\ Len(toTask[c]) \in Nat \ {0}
        /\ Len(toTask'[c]) = Len(toTask[c]) - 1 /\ to = toTask[c][1].id
        /\ \A k \in 1..(Len(toTask[c]) - 1) : toTask'[c][k] = toTask[c][k + 1]
    BY <1>1, <1>7, TailShape
  <2>2. \A k \in 1..Len(toTask[c]) : toTask[c][k].id = LastId(c) - (Len(toTask[c]) - k)
    BY <1>7 DEF InOrder
  <2>3. \A k \in 1..Len(toClient[c]) :
          toClient[c][k].to = LastId(c) - Len(toTask[c]) - (Len(toClient[c]) - k)
    BY <1>1, <1>2, <1>7 DEF InOrder, Working, LastId
  <2>4. to = LastId(c) - Len(toTask'[c])
    BY <1>1, <2>1, <2>2 DEF LastId
  <2>5. \A k \in 1..Len(toTask'[c]) :
          toTask'[c][k].id = LastId(c) - (Len(toTask'[c]) - k)
    <3>1. TAKE k \in 1..Len(toTask'[c])
    <3>2. k + 1 \in 1..Len(toTask[c]) /\ k \in Int
      BY <2>1
    <3>3. toTask'[c][k].id = LastId(c) - (Len(toTask[c]) - (k + 1))
      BY <2>1, <2>2, <3>2
    <3>4. QED
      BY <1>1, <2>1, <3>2, <3>3 DEF LastId
  <2>6. \A k \in 1..(Len(toClient[c]) + 1) :
          toClient'[c][k].to = LastId(c) - Len(toTask'[c]) - (Len(toClient[c]) + 1 - k)
    <3>1. TAKE k \in 1..(Len(toClient[c]) + 1)
    <3>2. k \in Int /\ LastId(c) \in Int
      BY <1>1, <1>2 DEF LastId
    <3>3. CASE k = Len(toClient[c]) + 1
      BY <1>2, <1>5, <2>1, <2>4, <3>2, <3>3
    <3>4. CASE k \in 1..Len(toClient[c])
      <4>1. toClient'[c][k].to = toClient[c][k].to
        BY <1>5, <3>4
      <4>2. toClient[c][k].to = LastId(c) - Len(toTask[c]) - (Len(toClient[c]) - k)
        BY <2>3, <3>4
      <4>3. Len(toTask[c]) \in Int /\ Len(toClient[c]) \in Int
        BY <1>2
      <4>4. QED
        BY <2>1, <3>2, <4>1, <4>2, <4>3
    <3>5. k = Len(toClient[c]) + 1 \/ k \in 1..Len(toClient[c])
      BY <1>2
    <3>6. QED
      BY <3>3, <3>4, <3>5
  <2>7. LastId(c)' = LastId(c) /\ Working(c)' = 0
    BY <1>3 DEF LastId, Working
  <2>8. QED
    BY <1>1, <1>2, <1>3, <1>5, <2>1, <2>5, <2>6, <2>7 DEF InOrder, LastId
<1>8. QED
  BY <1>6, <1>7

(* A step that leaves a connection's channels and its task alone.           *)
LEMMA OrderUndisturbed ==
  ASSUME NEW d \in Conn, InOrder(d), open'[d] => open[d], nextId'[d] = nextId[d],
         toTask'[d] = toTask[d], toClient'[d] = toClient[d], task'[d] = task[d],
         current'[d] = current[d]
  PROVE  InOrder(d)'
  BY DEF InOrder, LastId, Working

(* Every step keeps the order on every connection.                          *)
LEMMA InOrderStep ==
  ASSUME Types, [Next]_vars, NEW d \in Conn, InOrder(d)
  PROVE  InOrder(d)'
<1>1. /\ open \in [Conn -> BOOLEAN] /\ nextId \in [Conn -> 1..(MaxRequests + 1)]
      /\ toTask \in [Conn -> Seq(Line)] /\ toClient \in [Conn -> Seq(Response)]
      /\ task \in [Conn -> {"reading", "waiting", "gone"}]
      /\ current \in [Conn -> Line \union {NoLine}]
      /\ nextId[d] \in Nat /\ Len(toTask[d]) \in Nat /\ Len(toClient[d]) \in Nat
      /\ toTask[d] \in Seq(Line) /\ toClient[d] \in Seq(Response)
  <2>1. nextId[d] \in 1..(MaxRequests + 1)
    BY DEF Types, TypeOK
  <2>2. toTask[d] \in Seq(Line) /\ toClient[d] \in Seq(Response)
    BY DEF Types, TypeOK
  <2>3. nextId[d] \in Nat
    BY <2>1, MaxRequestsAssumption
  <2>4. QED
    BY <2>2, <2>3 DEF Types, TypeOK
<1>2. ASSUME NEW c \in Conn, NEW kind \in Kind, Send(c, kind) PROVE InOrder(d)'
  <2> DEFINE line == [id |-> nextId[c], kind |-> kind]
  <2>1. line \in Line /\ line.id = nextId[c]
    BY <1>1, <1>2 DEF Send, Line, Id
  <2>2. /\ toTask' = [toTask EXCEPT ![c] = Append(@, line)]
        /\ nextId' = [nextId EXCEPT ![c] = @ + 1]
        /\ UNCHANGED <<open, toClient, task, current>>
    BY <1>2 DEF Send, server
  <2> HIDE DEF line
  <2>3. CASE d # c
    BY <1>1, <2>2, <2>3, OrderUndisturbed
  <2>4. CASE d = c
    <3>1. /\ Len(toTask'[d]) = Len(toTask[d]) + 1
          /\ toTask'[d][Len(toTask[d]) + 1] = line
          /\ \A k \in 1..Len(toTask[d]) : toTask'[d][k] = toTask[d][k]
          /\ LastId(d)' = LastId(d) + 1 /\ LastId(d) \in Int /\ line.id = LastId(d) + 1
      BY <1>1, <2>1, <2>2, <2>4, AppendShape DEF LastId
    <3>2. ASSUME open[d], task[d] # "gone"
          PROVE  \A k \in 1..Len(toTask'[d]) :
                   toTask'[d][k].id = LastId(d)' - (Len(toTask'[d]) - k)
      <4>1. \A k \in 1..Len(toTask[d]) : toTask[d][k].id = LastId(d) - (Len(toTask[d]) - k)
        BY <3>2 DEF InOrder
      <4>2. TAKE k \in 1..Len(toTask'[d])
      <4>3. k \in Int /\ k \in 1..(Len(toTask[d]) + 1)
        BY <1>1, <3>1
      <4>4. CASE k = Len(toTask[d]) + 1
        BY <1>1, <3>1, <4>3, <4>4
      <4>5. CASE k \in 1..Len(toTask[d])
        <5>1. toTask'[d][k].id = LastId(d) - (Len(toTask[d]) - k)
          BY <3>1, <4>1, <4>5
        <5>2. QED
          BY <1>1, <3>1, <4>3, <5>1
      <4>6. QED
        BY <1>1, <4>3, <4>4, <4>5
    <3>3. ASSUME open[d], task[d] # "gone"
          PROVE  task[d] = "waiting" => current[d].id = LastId(d)' - Len(toTask'[d])
      BY <1>1, <3>1, <3>3 DEF InOrder
    <3>4. ASSUME open[d], task[d] # "gone"
          PROVE  \A k \in 1..Len(toClient[d]) :
                   toClient[d][k].to
                     = LastId(d)' - Len(toTask'[d]) - Working(d) - (Len(toClient[d]) - k)
      <4>1. LastId(d)' - Len(toTask'[d]) = LastId(d) - Len(toTask[d])
        BY <1>1, <3>1
      <4>2. QED
        BY <3>4, <4>1 DEF InOrder
    <3>5. Working(d)' = Working(d)
      BY <2>2 DEF Working
    <3>6. QED
      BY <2>2, <3>2, <3>3, <3>4, <3>5 DEF InOrder
  <2>5. QED
    BY <2>3, <2>4
<1>3. ASSUME NEW c \in Conn, Return(c) PROVE InOrder(d)'
  <2>1. /\ toClient[c] # <<>> /\ toClient' = [toClient EXCEPT ![c] = Tail(@)]
        /\ UNCHANGED <<open, nextId, toTask, task, current>>
    BY <1>3 DEF Return, server
  <2>2. CASE d # c
    BY <1>1, <2>1, <2>2, OrderUndisturbed
  <2>3. CASE d = c
    <3>1. /\ Len(toClient'[d]) = Len(toClient[d]) - 1
          /\ \A k \in 1..(Len(toClient[d]) - 1) : toClient'[d][k] = toClient[d][k + 1]
      BY <1>1, <2>1, <2>3, TailShape
    <3>2. LastId(d)' = LastId(d) /\ Working(d)' = Working(d)
      BY <2>1 DEF LastId, Working
    <3>3. ASSUME open[d], task[d] # "gone", NEW k \in 1..Len(toClient'[d])
          PROVE  toClient'[d][k].to
                   = LastId(d) - Len(toTask[d]) - Working(d) - (Len(toClient'[d]) - k)
      <4>1. k + 1 \in 1..Len(toClient[d]) /\ k \in Int /\ k \in 1..(Len(toClient[d]) - 1)
        BY <1>1, <3>1
      <4>2. toClient'[d][k].to
              = LastId(d) - Len(toTask[d]) - Working(d) - (Len(toClient[d]) - (k + 1))
        BY <3>1, <3>3, <4>1 DEF InOrder
      <4>3. Len(toClient[d]) - (k + 1) = Len(toClient'[d]) - k
        BY <1>1, <3>1, <4>1
      <4>4. QED
        BY <4>2, <4>3
    <3>4. QED
      BY <2>1, <3>2, <3>3 DEF InOrder
  <2>4. QED
    BY <2>2, <2>3
<1>4. ASSUME NEW c \in Conn, Close(c) PROVE InOrder(d)'
  <2>1. CASE d = c
    <3>1. ~open'[d]
      BY <1>1, <1>4, <2>1 DEF Close
    <3>2. QED
      BY <3>1 DEF InOrder
  <2>2. CASE d # c
    BY <1>1, <1>4, <2>2, OrderUndisturbed DEF Close, server
  <2>3. QED
    BY <2>1, <2>2
<1>5. ASSUME NEW c \in Conn, Hangup(c) \/ Cancel(c) PROVE InOrder(d)'
  <2>1. /\ open'[d] => open[d]
        /\ UNCHANGED <<nextId, toTask, toClient, task, current>>
    BY <1>1, <1>5 DEF Hangup, Cancel, server
  <2>2. QED
    BY <2>1, OrderUndisturbed
<1>6. ASSUME NEW c \in Conn, ReadLine(c) PROVE InOrder(d)'
  <2> DEFINE line == Head(toTask[c])
  <2>1. /\ task[c] = "reading" /\ toTask[c] # <<>> /\ line \in Line /\ line.id \in Id
        /\ toTask' = [toTask EXCEPT ![c] = Tail(@)] /\ UNCHANGED <<open, nextId>>
    BY <1>6, LineTaken DEF ReadLine, Line, client
  <2>2. ASSUME NEW id \in Id \union {0}, NEW reply \in Reply, Write(c, line.id, id, reply),
               UNCHANGED current
        PROVE  InOrder(d)'
    <3>1. CASE d = c
      BY <2>1, <2>2, <3>1, WriteInOrder
    <3>2. CASE d # c
      <4>1. toTask'[d] = toTask[d] /\ toClient'[d] = toClient[d] /\ task'[d] = task[d]
        BY <1>1, <2>1, <2>2, <3>2 DEF Write
      <4>2. QED
        BY <2>1, <2>2, <4>1, OrderUndisturbed
    <3>3. QED
      BY <3>1, <3>2
  <2>3. ASSUME current' = [current EXCEPT ![c] = line],
               task' = [task EXCEPT ![c] = "waiting"], UNCHANGED toClient
        PROVE  InOrder(d)'
    <3>1. CASE d # c
      BY <1>1, <2>1, <2>3, <3>1, OrderUndisturbed
    <3>2. CASE d = c
      <4> SUFFICES ASSUME open[d] PROVE InOrder(d)'
        BY <2>1 DEF InOrder
      <4>1. /\ toTask'[d] = Tail(toTask[d]) /\ Len(toTask[d]) \in Nat \ {0}
            /\ Len(toTask'[d]) = Len(toTask[d]) - 1 /\ line = toTask[d][1]
            /\ \A k \in 1..(Len(toTask[d]) - 1) : toTask'[d][k] = toTask[d][k + 1]
        BY <1>1, <2>1, <3>2, TailShape
      <4>2. /\ LastId(d)' = LastId(d) /\ LastId(d) \in Int /\ Working(d) = 0 /\ Working(d)' = 1
            /\ task'[d] = "waiting" /\ current'[d] = toTask[d][1]
        BY <1>1, <2>1, <2>3, <3>2, <4>1 DEF LastId, Working
      <4>3. /\ \A k \in 1..Len(toTask[d]) : toTask[d][k].id = LastId(d) - (Len(toTask[d]) - k)
            /\ \A k \in 1..Len(toClient[d]) :
                 toClient[d][k].to
                   = LastId(d) - Len(toTask[d]) - Working(d) - (Len(toClient[d]) - k)
        BY <2>1, <3>2 DEF InOrder
      <4>4. current'[d].id = LastId(d)' - Len(toTask'[d])
        BY <4>1, <4>2, <4>3
      <4>5. ASSUME NEW k \in 1..Len(toTask'[d])
            PROVE  toTask'[d][k].id = LastId(d)' - (Len(toTask'[d]) - k)
        <5>1. k + 1 \in 1..Len(toTask[d]) /\ k \in Int
          BY <4>1
        <5>2. toTask'[d][k].id = LastId(d) - (Len(toTask[d]) - (k + 1))
          BY <4>1, <4>3, <5>1
        <5>3. QED
          BY <4>1, <4>2, <5>1, <5>2
      <4>6. Len(toTask[d]) + Working(d) = Len(toTask'[d]) + Working(d)'
        BY <4>1, <4>2
      <4>7. ASSUME NEW k \in 1..Len(toClient'[d])
            PROVE  toClient'[d][k].to
                     = LastId(d)' - Len(toTask'[d]) - Working(d)' - (Len(toClient'[d]) - k)
        <5>1. toClient'[d] = toClient[d] /\ k \in Int
          BY <2>3
        <5>2. toClient'[d][k].to
                = LastId(d) - Len(toTask[d]) - Working(d) - (Len(toClient[d]) - k)
          BY <4>3, <5>1
        <5>3. QED
          BY <1>1, <4>1, <4>2, <5>1, <5>2
      <4>8. QED
        BY <4>4, <4>5, <4>7 DEF InOrder
    <3>3. QED
      BY <3>1, <3>2
  <2>4. QED
    BY <1>6, <2>1, <2>2, <2>3 DEF ReadLine, Dispatch, Reply
<1>7. ASSUME NEW c \in Conn, Respond(c) PROVE InOrder(d)'
  <2>1. PICK reply \in Reply : Write(c, current[c].id, current[c].id, reply)
    BY <1>7 DEF Respond, Reply, Types, TypeOK
  <2>2. /\ task[c] = "waiting" /\ current[c].id \in Id
        /\ \A e \in Conn \ {c} : current'[e] = current[e]
        /\ UNCHANGED <<open, nextId, toTask>>
    BY <1>1, <1>7 DEF Respond, Types, Line, client
  <2>3. CASE d = c
    BY <2>1, <2>2, <2>3, WriteInOrder
  <2>4. CASE d # c
    <3>1. toClient'[d] = toClient[d] /\ task'[d] = task[d]
      BY <1>1, <2>1, <2>4 DEF Write
    <3>2. QED
      BY <2>2, <2>4, <3>1, OrderUndisturbed
  <2>5. QED
    BY <2>3, <2>4
<1>8. ASSUME NEW c \in Conn, SeeHangup(c) PROVE InOrder(d)'
  <2>1. CASE d = c
    BY <1>1, <1>8, <2>1 DEF SeeHangup, InOrder
  <2>2. CASE d # c
    BY <1>1, <1>8, <2>2, OrderUndisturbed DEF SeeHangup, client
  <2>3. QED
    BY <2>1, <2>2
<1>9. CASE Exit
  BY <1>9 DEF Exit, InOrder
<1>10. CASE Handle \/ Signal \/ DropLoop \/ UNCHANGED vars
  BY <1>10, OrderUndisturbed DEF Handle, Signal, DropLoop, vars, client, server
<1>11. QED
  BY <1>2, <1>3, <1>4, <1>5, <1>6, <1>7, <1>8, <1>9, <1>10 DEF Next, Server

-------------------------------------------------------------------------------
(* The rest of RepliesInOrder: a client that waits has something on its     *)
(* way, and what it will read echoes what it wrote.                         *)
Kept(c) ==
  open[c] /\ task[c] # "gone" =>
    /\ awaited[c] # 0 => Len(toTask[c]) > 0 \/ task[c] = "waiting" \/ Len(toClient[c]) > 0
    /\ \A k \in 1..Len(toClient[c]) : Echoes(toClient[c][k])

(* A step that leaves a connection's channels and its task alone.           *)
LEMMA KeptUndisturbed ==
  ASSUME NEW d \in Conn, Kept(d), open'[d] => open[d], awaited'[d] # 0 => awaited[d] # 0,
         toTask'[d] = toTask[d], toClient'[d] = toClient[d], task'[d] = task[d]
  PROVE  Kept(d)'
  BY DEF Kept

(* A written response keeps it, and leaves the other connections alone.     *)
LEMMA WriteKept ==
  ASSUME Types, NEW d \in Conn, Kept(d), NEW c \in Conn, task[c] # "gone",
         NEW to \in Id, NEW id \in Id \union {0}, NEW reply \in Reply,
         id = to \/ (id = 0 /\ reply = "invalid"),
         Write(c, to, id, reply), UNCHANGED <<open, awaited>>,
         d # c => toTask'[d] = toTask[d], Len(toTask'[d]) \in Nat
  PROVE  Kept(d)'
<1>1. /\ toClient[d] \in Seq(Response) /\ toClient \in [Conn -> Seq(Response)]
      /\ task \in [Conn -> {"reading", "waiting", "gone"}] /\ Len(toClient[d]) \in Nat
  BY DEF Types, TypeOK
<1>2. CASE d # c
  <2>1. toClient'[d] = toClient[d] /\ task'[d] = task[d]
    BY <1>1, <1>2 DEF Write
  <2>2. QED
    BY <1>2, <2>1, KeptUndisturbed
<1>3. CASE d = c
  <2> SUFFICES ASSUME open[d], task'[d] # "gone" PROVE Kept(d)'
    BY DEF Kept
  <2> DEFINE response == [to |-> to, id |-> id, reply |-> reply]
  <2>1. toClient'[d] = Append(toClient[d], response)
    BY <1>1, <1>3 DEF Write
  <2>2. response \in Response /\ Echoes(response)
    BY DEF Response, Echoes
  <2> HIDE DEF response
  <2>3. /\ Len(toClient'[d]) = Len(toClient[d]) + 1
        /\ toClient'[d][Len(toClient[d]) + 1] = response
        /\ \A k \in 1..Len(toClient[d]) : toClient'[d][k] = toClient[d][k]
    BY <1>1, <2>1, <2>2, AppendShape
  <2>4. \A k \in 1..Len(toClient[d]) : Echoes(toClient[d][k])
    BY <1>3 DEF Kept
  <2>5. \A k \in 1..Len(toClient'[d]) : Echoes(toClient'[d][k])
    <3>1. TAKE k \in 1..Len(toClient'[d])
    <3>2. k \in 1..Len(toClient[d]) \/ k = Len(toClient[d]) + 1
      BY <1>1, <2>3
    <3>3. QED
      BY <2>2, <2>3, <2>4, <3>2
  <2>6. Len(toClient'[d]) > 0
    BY <1>1, <2>3
  <2>7. QED
    BY <2>5, <2>6 DEF Kept, Echoes
<1>4. QED
  BY <1>2, <1>3

(* Every step keeps it on every connection.                                 *)
LEMMA KeptStep ==
  ASSUME Types, [Next]_vars, NEW d \in Conn, Kept(d)
  PROVE  Kept(d)'
<1>0. Types'
  BY TypesStep
<1>1. /\ open \in [Conn -> BOOLEAN] /\ awaited \in [Conn -> 0..MaxRequests]
      /\ toTask \in [Conn -> Seq(Line)] /\ toClient \in [Conn -> Seq(Response)]
      /\ task \in [Conn -> {"reading", "waiting", "gone"}]
      /\ Len(toTask[d]) \in Nat /\ Len(toClient[d]) \in Nat
      /\ Len(toTask'[d]) \in Nat /\ Len(toClient'[d]) \in Nat
      /\ toTask[d] \in Seq(Line) /\ toClient[d] \in Seq(Response)
  <2>1. /\ open \in [Conn -> BOOLEAN] /\ awaited \in [Conn -> 0..MaxRequests]
        /\ toTask \in [Conn -> Seq(Line)] /\ toClient \in [Conn -> Seq(Response)]
        /\ task \in [Conn -> {"reading", "waiting", "gone"}]
    BY DEF Types, TypeOK
  <2>2. toTask' \in [Conn -> Seq(Line)] /\ toClient' \in [Conn -> Seq(Response)]
    BY <1>0 DEF Types, TypeOK
  <2>3. /\ toTask[d] \in Seq(Line) /\ toClient[d] \in Seq(Response)
        /\ toTask'[d] \in Seq(Line) /\ toClient'[d] \in Seq(Response)
    BY <2>1, <2>2
  <2>4. /\ Len(toTask[d]) \in Nat /\ Len(toClient[d]) \in Nat
        /\ Len(toTask'[d]) \in Nat /\ Len(toClient'[d]) \in Nat
    BY <2>3
  <2>5. QED
    BY <2>1, <2>3, <2>4
<1>2. ASSUME NEW c \in Conn, NEW kind \in Kind, Send(c, kind) PROVE Kept(d)'
  <2>1. CASE d # c
    BY <1>1, <1>2, <2>1, KeptUndisturbed DEF Send, server
  <2>2. CASE d = c
    <3>1. [id |-> nextId[c], kind |-> kind] \in Line
      BY <1>2 DEF Send, Line, Id, Types, TypeOK
    <3>2. Len(toTask'[d]) = Len(toTask[d]) + 1
      BY <1>1, <1>2, <2>2, <3>1, AppendShape DEF Send
    <3>3. UNCHANGED <<open, toClient, task>>
      BY <1>2 DEF Send, server
    <3>4. Len(toTask'[d]) > 0
      BY <1>1, <3>2
    <3>5. QED
      BY <3>3, <3>4 DEF Kept
  <2>3. QED
    BY <2>1, <2>2
<1>3. ASSUME NEW c \in Conn, Return(c) PROVE Kept(d)'
  <2>1. CASE d # c
    BY <1>1, <1>3, <2>1, KeptUndisturbed DEF Return, server
  <2>2. CASE d = c
    <3>1. awaited'[d] = 0 /\ UNCHANGED <<open, task>>
      BY <1>1, <1>3, <2>2 DEF Return, server
    <3>2. /\ Len(toClient'[d]) = Len(toClient[d]) - 1
          /\ \A k \in 1..(Len(toClient[d]) - 1) :
               toClient'[d][k] = toClient[d][k + 1] /\ k + 1 \in 1..Len(toClient[d])
      BY <1>1, <1>3, <2>2, TailShape DEF Return
    <3>3. QED
      BY <3>1, <3>2 DEF Kept
  <2>3. QED
    BY <2>1, <2>2
<1>4. ASSUME NEW c \in Conn, Hangup(c) \/ Cancel(c) PROVE Kept(d)'
  <2>1. (open'[d] => open[d]) /\ (awaited'[d] # 0 => awaited[d] # 0)
    BY <1>1, <1>4 DEF Hangup, Cancel
  <2>2. UNCHANGED <<toTask, toClient, task>>
    BY <1>4 DEF Hangup, Cancel, server
  <2>3. QED
    BY <2>1, <2>2, KeptUndisturbed
<1>5. ASSUME NEW c \in Conn, Close(c) PROVE Kept(d)'
  <2>1. CASE d = c
    <3>1. ~open'[d]
      BY <1>1, <1>5, <2>1 DEF Close
    <3>2. QED
      BY <3>1 DEF Kept
  <2>2. CASE d # c
    BY <1>1, <1>5, <2>2, KeptUndisturbed DEF Close, server
  <2>3. QED
    BY <2>1, <2>2
<1>6. ASSUME NEW c \in Conn, ReadLine(c) PROVE Kept(d)'
  <2> DEFINE line == Head(toTask[c])
  <2>1. /\ task[c] = "reading" /\ line \in Line /\ line.id \in Id
        /\ toTask' = [toTask EXCEPT ![c] = Tail(@)] /\ UNCHANGED <<open, nextId, awaited>>
    BY <1>6, LineTaken DEF ReadLine, Line, client
  <2> HIDE DEF line
  <2>2. d # c => toTask'[d] = toTask[d]
    BY <1>1, <2>1
  <2>3. ASSUME NEW id \in Id \union {0}, NEW reply \in Reply,
               id = line.id \/ (id = 0 /\ reply = "invalid"), Write(c, line.id, id, reply)
        PROVE  Kept(d)'
    BY <1>1, <2>1, <2>2, <2>3, WriteKept
  <2>4. ASSUME task' = [task EXCEPT ![c] = "waiting"], UNCHANGED toClient PROVE Kept(d)'
    <3>1. CASE d # c
      BY <1>1, <2>1, <2>2, <2>4, <3>1, KeptUndisturbed
    <3>2. CASE d = c
      <4>1. task'[d] = "waiting"
        BY <1>1, <2>4, <3>2
      <4>2. task[d] # "gone" /\ open' = open
        BY <2>1, <3>2
      <4>3. QED
        BY <2>4, <4>1, <4>2 DEF Kept
    <3>3. QED
      BY <3>1, <3>2
  <2>5. QED
    BY <1>6, <2>1, <2>3, <2>4 DEF ReadLine, Dispatch, Reply, line
<1>7. ASSUME NEW c \in Conn, Respond(c) PROVE Kept(d)'
  <2>1. PICK reply \in Reply : Write(c, current[c].id, current[c].id, reply)
    BY <1>7 DEF Respond, Reply, Types, TypeOK
  <2>2. /\ task[c] = "waiting" /\ current[c].id \in Id
        /\ UNCHANGED <<open, awaited, toTask>>
    BY <1>7 DEF Respond, Types, Line, client
  <2>3. QED
    BY <1>1, <2>1, <2>2, WriteKept
<1>8. ASSUME NEW c \in Conn, SeeHangup(c) PROVE Kept(d)'
  <2>1. CASE d = c
    BY <1>1, <1>8, <2>1 DEF SeeHangup, Kept
  <2>2. CASE d # c
    BY <1>1, <1>8, <2>2, KeptUndisturbed DEF SeeHangup, client
  <2>3. QED
    BY <2>1, <2>2
<1>9. CASE Exit
  BY <1>9 DEF Exit, Kept
<1>10. CASE Handle \/ Signal \/ DropLoop \/ UNCHANGED vars
  BY <1>10, KeptUndisturbed DEF Handle, Signal, DropLoop, vars, client, server
<1>11. QED
  BY <1>2, <1>3, <1>4, <1>5, <1>6, <1>7, <1>8, <1>9, <1>10 DEF Next, Server

-------------------------------------------------------------------------------
(* The three channels of InOrder, read as the one sequence OnTheWay.        *)

(* Concatenation puts the second behind the first.                          *)
LEMMA ConcatShape ==
  ASSUME NEW a \in Seq(Int), NEW b \in Seq(Int)
  PROVE  /\ a \o b \in Seq(Int) /\ Len(a) \in Nat /\ Len(b) \in Nat
         /\ Len(a \o b) = Len(a) + Len(b)
         /\ \A k \in 1..Len(a) : (a \o b)[k] = a[k]
         /\ \A k \in (Len(a) + 1)..(Len(a) + Len(b)) : (a \o b)[k] = b[k - Len(a)]
  OBVIOUS

(* The last id on the way is the last one sent, and there is no gap.        *)
LEMMA OnTheWayInOrder ==
  ASSUME Types, NEW c \in Conn, InOrder(c), open[c], task[c] # "gone"
  PROVE  /\ \A k \in DOMAIN OnTheWay(c) :
              OnTheWay(c)[k] = nextId[c] - 1 - (Len(OnTheWay(c)) - k)
         /\ Len(toTask[c]) > 0 \/ task[c] = "waiting" \/ Len(toClient[c]) > 0 =>
              Len(OnTheWay(c)) > 0
<1> DEFINE answered == [k \in DOMAIN toClient[c] |-> toClient[c][k].to]
           asked == [k \in DOMAIN toTask[c] |-> toTask[c][k].id]
           working == IF task[c] = "waiting" THEN <<current[c].id>> ELSE <<>>
           last == nextId[c] - 1
<1>1. /\ toTask[c] \in Seq(Line) /\ toClient[c] \in Seq(Response)
      /\ nextId[c] \in 1..(MaxRequests + 1)
      /\ task[c] = "waiting" => current[c] \in Line
  BY DEF Types, TypeOK
<1>2. last \in Int
  BY <1>1, MaxRequestsAssumption
<1>3. (\A e \in Line : e.id \in Int) /\ \A e \in Response : e.to \in Int
  BY MaxRequestsAssumption DEF Line, Response, Id
<1>3a. /\ DOMAIN toClient[c] = 1..Len(toClient[c]) /\ Len(toClient[c]) \in Nat
       /\ DOMAIN toTask[c] = 1..Len(toTask[c]) /\ Len(toTask[c]) \in Nat
       /\ \A k \in 1..Len(toClient[c]) : toClient[c][k] \in Response
       /\ \A k \in 1..Len(toTask[c]) : toTask[c][k] \in Line
  BY <1>1
<1>4. /\ answered \in Seq(Int) /\ Len(answered) = Len(toClient[c])
      /\ \A k \in 1..Len(answered) : answered[k] = toClient[c][k].to
  BY <1>3, <1>3a
<1>5. /\ asked \in Seq(Int) /\ Len(asked) = Len(toTask[c])
      /\ \A k \in 1..Len(asked) : asked[k] = toTask[c][k].id
  BY <1>3, <1>3a
<1>6. /\ working \in Seq(Int) /\ Len(working) = Working(c)
      /\ \A k \in 1..Len(working) : working[k] = last - Len(asked)
  <2>1. CASE task[c] = "waiting"
    <3>1. current[c].id = last - Len(asked)
      BY <1>5, <2>1 DEF InOrder, LastId
    <3>2. working = <<current[c].id>> /\ current[c].id \in Int
      BY <1>1, <1>3, <2>1
    <3>3. QED
      BY <2>1, <3>1, <3>2 DEF Working
  <2>2. CASE task[c] # "waiting"
    BY <2>2 DEF Working
  <2>3. QED
    BY <2>1, <2>2
<1>7. \A k \in 1..Len(asked) : asked[k] = last - (Len(asked) - k)
  BY <1>5 DEF InOrder, LastId
<1>8. \A k \in 1..Len(answered) :
        answered[k] = last - Len(asked) - Len(working) - (Len(answered) - k)
  BY <1>4, <1>5, <1>6 DEF InOrder, LastId
<1>9. OnTheWay(c) = (answered \o working) \o asked
  BY DEF OnTheWay
<1> HIDE DEF answered, asked, working, last
<1>10. Len(answered) \in Nat /\ Len(asked) \in Nat /\ Len(working) \in {0, 1}
  BY <1>4, <1>5, <1>6 DEF Working
<1> DEFINE front == answered \o working
<1>11. /\ front \in Seq(Int) /\ Len(front) = Len(answered) + Len(working)
       /\ \A k \in 1..Len(answered) : front[k] = answered[k]
       /\ \A k \in (Len(answered) + 1)..Len(front) : front[k] = working[k - Len(answered)]
  <2>1. answered \in Seq(Int) /\ working \in Seq(Int)
    BY <1>4, <1>6
  <2>2. /\ front \in Seq(Int) /\ Len(front) = Len(answered) + Len(working)
        /\ \A k \in 1..Len(answered) : front[k] = answered[k]
        /\ \A k \in (Len(answered) + 1)..(Len(answered) + Len(working)) :
             front[k] = working[k - Len(answered)]
    BY <2>1, ConcatShape
  <2>3. QED
    BY <2>2
<1> HIDE DEF front
<1>12. \A k \in 1..Len(front) : front[k] = last - Len(asked) - (Len(front) - k)
  <2>1. TAKE k \in 1..Len(front)
  <2>2. CASE k \in 1..Len(answered)
    <3>1. front[k] = last - Len(asked) - Len(working) - (Len(answered) - k)
      BY <1>8, <1>11, <2>2
    <3>2. QED
      BY <1>2, <1>10, <1>11, <2>2, <3>1
  <2>3. CASE k \notin 1..Len(answered)
    <3>1. Len(working) = 1 /\ k = Len(answered) + 1 /\ k = Len(front) /\ k - Len(answered) = 1
      <4>1. k \in Nat /\ k > Len(answered) /\ k <= Len(answered) + Len(working)
        BY <1>10, <1>11, <2>3
      <4>2. Len(front) = Len(answered) + Len(working) /\ Len(answered) \in Nat
        BY <1>10, <1>11
      <4>3. Len(working) = 1
        BY <1>10, <4>1
      <4>4. QED
        BY <4>1, <4>2, <4>3
    <3>2. front[k] = last - Len(asked)
      BY <1>6, <1>10, <1>11, <3>1
    <3>3. QED
      BY <1>2, <1>10, <1>11, <3>1, <3>2
  <2>4. QED
    BY <2>2, <2>3
<1>13. /\ Len(front \o asked) = Len(front) + Len(asked)
       /\ front \o asked \in Seq(Int)
       /\ \A k \in 1..Len(front) : (front \o asked)[k] = front[k]
       /\ \A k \in (Len(front) + 1)..(Len(front) + Len(asked)) :
            (front \o asked)[k] = asked[k - Len(front)]
  BY <1>5, <1>11, ConcatShape
<1>14. \A k \in 1..(Len(front) + Len(asked)) :
         (front \o asked)[k] = last - ((Len(front) + Len(asked)) - k)
  <2>1. TAKE k \in 1..(Len(front) + Len(asked))
  <2>2. Len(front) \in Nat /\ k \in Int
    BY <1>10, <1>11
  <2>3. CASE k \in 1..Len(front)
    <3>1. (front \o asked)[k] = last - Len(asked) - (Len(front) - k)
      BY <1>12, <1>13, <2>3
    <3>2. QED
      BY <1>2, <1>10, <2>2, <3>1
  <2>4. CASE k \notin 1..Len(front)
    <3>1. k \in (Len(front) + 1)..(Len(front) + Len(asked)) /\ k - Len(front) \in 1..Len(asked)
      BY <1>10, <2>2, <2>4
    <3>2. (front \o asked)[k] = last - (Len(asked) - (k - Len(front)))
      BY <1>7, <1>13, <3>1
    <3>3. QED
      BY <1>2, <1>10, <2>2, <3>2
  <2>5. QED
    BY <2>3, <2>4
<1>15. DOMAIN OnTheWay(c) = 1..(Len(front) + Len(asked)) /\ OnTheWay(c) = front \o asked
  BY <1>9, <1>13 DEF front
<1>16. Len(toTask[c]) > 0 \/ task[c] = "waiting" \/ Len(toClient[c]) > 0 =>
         Len(front) + Len(asked) > 0
  <2>1. /\ Len(answered) = Len(toClient[c]) /\ Len(asked) = Len(toTask[c])
        /\ Len(front) = Len(answered) + Len(working)
    BY <1>4, <1>5, <1>11
  <2>2. Len(working) = Working(c)
    BY <1>6
  <2>3. task[c] = "waiting" => Len(working) = 1
    BY <2>2 DEF Working
  <2>4. Len(toTask[c]) > 0 => Len(asked) > 0
    BY <2>1
  <2>5. Len(toClient[c]) > 0 => Len(answered) > 0
    BY <2>1
  <2>6. Len(asked) > 0 \/ Len(working) = 1 \/ Len(answered) > 0 =>
          (Len(answered) + Len(working)) + Len(asked) > 0
    <3>1. Len(answered) \in Nat /\ Len(asked) \in Nat /\ Len(working) \in Nat
      BY <1>10
    <3>2. QED
      BY <3>1
  <2>7. (Len(answered) + Len(working)) + Len(asked) > 0 => Len(front) + Len(asked) > 0
    BY <2>1
  <2>8. QED
    BY <2>3, <2>4, <2>5, <2>6, <2>7
<1>17. QED
  BY <1>13, <1>14, <1>15, <1>16 DEF last

(* Every request of a connection, decodable or not, is answered once and in *)
(* order, also when callers drop their futures and send the next, and a     *)
(* client only waits while its answer is on the way (Client::request,       *)
(* client_loop).                                                            *)
THEOREM RepliesInOrderCorrect == Spec => []RepliesInOrder
<1> DEFINE Ordered == Types /\ \A c \in Conn : InOrder(c) /\ Kept(c)
<1>1. Init => Ordered
  <2> SUFFICES ASSUME Init PROVE \A c \in Conn : InOrder(c) /\ Kept(c)
    BY InitInv DEF Inv
  <2>1. TAKE c \in Conn
  <2>2. toTask[c] = <<>> /\ toClient[c] = <<>> /\ task[c] = "reading" /\ awaited[c] = 0
    BY DEF Init
  <2>3. QED
    BY <2>2 DEF InOrder, Kept
<1>2. Ordered /\ [Next]_vars => Ordered'
  BY TypesStep, InOrderStep, KeptStep
<1>3. Ordered => RepliesInOrder
  <2> SUFFICES ASSUME Ordered, NEW c \in Conn, open[c], task[c] # "gone"
               PROVE  /\ \A k \in DOMAIN OnTheWay(c) :
                           OnTheWay(c)[k] = nextId[c] - 1 - (Len(OnTheWay(c)) - k)
                      /\ awaited[c] # 0 => OnTheWay(c) # <<>>
                      /\ \A k \in DOMAIN toClient[c] : Echoes(toClient[c][k])
    BY DEF RepliesInOrder
  <2>1. /\ \A k \in DOMAIN OnTheWay(c) :
             OnTheWay(c)[k] = nextId[c] - 1 - (Len(OnTheWay(c)) - k)
        /\ Len(toTask[c]) > 0 \/ task[c] = "waiting" \/ Len(toClient[c]) > 0 =>
             Len(OnTheWay(c)) > 0
    BY OnTheWayInOrder
  <2>2. awaited[c] # 0 => OnTheWay(c) # <<>>
    BY <2>1 DEF Kept
  <2>3. DOMAIN toClient[c] = 1..Len(toClient[c])
    BY DEF Types, TypeOK
  <2>4. QED
    BY <2>1, <2>2, <2>3 DEF Kept
<1> HIDE DEF Ordered
<1>4. QED
  BY <1>1, <1>2, <1>3, PTL DEF Spec

(* Every variable keeps its type, whatever the handlers and threads do.     *)
THEOREM TypeCorrect == Spec => []TypeOK
  BY OneCommandCorrect, PTL

===============================================================================

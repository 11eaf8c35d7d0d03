------------------------------ MODULE ControlIpc ------------------------------
(***************************************************************************)
(* The control socket: ipc::Client on one side, on the other a tokio task  *)
(* per connection, the calloop channel to the compositor's main loop and   *)
(* a oneshot channel for each reply.                                       *)
(*                                                                         *)
(* A task handles one line at a time and waits for the main loop before it *)
(* reads the next one.  A client writes a request only when it waits for   *)
(* none, but it may stop waiting: the future of Client::request can be     *)
(* dropped after the line was written.  What a command does to the desktop *)
(* is Desktop's business; here it takes its turn on the main loop.         *)
(***************************************************************************)
EXTENDS Integers, Sequences, SequencesExt

CONSTANTS
  Conn,          (* connections, all accepted                                *)
  MaxRequests    (* bound: requests per connection                           *)

ASSUME MaxRequestsAssumption == MaxRequests \in Nat \ {0}

VARIABLES
  open,     (* the client still has its end of the connection                *)
  nextId,   (* Client.next_id                                                *)
  awaited,  (* the id of the request the client waits for, or 0              *)
  toTask,   (* lines written by the client, not yet read                     *)
  toClient, (* responses written by the task, not yet read                   *)
  task,     (* client_loop: reading, waiting for the main loop, or gone      *)
  current,  (* the line the task is working on, while it waits               *)
  queue,    (* the calloop channel: IpcCommands, each by its connection      *)
  slot,     (* the oneshot of the waiting task: empty, a reply, or dropped   *)
  loop      (* the main loop: running, told to stop, dropped, process gone   *)

client == <<open, nextId, awaited>>
server == <<task, current, slot>>
vars == <<client, toTask, toClient, server, queue, loop>>

(* Switch, move, reload, state, spawn and lock requests are "command"; an   *)
(* envelope that the task answers by itself (wrong version, not a request)  *)
(* is "refused", a line that is no envelope the server knows "garbled".     *)
Kind == {"command", "quit", "refused", "garbled"}
Id == 1..MaxRequests
Line == [id : Id, kind : Kind]
Reply == {"ok", "invalid", "internal"}

(* What a response says, and (history) which request it was written for.    *)
Response == [to : Id, id : Id \union {0}, reply : Reply]
NoLine == [id |-> 0, kind |-> "refused"]

Init ==
  /\ open = [c \in Conn |-> TRUE]
  /\ nextId = [c \in Conn |-> 1]
  /\ awaited = [c \in Conn |-> 0]
  /\ toTask = [c \in Conn |-> <<>>]
  /\ toClient = [c \in Conn |-> <<>>]
  /\ task = [c \in Conn |-> "reading"]
  /\ current = [c \in Conn |-> NoLine]
  /\ queue = <<>>
  /\ slot = [c \in Conn |-> "empty"]
  /\ loop = "running"

-------------------------------------------------------------------------------
(* The client.                                                              *)

Send(c, kind) ==
  /\ open[c]
  /\ awaited[c] = 0
  /\ task[c] # "gone"
  /\ nextId[c] <= MaxRequests
  /\ toTask' = [toTask EXCEPT ![c] = Append(@, [id |-> nextId[c], kind |-> kind])]
  /\ awaited' = [awaited EXCEPT ![c] = nextId[c]]
  /\ nextId' = [nextId EXCEPT ![c] = @ + 1]
  /\ UNCHANGED <<open, toClient, server, queue, loop>>

(* The first line on the connection is taken for the answer; its id is not  *)
(* looked at.                                                               *)
Return(c) ==
  /\ open[c]
  /\ awaited[c] # 0
  /\ toClient[c] # <<>>
  /\ toClient' = [toClient EXCEPT ![c] = Tail(@)]
  /\ awaited' = [awaited EXCEPT ![c] = 0]
  /\ UNCHANGED <<open, nextId, toTask, server, queue, loop>>

(* read_line returns 0: ClientError::Hangup.                                *)
Hangup(c) ==
  /\ open[c]
  /\ awaited[c] # 0
  /\ toClient[c] = <<>>
  /\ task[c] = "gone"
  /\ awaited' = [awaited EXCEPT ![c] = 0]
  /\ open' = [open EXCEPT ![c] = FALSE]
  /\ UNCHANGED <<nextId, toTask, toClient, server, queue, loop>>

(* The caller drops the request's future, by a timeout or a select.         *)
Cancel(c) ==
  /\ open[c]
  /\ awaited[c] # 0
  /\ awaited' = [awaited EXCEPT ![c] = 0]
  /\ UNCHANGED <<open, nextId, toTask, toClient, server, queue, loop>>

(* The caller drops the Client, while it waits or not.                      *)
Close(c) ==
  /\ open[c]
  /\ open' = [open EXCEPT ![c] = FALSE]
  /\ awaited' = [awaited EXCEPT ![c] = 0]
  /\ toClient' = [toClient EXCEPT ![c] = <<>>]
  /\ UNCHANGED <<nextId, toTask, server, queue, loop>>

-------------------------------------------------------------------------------
(* The task of a connection.                                                *)

(* write_all: a connection the client has left ends the task.               *)
Write(c, to, id, reply) ==
  LET response == [to |-> to, id |-> id, reply |-> reply] IN
  IF open[c]
    THEN /\ toClient' = [toClient EXCEPT ![c] = Append(@, response)]
         /\ task' = [task EXCEPT ![c] = "reading"]
    ELSE /\ task' = [task EXCEPT ![c] = "gone"]
         /\ UNCHANGED toClient

(* dispatch: the command goes to the main loop, if that still listens.      *)
Dispatch(c, line) ==
  \/ /\ loop \in {"running", "stopping"}
     /\ queue' = Append(queue, [conn |-> c, kind |-> line.kind])
     /\ current' = [current EXCEPT ![c] = line]
     /\ task' = [task EXCEPT ![c] = "waiting"]
     /\ UNCHANGED <<toClient, slot>>
  \/ /\ loop = "dropped"
     /\ Write(c, line.id, line.id, "internal")
     /\ UNCHANGED <<current, slot, queue>>

(* Mutant of ReadLine: a line that cannot be decoded is skipped.            *)
ReadLineSkips(c) ==
  /\ task[c] = "reading"
  /\ toTask[c] # <<>>
  /\ toTask' = [toTask EXCEPT ![c] = Tail(@)]
  /\ LET line == Head(toTask[c]) IN
     \/ /\ line.kind = "garbled"
        /\ UNCHANGED <<toClient, server, queue>>
     \/ /\ line.kind = "refused"
        /\ Write(c, line.id, line.id, "invalid")
        /\ UNCHANGED <<current, slot, queue>>
     \/ /\ line.kind \in {"command", "quit"}
        /\ Dispatch(c, line)
  /\ UNCHANGED <<client, loop>>

(* A line the client wrote is read even if the client has left since.  An   *)
(* undecodable one has no id to echo and is answered with 0.                *)
ReadLine(c) ==
  /\ task[c] = "reading"
  /\ toTask[c] # <<>>
  /\ toTask' = [toTask EXCEPT ![c] = Tail(@)]
  /\ LET line == Head(toTask[c]) IN
     \/ /\ line.kind = "garbled"
        /\ Write(c, line.id, 0, "invalid")
        /\ UNCHANGED <<current, slot, queue>>
     \/ /\ line.kind = "refused"
        /\ Write(c, line.id, line.id, "invalid")
        /\ UNCHANGED <<current, slot, queue>>
     \/ /\ line.kind \in {"command", "quit"}
        /\ Dispatch(c, line)
  /\ UNCHANGED <<client, loop>>

(* Mutant of Respond: the task reads on without waiting for the main loop.  *)
RespondEarly(c) ==
  /\ task[c] = "waiting"
  /\ Write(c, current[c].id, current[c].id, "ok")
  /\ current' = [current EXCEPT ![c] = NoLine]
  /\ slot' = [slot EXCEPT ![c] = "empty"]
  /\ UNCHANGED <<client, toTask, queue, loop>>

(* Mutant of Respond: the error of rx.await is not turned into a response.  *)
RespondRaw(c) ==
  /\ task[c] = "waiting"
  /\ slot[c] # "empty"
  /\ Write(c, current[c].id, current[c].id, slot[c])
  /\ current' = [current EXCEPT ![c] = NoLine]
  /\ slot' = [slot EXCEPT ![c] = "empty"]
  /\ UNCHANGED <<client, toTask, queue, loop>>

(* rx.await returns what the main loop sent, or an error if it was dropped. *)
Respond(c) ==
  /\ task[c] = "waiting"
  /\ slot[c] # "empty"
  /\ LET reply == IF slot[c] = "dropped" THEN "internal" ELSE slot[c] IN
     Write(c, current[c].id, current[c].id, reply)
  /\ current' = [current EXCEPT ![c] = NoLine]
  /\ slot' = [slot EXCEPT ![c] = "empty"]
  /\ UNCHANGED <<client, toTask, queue, loop>>

(* read_line returns 0.                                                     *)
SeeHangup(c) ==
  /\ task[c] = "reading"
  /\ toTask[c] = <<>>
  /\ ~open[c]
  /\ task' = [task EXCEPT ![c] = "gone"]
  /\ UNCHANGED <<client, toTask, toClient, current, slot, queue, loop>>

-------------------------------------------------------------------------------
(* The main loop.                                                           *)

(* handle_request_on_main; commands may be handled in the turn in which the *)
(* loop was told to stop.                                                   *)
Handle ==
  /\ loop \in {"running", "stopping"}
  /\ queue # <<>>
  /\ LET cmd == Head(queue) IN
     IF cmd.kind = "quit"
       THEN /\ loop' = "stopping"
            /\ slot' = [slot EXCEPT ![cmd.conn] = "ok"]
       ELSE /\ \E reply \in {"ok", "invalid"} : slot' = [slot EXCEPT ![cmd.conn] = reply]
            /\ UNCHANGED loop
  /\ queue' = Tail(queue)
  /\ UNCHANGED <<client, toTask, toClient, task, current>>

(* SIGTERM, SIGINT or SIGHUP.                                               *)
Signal ==
  /\ loop = "running"
  /\ loop' = "stopping"
  /\ UNCHANGED <<client, toTask, toClient, server, queue>>

(* run returns: the event loop goes, and with it the channel's receiver and *)
(* the reply channels of the commands still in it.                          *)
DropLoop ==
  /\ loop = "stopping"
  /\ loop' = "dropped"
  /\ queue' = <<>>
  /\ slot' = [c \in Conn |->
                IF \E k \in DOMAIN queue : queue[k].conn = c THEN "dropped" ELSE slot[c]]
  /\ UNCHANGED <<client, toTask, toClient, task, current>>

(* main returns; the tasks end where they are.                              *)
Exit ==
  /\ loop = "dropped"
  /\ loop' = "exited"
  /\ task' = [c \in Conn |-> "gone"]
  /\ current' = [c \in Conn |-> NoLine]
  /\ slot' = [c \in Conn |-> "empty"]
  /\ toTask' = [c \in Conn |-> <<>>]
  /\ UNCHANGED <<client, toClient, queue>>

-------------------------------------------------------------------------------
Server(c) == ReadLine(c) \/ Respond(c) \/ SeeHangup(c)

Next ==
  \/ \E c \in Conn :
       \/ \E kind \in Kind : Send(c, kind)
       \/ Return(c) \/ Hangup(c) \/ Cancel(c) \/ Close(c)
       \/ Server(c)
  \/ Handle \/ Signal \/ DropLoop \/ Exit

Spec == Init /\ [][Next]_vars

(* The runtime polls its tasks, the main loop turns, and a client that      *)
(* waits reads; whether anybody quits, cancels or closes is open.           *)
FairSpec ==
  /\ Spec
  /\ WF_vars(Handle) /\ WF_vars(DropLoop) /\ WF_vars(Exit)
  /\ \A c \in Conn : WF_vars(Server(c)) /\ WF_vars(Return(c) \/ Hangup(c))

-------------------------------------------------------------------------------
(* Type correctness of every variable.                                      *)
TypeOK ==
  /\ open \in [Conn -> BOOLEAN]
  /\ nextId \in [Conn -> 1..(MaxRequests + 1)]
  /\ awaited \in [Conn -> 0..MaxRequests]
  /\ toTask \in [Conn -> Seq(Line)]
  /\ toClient \in [Conn -> Seq(Response)]
  /\ task \in [Conn -> {"reading", "waiting", "gone"}]
  /\ current \in [Conn -> Line \union {NoLine}]
  /\ queue \in Seq([conn : Conn, kind : Kind])
  /\ slot \in [Conn -> Reply \union {"empty", "dropped"}]
  /\ loop \in {"running", "stopping", "dropped", "exited"}

(* The requests on their way: answered, being worked on, asked; oldest      *)
(* first.                                                                   *)
OnTheWay(c) ==
  [k \in DOMAIN toClient[c] |-> toClient[c][k].to]
    \o (IF task[c] = "waiting" THEN <<current[c].id>> ELSE <<>>)
    \o [k \in DOMAIN toTask[c] |-> toTask[c][k].id]

(* A response echoes its request's id, except the complaint about a line    *)
(* that could not be decoded.                                               *)
Echoes(response) ==
  \/ response.id = response.to
  \/ response.id = 0 /\ response.reply = "invalid"

(* Every request of a connection, decodable or not, is answered exactly     *)
(* once and in the order in which they were written, also when callers stop *)
(* waiting and send the next: what is on its way runs without a gap up to   *)
(* the last request sent, and a client only waits while something is.       *)
RepliesInOrder ==
  \A c \in Conn :
    open[c] /\ task[c] # "gone" =>
      /\ \A k \in DOMAIN OnTheWay(c) :
           OnTheWay(c)[k] = nextId[c] - 1 - (Len(OnTheWay(c)) - k)
      /\ awaited[c] # 0 => OnTheWay(c) # <<>>
      /\ \A k \in DOMAIN toClient[c] : Echoes(toClient[c][k])

(* A task waits for the main loop exactly while one command of its is in    *)
(* the queue or one reply, given or dropped, in its oneshot; so commands    *)
(* are neither lost between the threads nor run twice, and the queue never  *)
(* holds two of one connection.                                             *)
OneCommandPerTask ==
  \A c \in Conn :
    LET queued == {k \in DOMAIN queue : queue[k].conn = c} IN
    /\ \A j, k \in queued : j = k
    /\ queued # {} => slot[c] = "empty"
    /\ task[c] = "waiting" <=> queued # {} \/ slot[c] # "empty"

(* A client that keeps waiting gets an answer or a hangup, whatever other   *)
(* connections do and however the compositor goes down meanwhile.           *)
Answered ==
  \A c \in Conn, id \in Id : awaited[c] = id ~> awaited[c] # id
===============================================================================

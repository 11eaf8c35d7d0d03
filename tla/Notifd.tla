--------------------------------- MODULE Notifd ---------------------------------
(***************************************************************************)
(* nx-notif: D-Bus calls, each in a task of its own, hand notes through a  *)
(* bounded channel to the thread that owns the toasts.  The thread takes   *)
(* what is in the channel, dispatches Wayland events, sleeps 50 ms and     *)
(* looks for toasts whose time is over, again and again.  The ids of       *)
(* toasts that left the screen go back through a broadcast channel, which  *)
(* forgets the oldest when the relay task is slow.                         *)
(*                                                                         *)
(* Painting and the texts are left out; of a text only matters whether the *)
(* note looks like an order to close.                                      *)
(***************************************************************************)
EXTENDS Integers, FiniteSets, SequencesExt

CONSTANTS
  MaxCalls,     (* bound: method calls                                       *)
  ChannelCap,   (* 64: tokio mpsc from the calls to the thread               *)
  ClosedCap,    (* 64: broadcast from the thread to the relay                *)
  MaxVisible,   (* MAX_VISIBLE, 5                                            *)
  Timeout,      (* times on the screen, in rounds of the thread              *)
  Sticky,       (* the calls that ask for a time-out of 0, which is meant to *)
                (* be none                                                   *)
  Named         (* the ids that callers name, to replace or to close         *)

ASSUME SizesAssumption ==
  /\ MaxCalls \in Nat
  /\ ChannelCap \in Nat \ {0} /\ ClosedCap \in Nat \ {0} /\ MaxVisible \in Nat \ {0}
ASSUME TimeoutAssumption == Timeout # {} /\ Timeout \subseteq Nat \ {0}
ASSUME NamedAssumption == Named \subseteq Nat \ {0}

VARIABLES
  made,     (* calls made so far; a call is named by its number              *)
  nextId,   (* ServerInner.next_id                                           *)
  sending,  (* notes whose call waits in send                                *)
  channel,  (* the mpsc channel                                              *)
  queue,    (* WaylandThreadState.queue                                      *)
  visible,  (* WaylandThreadState.visible, each with the time it has left    *)
  closed,   (* ids in the broadcast channel                                  *)
  phase     (* the thread: draining, dispatching, sleeping, or ended         *)

vars == <<made, nextId, sending, channel, queue, visible, closed, phase>>

Call == 1..MaxCalls
Id == 1..MaxCalls \union Named
Order == 0   (* the time of a note that only closes a toast                  *)

(* How long a call's toast stays: 0 is made the shortest of times.          *)
Stay(c) == IF c \in Sticky THEN {1} ELSE Timeout
Note == [call : Call, id : Id, time : Timeout \union {1, Order}]
Toast == [call : Call, id : Id, time : Nat \ {0}]

(* The thread may fail to reach a compositor before the first call.         *)
Init ==
  /\ made = 0
  /\ nextId = 1
  /\ sending = {}
  /\ channel = <<>>
  /\ queue = <<>>
  /\ visible = <<>>
  /\ closed = <<>>
  /\ phase \in {"drain", "ended"}

-------------------------------------------------------------------------------
(* The D-Bus side.                                                          *)

Make(id, time) ==
  /\ made < MaxCalls
  /\ made' = made + 1
  /\ sending' = sending \union {[call |-> made + 1, id |-> id, time |-> time]}
  /\ UNCHANGED <<channel, queue, visible, closed, phase>>

(* The caller may name any id to replace, also one not given out yet.  A    *)
(* note without summary and body whose time-out is 0 or 1 is later taken    *)
(* for an order to close.                                                   *)
Notify ==
  \E time \in Stay(made + 1) \union {Order} :
    \/ /\ Make(nextId, time)
       /\ nextId' = nextId + 1
    \/ \E replaces \in Named : Make(replaces, time) /\ UNCHANGED nextId

CloseNotification ==
  \E id \in Named : Make(id, Order) /\ UNCHANGED nextId

(* Mutant of Send: the channel outlives the thread, so send goes on waiting. *)
SendWaits(n) ==
  /\ Len(channel) < ChannelCap
  /\ channel' = Append(channel, n)
  /\ sending' = sending \ {n}
  /\ UNCHANGED <<made, nextId, queue, visible, closed, phase>>

(* send waits for a place in the channel, and gives up when the thread has  *)
(* ended.                                                                   *)
Send(n) ==
  /\ sending' = sending \ {n}
  /\ \/ /\ phase # "ended"
        /\ Len(channel) < ChannelCap
        /\ channel' = Append(channel, n)
     \/ /\ phase = "ended"
        /\ UNCHANGED channel
  /\ UNCHANGED <<made, nextId, queue, visible, closed, phase>>

(* The relay turns an id into a NotificationClosed signal.                  *)
Relay ==
  /\ closed # <<>>
  /\ closed' = Tail(closed)
  /\ UNCHANGED <<made, nextId, sending, channel, queue, visible, phase>>

-------------------------------------------------------------------------------
(* The thread.                                                              *)

(* Mutant of Announce: the broadcast does not forget.                       *)
AnnounceAll(ids) == closed' = closed \o ids

(* broadcast::send overwrites the oldest ids, which the relay then skips.   *)
Announce(ids) ==
  LET all == closed \o ids IN
  closed' = IF Len(all) <= ClosedCap THEN all
            ELSE SubSeq(all, Len(all) - ClosedCap + 1, Len(all))

(* The first toast with the id, as a set of at most one position.           *)
Position(id) ==
  {k \in DOMAIN visible : visible[k].id = id /\ \A j \in 1..(k - 1) : visible[j].id # id}

(* Mutant of Pump: only the note that has just come is considered.          *)
PumpLast(notes) ==
  IF Len(visible) < MaxVisible
    THEN visible' = Append(visible, Last(notes)) /\ queue' = Front(notes)
    ELSE UNCHANGED visible /\ queue' = notes

(* pump_visible: the oldest notes get the free places.                      *)
Pump(notes) ==
  LET free == MaxVisible - Len(visible)
      m == IF Len(notes) < free THEN Len(notes) ELSE free
  IN
  /\ visible' = visible \o SubSeq(notes, 1, m)
  /\ queue' = SubSeq(notes, m + 1, Len(notes))

(* A note takes the place of the toast with its id, or waits for one.       *)
Enqueue(n) ==
  \/ Position(n.id) = {} /\ Pump(Append(queue, n))
  \/ \E k \in Position(n.id) :
       visible' = [visible EXCEPT ![k] = n] /\ UNCHANGED queue

(* The compositor, or an order, takes a toast away.                         *)
RemoveToast(k) ==
  /\ visible' = RemoveAt(visible, k)
  /\ Announce(<<visible[k].id>>)

(* One turn of the loop over try_recv: an order closes the toast with its   *)
(* id, if there is one on the screen; any other note is queued.             *)
Drain ==
  /\ phase = "drain"
  /\ channel # <<>>
  /\ channel' = Tail(channel)
  /\ LET n == Head(channel) IN
     \/ /\ n.time # Order
        /\ Enqueue(n)
        /\ UNCHANGED closed
     \/ /\ n.time = Order
        /\ \/ Position(n.id) = {} /\ UNCHANGED <<visible, closed>>
           \/ \E k \in Position(n.id) : RemoveToast(k)
        /\ UNCHANGED queue
  /\ UNCHANGED <<made, nextId, sending, phase>>

Drained ==
  /\ phase = "drain"
  /\ channel = <<>>
  /\ phase' = "dispatch"
  /\ UNCHANGED <<made, nextId, sending, channel, queue, visible, closed>>

(* The compositor closes a toast's layer surface.                           *)
SurfaceClosed ==
  /\ phase = "dispatch"
  /\ \E k \in DOMAIN visible : RemoveToast(k)
  /\ UNCHANGED <<made, nextId, sending, channel, queue, phase>>

Dispatched ==
  /\ phase = "dispatch"
  /\ phase' = "sleep"
  /\ UNCHANGED <<made, nextId, sending, channel, queue, visible, closed>>

(* dispatch_pending fails: the thread ends, and with it go its toasts, its  *)
(* queue and both channels.                                                 *)
DispatchFails ==
  /\ phase = "dispatch"
  /\ phase' = "ended"
  /\ channel' = <<>>
  /\ queue' = <<>>
  /\ visible' = <<>>
  /\ UNCHANGED <<made, nextId, sending, closed>>

(* Mutant of Tick: a toast lives on when its time is over exactly now.      *)
TickStrict ==
  /\ phase = "sleep"
  /\ phase' = "drain"
  /\ visible' = [k \in DOMAIN visible |->
                   [visible[k] EXCEPT !.time = IF @ > 1 THEN @ - 1 ELSE 1]]
  /\ UNCHANGED <<made, nextId, sending, channel, queue, closed>>

(* Positions in their order.                                                *)
InOrder(S) ==
  {order \in [1..Cardinality(S) -> S] : \A j, k \in DOMAIN order : j < k => order[j] < order[k]}

(* tick_timeouts after the sleep, which may take longer than asked.  The    *)
(* places it frees stay free: pump_visible is not called.                   *)
Tick ==
  /\ phase = "sleep"
  /\ phase' = "drain"
  /\ \E passed \in UNION {1..time : time \in Timeout} :
       LET timedOut == {k \in DOMAIN visible : visible[k].time <= passed} IN
       \E over \in InOrder(timedOut), left \in InOrder(DOMAIN visible \ timedOut) :
         /\ visible' = [k \in DOMAIN left |-> [visible[left[k]] EXCEPT !.time = @ - passed]]
         /\ Announce([k \in DOMAIN over |-> visible[over[k]].id])
  /\ UNCHANGED <<made, nextId, sending, channel, queue>>

Thread == Drain \/ Drained \/ Dispatched \/ Tick

Next ==
  \/ Notify \/ CloseNotification
  \/ \E n \in sending : Send(n)
  \/ Relay
  \/ Thread \/ SurfaceClosed \/ DispatchFails

Spec == Init /\ [][Next]_vars

(* The thread and the tasks run when they can.                              *)
FairSpec ==
  /\ Spec
  /\ WF_vars(Thread)
  /\ WF_vars(\E n \in sending : Send(n))
  /\ WF_vars(Relay)

-------------------------------------------------------------------------------
(* Type correctness of every variable, and the bounds of the channels and   *)
(* of the stack of toasts.                                                  *)
TypeOK ==
  /\ made \in 0..MaxCalls
  /\ nextId \in 1..(MaxCalls + 1)
  /\ sending \subseteq Note
  /\ channel \in Seq(Note) /\ Len(channel) <= ChannelCap
  /\ queue \in Seq(Note)
  /\ visible \in Seq(Toast) /\ Len(visible) <= MaxVisible
  /\ closed \in Seq(Id) /\ Len(closed) <= ClosedCap
  /\ phase \in {"drain", "dispatch", "sleep", "ended"}

Calls(notes) == [k \in DOMAIN notes |-> notes[k].call]

(* The daemon keeps the promise of Toasts: nothing that was sent disappears *)
(* between the calls, the channel, the queue and the screen, waiting        *)
(* notifications come up in order, and an arrival fills all free places.    *)
Promise ==
  INSTANCE Toasts WITH
    sent <- {n.call : n \in sending \union ToSet(channel)},
    waiting <- Calls(queue),
    shown <- ToSet(Calls(visible)),
    up <- phase # "ended"

KeepsPromise == Promise!Spec

(* Every Notify and CloseNotification returns to its caller, however full   *)
(* the channel is and also when the thread has ended (send fails then).     *)
CallsReturn ==
  \A c \in Call : (\E n \in sending : n.call = c) ~> ~\E n \in sending : n.call = c

(* A toast with a time-out does not stay for ever: its time is over, it is  *)
(* closed, or a newer version replaces it, and the thread never stops       *)
(* looking at it.  What a call of time-out 0 may expect is left out.        *)
ToastsEnd ==
  \A c \in Call \ Sticky : c \in ToSet(Calls(visible)) ~> c \notin ToSet(Calls(visible))

-------------------------------------------------------------------------------
(* main.rs: "Renders queued notifications as a stack of layer-shell         *)
(* surfaces".  A note in the queue comes to the screen, or the thread ends. *)
QueuedIsShown ==
  \A c \in Call : c \in ToSet(Calls(queue)) ~> c \notin ToSet(Calls(queue))
===============================================================================

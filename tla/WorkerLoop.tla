----------------------------- MODULE WorkerLoop -----------------------------
(***************************************************************************)
(* The way of keyboard and mouse events from RDP clients to hypervisors:   *)
(* the out_queue of RDPServerWorker, its run loop with stop and stop_mutex, *)
(* the connection map, and the receiving half of mux_mainloop at the other *)
(* end of the ZeroMQ sockets.                                              *)
(*                                                                         *)
(* Threads: RDP clients push events; the worker loop drains the queue,     *)
(* then takes one message from the ROUTER socket; each hypervisor sends    *)
(* what its display has ready, then takes one event from its DEALER        *)
(* socket.  A restarted hypervisor has a new connection; what its earlier  *)
(* one sent may still be read from the ROUTER socket, in any order.        *)
(***************************************************************************)
EXTENDS Integers, Sequences

CONSTANTS
    VMs,            \* UUIDs
    HWM,            \* high-water mark of each direction of a connection
    MaxEvents,      \* bound on the events typed
    MaxUpdates,     \* bound on the messages of all hypervisors
    MaxConnections, \* bound on the connections of a VM, one per process
    Restarting      \* the VMs whose hypervisor may be started again

ASSUME WorkerAssumption ==
    /\ HWM \in Nat \ {0}
    /\ MaxEvents \in Nat /\ MaxUpdates \in Nat /\ MaxConnections \in Nat

VARIABLES
    queue_, mutex_, \* members of MessageQueue
    pushing,        \* the event the holder of mutex_ is pushing
    stop,           \* member of RDPServerWorker, never initialised
    wpc, msg,       \* position of run() and the item it has dequeued
    connection_map, \* the connection known for each VM, 0 for none
    listed,         \* listener_map has an entry for the VM
    sigint,         \* the thread that got SIGINT, or "none"
    alive,          \* the server process
    conn,           \* number of the VM's present connection, 0 before any
    vpc,            \* position of the VM's mux_mainloop
    up, down,       \* messages in each connection, to the server and back
    typed, updates, \* counters
    (* History, for the properties only.                                   *)
    delivered,      \* events handed to the callbacks of each VM
    owed            \* events typed when the VM's connection was settled,
                    \* not delivered yet

queueVars == <<queue_, mutex_, pushing>>
vmVars == <<conn, vpc, up, down, updates, delivered>>
vars == <<queueVars, stop, wpc, msg, connection_map, listed, sigint, alive,
          vmVars, typed, owed>>

Connections == 0 .. MaxConnections
None == [vm |-> "none", n |-> 0]

(* stop is read before anything is written to it: it may have any value.   *)
Init ==
    /\ queue_ = <<>> /\ mutex_ = "free" /\ pushing = None
    /\ stop \in BOOLEAN
    /\ wpc = "top" /\ msg = None
    /\ connection_map = [v \in VMs |-> 0]
    /\ listed = [v \in VMs |-> FALSE]
    /\ sigint = "none" /\ alive = TRUE
    /\ conn = [v \in VMs |-> 0]
    /\ vpc = [v \in VMs |-> "off"]
    /\ up = [v \in VMs |-> [k \in Connections |-> 0]]
    /\ down = [v \in VMs |-> <<>>]
    /\ typed = 0 /\ updates = 0
    /\ delivered = [v \in VMs |-> <<>>]
    /\ owed = {}
-----------------------------------------------------------------------------
(* RDP clients.                                                            *)

(* The server knows the VM's present connection, and nothing of an earlier *)
(* one is left to be read.                                                 *)
Settled(v) ==
    /\ vpc[v] # "off" /\ connection_map[v] = conn[v]
    /\ \A k \in Connections : k # conn[v] => up[v][k] = 0

(* processOutgoingMessage labels an event with the UUID of its VM.         *)
QueueItem(v, n) == [vm |-> v, n |-> n]

(* rdpmux_keyboard_event and rdpmux_mouse_event, down to the push of       *)
(* MessageQueue::enqueue under its mutex.                                  *)
Enqueue(v) ==
    /\ alive /\ listed[v] /\ mutex_ = "free" /\ typed < MaxEvents
    /\ typed' = typed + 1
    /\ mutex_' = "held"
    /\ pushing' = QueueItem(v, typed')
    /\ owed' = IF Settled(v) THEN owed \cup {pushing'} ELSE owed
    /\ UNCHANGED <<queue_, stop, wpc, msg, connection_map, listed, sigint,
                   alive, vmVars>>

EnqueueEnds ==
    /\ alive /\ mutex_ = "held"
    /\ queue_' = Append(queue_, pushing)
    /\ mutex_' = "free" /\ pushing' = None
    /\ UNCHANGED <<stop, wpc, msg, connection_map, listed, sigint, alive,
                   vmVars, typed, owed>>
-----------------------------------------------------------------------------
(* RDPServerWorker::run.  stop_mutex is held through each iteration.       *)

StopMutexFree == wpc \in {"top", "done"}

WorkerFrame == UNCHANGED <<stop, sigint, alive, listed, typed, owed>>

WorkerTop ==
    /\ alive /\ wpc = "top"
    /\ wpc' = IF stop THEN "done" ELSE "drain"
    /\ UNCHANGED <<queueVars, msg, connection_map, vmVars>>
    /\ WorkerFrame

(* Mutants: the test is left out; the test is turned.                      *)
DrainUntested ==
    /\ alive /\ wpc = "drain"
    /\ wpc' \in {"dequeue", "poll"}
    /\ UNCHANGED <<queueVars, msg, connection_map, vmVars>>
    /\ WorkerFrame

DrainTurned ==
    /\ alive /\ wpc = "drain"
    /\ wpc' = IF queue_ = <<>> THEN "dequeue" ELSE "poll"
    /\ UNCHANGED <<queueVars, msg, connection_map, vmVars>>
    /\ WorkerFrame

(* isEmpty looks at the queue without the mutex: during a push it may say  *)
(* anything.                                                               *)
WorkerDrain ==
    /\ alive /\ wpc = "drain"
    /\ \E empty \in IF mutex_ = "free" THEN {queue_ = <<>>} ELSE BOOLEAN :
          wpc' = IF empty THEN "poll" ELSE "dequeue"
    /\ UNCHANGED <<queueVars, msg, connection_map, vmVars>>
    /\ WorkerFrame

(* Mutant: the item is looked at and not popped.                           *)
DequeueKeeps ==
    /\ alive /\ wpc = "dequeue" /\ mutex_ = "free" /\ queue_ # <<>>
    /\ msg' = Head(queue_)
    /\ wpc' = "send"
    /\ UNCHANGED <<queueVars, connection_map, vmVars>>
    /\ WorkerFrame

(* dequeue waits for the mutex, and on the condition while the queue is    *)
(* empty.                                                                  *)
WorkerDequeue ==
    /\ alive /\ wpc = "dequeue" /\ mutex_ = "free" /\ queue_ # <<>>
    /\ msg' = Head(queue_) /\ queue_' = Tail(queue_)
    /\ wpc' = "send"
    /\ UNCHANGED <<mutex_, pushing, connection_map, vmVars>>
    /\ WorkerFrame

Routable == connection_map[msg.vm] = conn[msg.vm] /\ vpc[msg.vm] # "off"

(* sendMessage: no connection is known, the event is dropped.              *)
SendUnknown ==
    /\ alive /\ wpc = "send" /\ connection_map[msg.vm] = 0
    /\ wpc' = "drain" /\ msg' = None
    /\ UNCHANGED <<queueVars, connection_map, vmVars>>
    /\ WorkerFrame

(* Mutant: no wait at the high-water mark.                                 *)
SendUnbounded ==
    /\ alive /\ wpc = "send" /\ connection_map[msg.vm] # 0 /\ Routable
    /\ down' = [down EXCEPT ![msg.vm] = Append(@, msg)]
    /\ wpc' = "drain" /\ msg' = None
    /\ UNCHANGED <<queueVars, connection_map, conn, vpc, up, updates, delivered>>
    /\ WorkerFrame

(* The send blocks while the connection is full.                           *)
SendRouted ==
    /\ alive /\ wpc = "send" /\ connection_map[msg.vm] # 0 /\ Routable
    /\ Len(down[msg.vm]) < HWM
    /\ down' = [down EXCEPT ![msg.vm] = Append(@, msg)]
    /\ wpc' = "drain" /\ msg' = None
    /\ UNCHANGED <<queueVars, connection_map, conn, vpc, up, updates, delivered>>
    /\ WorkerFrame

(* Mutant: the exception empties the queue.                                *)
SendUnreachableClears ==
    /\ alive /\ wpc = "send" /\ connection_map[msg.vm] # 0 /\ ~Routable
    /\ wpc' \in {"poll", "drain"} /\ msg' = None
    /\ queue_' = IF wpc' = "poll" THEN <<>> ELSE queue_
    /\ UNCHANGED <<mutex_, pushing, connection_map, vmVars>>
    /\ WorkerFrame

(* The connection is gone.  Once the ROUTER socket knows, the send throws, *)
(* and the handler leaves the drain loop; before, it takes the event to    *)
(* nowhere.                                                                *)
SendUnreachable ==
    /\ alive /\ wpc = "send" /\ connection_map[msg.vm] # 0 /\ ~Routable
    /\ wpc' \in {"poll", "drain"} /\ msg' = None
    /\ UNCHANGED <<queueVars, connection_map, vmVars>>
    /\ WorkerFrame

sendMessage == SendUnknown \/ SendRouted \/ SendUnreachable

(* One message is read and dispatched; a listed VM's connection is noted.  *)
WorkerReceive ==
    /\ alive /\ wpc = "poll"
    /\ \E v \in VMs, k \in Connections :
          /\ up[v][k] > 0
          /\ up' = [up EXCEPT ![v][k] = @ - 1]
          /\ connection_map' = IF listed[v] THEN [connection_map EXCEPT ![v] = k]
                               ELSE connection_map
    /\ wpc' = "top"
    /\ UNCHANGED <<queueVars, msg, conn, vpc, down, updates, delivered>>
    /\ WorkerFrame

WorkerTimeout ==
    /\ alive /\ wpc = "poll"
    /\ \A v \in VMs, k \in Connections : up[v][k] = 0
    /\ wpc' = "top"
    /\ UNCHANGED <<queueVars, msg, connection_map, vmVars>>
    /\ WorkerFrame

run ==
    \/ WorkerTop \/ WorkerDrain \/ WorkerDequeue \/ sendMessage
    \/ WorkerReceive \/ WorkerTimeout
-----------------------------------------------------------------------------
(* The server process.                                                     *)

(* SIGINT arrives on some thread; the handler destroys the worker, which   *)
(* takes stop_mutex.  On the worker's own thread, inside an iteration, it  *)
(* waits for itself.                                                       *)
handle_SIGINT(t) ==
    /\ alive /\ sigint = "none"
    /\ t = "worker" => wpc # "done"
    /\ sigint' = t
    /\ wpc' = IF t = "worker" /\ ~StopMutexFree THEN "hung" ELSE wpc
    /\ UNCHANGED <<queueVars, stop, msg, connection_map, listed, alive,
                   vmVars, typed, owed>>

(* ~RDPServerWorker, and the signal raised again, which ends the process.  *)
WorkerDestroyed ==
    /\ alive /\ sigint # "none" /\ StopMutexFree
    /\ stop' = TRUE /\ alive' = FALSE
    /\ UNCHANGED <<queueVars, wpc, msg, connection_map, listed, sigint,
                   vmVars, typed, owed>>

(* UnregisterVM, for whatever reason, from a listener's thread.            *)
Unlist(v) ==
    /\ alive /\ listed[v]
    /\ listed' = [listed EXCEPT ![v] = FALSE]
    /\ UNCHANGED <<queueVars, stop, wpc, msg, connection_map, sigint, alive,
                   vmVars, typed, owed>>
-----------------------------------------------------------------------------
(* Hypervisors.                                                            *)

VMFrame == UNCHANGED <<queueVars, stop, wpc, msg, connection_map, sigint,
                       alive, typed>>

(* A hypervisor process registers and connects.                            *)
Connect(v) ==
    /\ alive /\ vpc[v] = "off" /\ conn[v] < MaxConnections
    /\ conn[v] = 0 \/ v \in Restarting
    /\ conn' = [conn EXCEPT ![v] = @ + 1]
    /\ vpc' = [vpc EXCEPT ![v] = "poll"]
    /\ listed' = [listed EXCEPT ![v] = TRUE]
    /\ UNCHANGED <<up, down, updates, delivered, owed>>
    /\ VMFrame

(* It ends, wherever it is.  What it has sent can still be read.           *)
Die(v) ==
    /\ vpc[v] # "off"
    /\ vpc' = [vpc EXCEPT ![v] = "off"]
    /\ down' = [down EXCEPT ![v] = <<>>]
    /\ owed' = {e \in owed : e.vm # v}
    /\ UNCHANGED <<conn, up, updates, delivered, listed>>
    /\ VMFrame

(* out_ready, whenever the display has an update.                          *)
TakesUpdate(v) ==
    \/ vpc' = vpc /\ updates' = updates
    \/ /\ updates < MaxUpdates
       /\ vpc' = [vpc EXCEPT ![v] = "send"] /\ updates' = updates + 1

(* mux_0mq_recv_msg refuses an event for another UUID.                     *)
Accepted(v, e) == e.vm = v

(* An event is received, and mux_process_incoming_msg calls the callback   *)
(* of its type.                                                            *)
VMReceive(v) ==
    /\ vpc[v] = "poll" /\ down[v] # <<>>
    /\ down' = [down EXCEPT ![v] = Tail(@)]
    /\ delivered' = IF Accepted(v, Head(down[v]))
                    THEN [delivered EXCEPT ![v] = Append(@, Head(down[v]))]
                    ELSE delivered
    /\ owed' = owed \ {Head(down[v])}
    /\ TakesUpdate(v)
    /\ UNCHANGED <<conn, up, listed>>
    /\ VMFrame

VMTimeout(v) ==
    /\ vpc[v] = "poll" /\ down[v] = <<>>
    /\ TakesUpdate(v)
    /\ UNCHANGED <<conn, up, down, delivered, listed, owed>>
    /\ VMFrame

(* mux_0mq_send_msg blocks while the connection is full.                   *)
VMSend(v) ==
    /\ vpc[v] = "send" /\ up[v][conn[v]] < HWM
    /\ up' = [up EXCEPT ![v][conn[v]] = @ + 1]
    /\ vpc' = [vpc EXCEPT ![v] = "poll"]
    /\ UNCHANGED <<conn, down, updates, delivered, listed, owed>>
    /\ VMFrame

mux_mainloop(v) == VMReceive(v) \/ VMTimeout(v) \/ VMSend(v)

Next ==
    \/ \E v \in VMs :
          Enqueue(v) \/ Unlist(v) \/ Connect(v) \/ Die(v) \/ mux_mainloop(v)
    \/ EnqueueEnds
    \/ run
    \/ \E t \in {"main", "worker"} : handle_SIGINT(t)
    \/ WorkerDestroyed

Spec == Init /\ [][Next]_vars

(* Threads that can go on do.  Nothing makes clients type, hypervisors     *)
(* draw or restart, or signals arrive.                                     *)
FairSpec ==
    /\ Spec
    /\ WF_vars(EnqueueEnds) /\ WF_vars(run)
    /\ \A v \in VMs : WF_vars(VMReceive(v) \/ VMSend(v))
-----------------------------------------------------------------------------
(* The states each variable ranges over.                                   *)
Events == [vm : VMs, n : 1 .. MaxEvents]

TypeOK ==
    /\ queue_ \in Seq(Events)
    /\ mutex_ \in {"free", "held"} /\ pushing \in Events \cup {None}
    /\ stop \in BOOLEAN /\ alive \in BOOLEAN
    /\ wpc \in {"top", "drain", "dequeue", "send", "poll", "done", "hung"}
    /\ msg \in Events \cup {None}
    /\ connection_map \in [VMs -> Connections] /\ conn \in [VMs -> Connections]
    /\ listed \in [VMs -> BOOLEAN]
    /\ sigint \in {"none", "main", "worker"}
    /\ vpc \in [VMs -> {"off", "poll", "send"}]
    /\ up \in [VMs -> [Connections -> 0 .. HWM]]
    /\ down \in [VMs -> Seq(Events)] /\ \A v \in VMs : Len(down[v]) <= HWM
    /\ typed \in 0 .. MaxEvents /\ updates \in 0 .. MaxUpdates
    /\ delivered \in [VMs -> Seq(Events)]
    /\ owed \subseteq Events

(* What has been typed, from the callbacks of a VM back to the clients,    *)
(* and the part of it that is for the VM.                                  *)
Stream(v) == delivered[v] \o down[v] \o <<msg>> \o queue_ \o <<pushing>>

IsFor(v, e) == e # None /\ e.vm = v

(* The callbacks of a VM get the events of its clients in the order they   *)
(* were typed, none twice and none of another VM, across queue, sockets,   *)
(* failed sends and restarts of the VM.                                    *)
InputInOrder ==
    \A v \in VMs :
        /\ \A i \in DOMAIN delivered[v] : IsFor(v, delivered[v][i])
        /\ \A i, j \in DOMAIN Stream(v) :
              i < j /\ IsFor(v, Stream(v)[i]) /\ IsFor(v, Stream(v)[j])
                  => Stream(v)[i].n < Stream(v)[j].n

(* The event is in the queue or a connection, or in the hands of a thread. *)
OnItsWay(e) ==
    \/ e \in {msg, pushing}
    \/ \E i \in DOMAIN queue_ : queue_[i] = e
    \/ \E i \in DOMAIN down[e.vm] : down[e.vm][i] = e

(* An event typed when the server knew the VM's present connection, and no *)
(* message of an earlier one was left, is on its way until the VM gets it  *)
(* or ends: neither other VMs that come and go, nor their failed sends,    *)
(* nor the removal of a listener cost it.                                  *)
OwedNeverLost == \A e \in owed : OnItsWay(e)

(* The worker never waits on the queue's condition, where it would hold    *)
(* stop_mutex and read no messages: whatever isEmpty saw of a push in      *)
(* progress, dequeue finds an item.                                        *)
DequeueNeverWaits == wpc = "dequeue" => queue_ # <<>> \/ mutex_ = "held"

(* Worker and hypervisor each wait for the other to read: both send with a *)
(* blocking call and read nothing meanwhile, so with both directions at    *)
(* their high-water mark they stay so for good.                            *)
MutualBlock(v) ==
    /\ wpc = "send" /\ msg.vm = v /\ connection_map[v] # 0 /\ Routable
    /\ Len(down[v]) = HWM
    /\ vpc[v] = "send" /\ up[v][conn[v]] = HWM

(* Owed events arrive, unless their VM ends or the server is told to end:  *)
(* the one thing that can stop them for ever is that the worker and some   *)
(* hypervisor block on each other.                                         *)
InputArrives ==
    owed # {} ~> owed = {} \/ sigint # "none" \/ \E v \in VMs : MutualBlock(v)
=============================================================================

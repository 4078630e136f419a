-------------------------- MODULE WorkerLoopProofs --------------------------
(***************************************************************************)
(* Proofs about the way of input events: for every set of VMs, every       *)
(* high-water mark and every bound on events, updates and restarts.        *)
(***************************************************************************)
EXTENDS WorkerLoop, SequenceTheorems, TLAPS

(* Which thread has an event in its hands, and when: the client that holds *)
(* the mutex is pushing one, the worker has one exactly while it sends, or *)
(* for ever if SIGINT has hung it there.                                   *)
InHand ==
    /\ mutex_ = "held" <=> pushing # None
    /\ wpc = "send" => msg # None
    /\ msg # None => wpc \in {"send", "hung"}

HandsInv == TypeOK /\ InHand /\ DequeueNeverWaits

(* No event is the mark of an empty hand.                                  *)
LEMMA NoneIsNoEvent ==
    /\ None \notin Events /\ None.n = 0
    /\ \A e \in Events : e.vm \in VMs /\ e.n \in 1 .. MaxEvents
BY DEF None, Events

(* A client's push begins and ends.                                        *)
LEMMA PushKeepsHands ==
    ASSUME HandsInv, EnqueueEnds \/ \E v \in VMs : Enqueue(v)
    PROVE  HandsInv'
<1> USE WorkerAssumption, NoneIsNoEvent
<1>0. TypeOK /\ InHand /\ DequeueNeverWaits
  BY DEF HandsInv
<1>1. CASE EnqueueEnds
  <2>1. /\ mutex_ = "held" /\ mutex_' = "free" /\ pushing' = None
        /\ queue_' = Append(queue_, pushing)
        /\ UNCHANGED <<stop, wpc, msg, connection_map, listed, sigint, alive,
                       conn, vpc, up, down, updates, delivered, typed, owed>>
    BY <1>1 DEF EnqueueEnds, vmVars
  <2>2. pushing \in Events /\ queue_ \in Seq(Events)
    BY <1>0, <2>1 DEF TypeOK, InHand
  <2>3. queue_' \in Seq(Events) /\ queue_' # <<>>
    BY <2>1, <2>2, AppendProperties
  <2>4. TypeOK'
    BY <1>0, <2>1, <2>3 DEF TypeOK
  <2>5. InHand' /\ DequeueNeverWaits'
    BY <1>0, <2>1, <2>3 DEF InHand, DequeueNeverWaits
  <2> QED
    BY <2>4, <2>5 DEF HandsInv
<1>2. ASSUME NEW v \in VMs, Enqueue(v)
      PROVE  HandsInv'
  <2>1. /\ mutex_ = "free" /\ mutex_' = "held" /\ typed < MaxEvents
        /\ typed' = typed + 1 /\ pushing' = [vm |-> v, n |-> typed + 1]
        /\ owed' \subseteq owed \cup {pushing'}
        /\ UNCHANGED <<queue_, stop, wpc, msg, connection_map, listed, sigint,
                       alive, conn, vpc, up, down, updates, delivered>>
    BY <1>2 DEF Enqueue, QueueItem, vmVars
  <2>2. typed' \in 1 .. MaxEvents /\ pushing' \in Events
    BY <1>0, <2>1 DEF TypeOK, Events
  <2>3. TypeOK'
    BY <1>0, <2>1, <2>2 DEF TypeOK
  <2>4. InHand' /\ DequeueNeverWaits'
    BY <1>0, <2>1, <2>2 DEF InHand, DequeueNeverWaits
  <2> QED
    BY <2>3, <2>4 DEF HandsInv
<1> QED
  BY <1>1, <1>2

(* The worker's steps other than its sends.                                *)
LEMMA WorkerKeepsHands ==
    ASSUME HandsInv,
           \/ WorkerTop \/ WorkerDrain \/ WorkerDequeue
           \/ WorkerReceive \/ WorkerTimeout
    PROVE  HandsInv'
<1> USE WorkerAssumption, NoneIsNoEvent
<1>0. TypeOK /\ InHand /\ DequeueNeverWaits
  BY DEF HandsInv
<1>1. CASE WorkerTop \/ WorkerTimeout
  <2>1. /\ \/ wpc = "top" /\ wpc' \in {"done", "drain"}
           \/ wpc = "poll" /\ wpc' = "top"
        /\ UNCHANGED <<queue_, mutex_, pushing, stop, msg, connection_map,
                       listed, sigint, alive, conn, vpc, up, down, updates,
                       delivered, typed, owed>>
    BY <1>1 DEF WorkerTop, WorkerTimeout, WorkerFrame, queueVars, vmVars
  <2>2. TypeOK'
    BY <1>0, <2>1 DEF TypeOK
  <2>3. InHand' /\ DequeueNeverWaits'
    BY <1>0, <2>1 DEF InHand, DequeueNeverWaits
  <2> QED
    BY <2>2, <2>3 DEF HandsInv
<1>2. CASE WorkerDrain
  <2>1. /\ wpc = "drain"
        /\ \/ wpc' = "poll"
           \/ wpc' = "dequeue" /\ (mutex_ = "free" => queue_ # <<>>)
        /\ UNCHANGED <<queue_, mutex_, pushing, stop, msg, connection_map,
                       listed, sigint, alive, conn, vpc, up, down, updates,
                       delivered, typed, owed>>
    BY <1>2 DEF WorkerDrain, WorkerFrame, queueVars, vmVars
  <2>2. TypeOK'
    BY <1>0, <2>1 DEF TypeOK
  <2>3. mutex_ \in {"free", "held"}
    BY <1>0 DEF TypeOK
  <2>4. InHand' /\ DequeueNeverWaits'
    BY <1>0, <2>1, <2>3 DEF InHand, DequeueNeverWaits
  <2> QED
    BY <2>2, <2>4 DEF HandsInv
<1>3. CASE WorkerDequeue
  <2>1. /\ wpc = "dequeue" /\ wpc' = "send" /\ queue_ # <<>>
        /\ msg' = Head(queue_) /\ queue_' = Tail(queue_)
        /\ UNCHANGED <<mutex_, pushing, stop, connection_map, listed, sigint,
                       alive, conn, vpc, up, down, updates, delivered, typed,
                       owed>>
    BY <1>3 DEF WorkerDequeue, WorkerFrame, vmVars
  <2>2. queue_ \in Seq(Events)
    BY <1>0 DEF TypeOK
  <2>3. msg' \in Events /\ queue_' \in Seq(Events)
    BY <2>1, <2>2, HeadTailProperties
  <2>4. TypeOK'
    BY <1>0, <2>1, <2>3 DEF TypeOK
  <2>5. InHand' /\ DequeueNeverWaits'
    BY <1>0, <2>1, <2>3 DEF InHand, DequeueNeverWaits
  <2> QED
    BY <2>4, <2>5 DEF HandsInv
<1>4. CASE WorkerReceive
  <2>1. PICK v \in VMs, k \in Connections :
           /\ up[v][k] > 0
           /\ up' = [up EXCEPT ![v][k] = @ - 1]
           /\ connection_map' = IF listed[v]
                                THEN [connection_map EXCEPT ![v] = k]
                                ELSE connection_map
    BY <1>4 DEF WorkerReceive
  <2>2. /\ wpc = "poll" /\ wpc' = "top"
        /\ UNCHANGED <<queue_, mutex_, pushing, stop, msg, listed, sigint,
                       alive, conn, vpc, down, updates, delivered, typed,
                       owed>>
    BY <1>4 DEF WorkerReceive, WorkerFrame, queueVars
  <2>3. up' \in [VMs -> [Connections -> 0 .. HWM]]
    BY <1>0, <2>1 DEF TypeOK
  <2>4. connection_map' \in [VMs -> Connections]
    BY <1>0, <2>1 DEF TypeOK
  <2>5. TypeOK'
    BY <1>0, <2>2, <2>3, <2>4 DEF TypeOK
  <2>6. InHand' /\ DequeueNeverWaits'
    BY <1>0, <2>2 DEF InHand, DequeueNeverWaits
  <2> QED
    BY <2>5, <2>6 DEF HandsInv
<1> QED
  BY <1>1, <1>2, <1>3, <1>4

(* The worker sends, or gives up sending.                                  *)
LEMMA SendKeepsHands ==
    ASSUME HandsInv, sendMessage
    PROVE  HandsInv'
<1> USE WorkerAssumption, NoneIsNoEvent
<1>0. TypeOK /\ InHand /\ DequeueNeverWaits
  BY DEF HandsInv
<1>1. /\ wpc = "send" /\ wpc' \in {"drain", "poll"} /\ msg' = None
      /\ UNCHANGED <<queue_, mutex_, pushing, stop, connection_map, listed,
                     sigint, alive, conn, vpc, up, updates, delivered, typed,
                     owed>>
  BY DEF sendMessage, SendUnknown, SendRouted, SendUnreachable, WorkerFrame,
     queueVars, vmVars
<1>2. msg \in Events
  BY <1>0, <1>1 DEF TypeOK, InHand
<1>3. /\ down' \in [VMs -> Seq(Events)]
      /\ \A v \in VMs : Len(down'[v]) <= HWM
  <2>1. CASE down' = down
    BY <1>0, <2>1 DEF TypeOK
  <2>2. CASE /\ Len(down[msg.vm]) < HWM
             /\ down' = [down EXCEPT ![msg.vm] = Append(@, msg)]
    <3>1. msg.vm \in VMs /\ down[msg.vm] \in Seq(Events)
      BY <1>0, <1>2 DEF TypeOK
    <3>2. /\ Append(down[msg.vm], msg) \in Seq(Events)
          /\ Len(Append(down[msg.vm], msg)) = Len(down[msg.vm]) + 1
      BY <1>2, <3>1, AppendProperties
    <3>3. Len(down[msg.vm]) \in Nat
      BY <3>1, LenProperties
    <3>4. /\ down \in [VMs -> Seq(Events)] /\ HWM \in Nat
          /\ \A v \in VMs : Len(down[v]) <= HWM
      BY <1>0 DEF TypeOK
    <3>5. Len(Append(down[msg.vm], msg)) <= HWM
      BY <2>2, <3>2, <3>3, <3>4
    <3> QED
      BY <2>2, <3>1, <3>2, <3>4, <3>5
  <2> QED
    BY <2>1, <2>2 DEF sendMessage, SendUnknown, SendRouted, SendUnreachable,
       vmVars
<1>4. TypeOK'
  BY <1>0, <1>1, <1>3 DEF TypeOK
<1>5. InHand' /\ DequeueNeverWaits'
  BY <1>0, <1>1 DEF InHand, DequeueNeverWaits
<1> QED
  BY <1>4, <1>5 DEF HandsInv

(* SIGINT, the end of the server and the removal of a listener.            *)
LEMMA ServerKeepsHands ==
    ASSUME HandsInv,
           \/ \E t \in {"main", "worker"} : handle_SIGINT(t)
           \/ WorkerDestroyed
           \/ \E v \in VMs : Unlist(v)
    PROVE  HandsInv'
<1> USE WorkerAssumption, NoneIsNoEvent
<1>0. TypeOK /\ InHand /\ DequeueNeverWaits
  BY DEF HandsInv
<1>1. /\ wpc' = wpc \/ wpc' = "hung"
      /\ UNCHANGED <<queue_, mutex_, pushing, msg, connection_map, conn, vpc,
                     up, down, updates, delivered, typed, owed>>
  BY DEF handle_SIGINT, WorkerDestroyed, Unlist, queueVars, vmVars
<1>2. /\ listed' \in [VMs -> BOOLEAN]
      /\ sigint' \in {"none", "main", "worker"}
      /\ stop' \in BOOLEAN /\ alive' \in BOOLEAN
  BY <1>0 DEF TypeOK, handle_SIGINT, WorkerDestroyed, Unlist
<1>3. TypeOK'
  BY <1>0, <1>1, <1>2 DEF TypeOK
<1>4. InHand' /\ DequeueNeverWaits'
  BY <1>0, <1>1 DEF InHand, DequeueNeverWaits
<1> QED
  BY <1>3, <1>4 DEF HandsInv

LEMMA UpdateTypes ==
    ASSUME NEW v \in VMs, TakesUpdate(v),
           vpc \in [VMs -> {"off", "poll", "send"}],
           updates \in 0 .. MaxUpdates
    PROVE  /\ vpc' \in [VMs -> {"off", "poll", "send"}]
           /\ updates' \in 0 .. MaxUpdates
<1>1. CASE vpc' = vpc /\ updates' = updates
  BY <1>1
<1>2. CASE /\ updates < MaxUpdates /\ updates' = updates + 1
           /\ vpc' = [vpc EXCEPT ![v] = "send"]
  <2>1. updates' \in 0 .. MaxUpdates
    BY <1>2, WorkerAssumption
  <2>2. vpc' \in [VMs -> {"off", "poll", "send"}]
    BY <1>2
  <2> QED
    BY <2>1, <2>2
<1> QED
  BY <1>1, <1>2 DEF TakesUpdate

(* The steps of a hypervisor.                                              *)
LEMMA VMKeepsHands ==
    ASSUME HandsInv, NEW v \in VMs, Connect(v) \/ Die(v) \/ mux_mainloop(v)
    PROVE  HandsInv'
<1> USE WorkerAssumption, NoneIsNoEvent
<1>0. TypeOK /\ InHand /\ DequeueNeverWaits
  BY DEF HandsInv
<1>1. UNCHANGED <<queue_, mutex_, pushing, stop, wpc, msg, connection_map,
                  sigint, alive, typed>>
  BY DEF Connect, Die, mux_mainloop, VMReceive, VMTimeout, VMSend, VMFrame,
     queueVars
<1>2. InHand' /\ DequeueNeverWaits'
  BY <1>0, <1>1 DEF InHand, DequeueNeverWaits
<1>3. CASE Connect(v)
  <2>1. /\ conn[v] < MaxConnections
        /\ conn' = [conn EXCEPT ![v] = @ + 1]
        /\ vpc' = [vpc EXCEPT ![v] = "poll"]
        /\ listed' = [listed EXCEPT ![v] = TRUE]
        /\ UNCHANGED <<up, down, updates, delivered, owed>>
    BY <1>3 DEF Connect
  <2>2. conn' \in [VMs -> Connections]
    BY <1>0, <2>1 DEF TypeOK, Connections
  <2> QED
    BY <1>0, <1>1, <1>2, <2>1, <2>2 DEF TypeOK, HandsInv
<1>4. CASE Die(v)
  <2>1. /\ vpc' = [vpc EXCEPT ![v] = "off"]
        /\ down' = [down EXCEPT ![v] = <<>>]
        /\ owed' \subseteq owed
        /\ UNCHANGED <<conn, up, updates, delivered, listed>>
    BY <1>4 DEF Die
  <2>2. <<>> \in Seq(Events) /\ Len(<<>>) = 0
    BY EmptySeq
  <2>3. /\ down' \in [VMs -> Seq(Events)]
        /\ \A w \in VMs : Len(down'[w]) <= HWM
    BY <1>0, <2>1, <2>2 DEF TypeOK
  <2> QED
    BY <1>0, <1>1, <1>2, <2>1, <2>3 DEF TypeOK, HandsInv
<1>5. CASE VMReceive(v)
  <2>1. /\ down[v] # <<>>
        /\ down' = [down EXCEPT ![v] = Tail(@)]
        /\ \/ delivered' = [delivered EXCEPT ![v] = Append(@, Head(down[v]))]
           \/ delivered' = delivered
        /\ owed' \subseteq owed
        /\ UNCHANGED <<conn, up, listed>>
    BY <1>5 DEF VMReceive
  <2>2. /\ vpc' \in [VMs -> {"off", "poll", "send"}]
        /\ updates' \in 0 .. MaxUpdates
    BY <1>0, <1>5, UpdateTypes DEF VMReceive, TypeOK
  <2>3. down[v] \in Seq(Events) /\ delivered[v] \in Seq(Events)
    BY <1>0 DEF TypeOK
  <2>4. /\ Head(down[v]) \in Events /\ Tail(down[v]) \in Seq(Events)
        /\ Len(Tail(down[v])) = Len(down[v]) - 1
        /\ Len(down[v]) \in Nat
    BY <2>1, <2>3, HeadTailProperties, LenProperties
  <2>5. Append(delivered[v], Head(down[v])) \in Seq(Events)
    BY <2>3, <2>4, AppendProperties
  <2>6. /\ down' \in [VMs -> Seq(Events)]
        /\ \A w \in VMs : Len(down'[w]) <= HWM
    <3>1. /\ down \in [VMs -> Seq(Events)] /\ HWM \in Nat
          /\ \A w \in VMs : Len(down[w]) <= HWM
      BY <1>0 DEF TypeOK
    <3>2. Len(Tail(down[v])) <= HWM
      BY <2>4, <3>1
    <3> QED
      BY <2>1, <2>4, <3>1, <3>2
  <2>7. delivered' \in [VMs -> Seq(Events)]
    BY <1>0, <2>1, <2>5 DEF TypeOK
  <2> QED
    BY <1>0, <1>1, <1>2, <2>1, <2>2, <2>6, <2>7 DEF TypeOK, HandsInv
<1>6. CASE VMTimeout(v)
  <2>1. UNCHANGED <<conn, up, down, delivered, listed, owed>>
    BY <1>6 DEF VMTimeout
  <2>2. /\ vpc' \in [VMs -> {"off", "poll", "send"}]
        /\ updates' \in 0 .. MaxUpdates
    BY <1>0, <1>6, UpdateTypes DEF VMTimeout, TypeOK
  <2> QED
    BY <1>0, <1>1, <1>2, <2>1, <2>2 DEF TypeOK, HandsInv
<1>7. CASE VMSend(v)
  <2>1. /\ up[v][conn[v]] < HWM
        /\ up' = [up EXCEPT ![v][conn[v]] = @ + 1]
        /\ vpc' = [vpc EXCEPT ![v] = "poll"]
        /\ UNCHANGED <<conn, down, updates, delivered, listed, owed>>
    BY <1>7 DEF VMSend
  <2>2. up' \in [VMs -> [Connections -> 0 .. HWM]]
    <3>1. /\ up \in [VMs -> [Connections -> 0 .. HWM]]
          /\ conn[v] \in Connections
      BY <1>0 DEF TypeOK
    <3>2. up[v][conn[v]] + 1 \in 0 .. HWM
      BY <2>1, <3>1
    <3>3. [up[v] EXCEPT ![conn[v]] = @ + 1] \in [Connections -> 0 .. HWM]
      BY <3>1, <3>2
    <3> QED
      BY <2>1, <3>1, <3>3
  <2> QED
    BY <1>0, <1>1, <1>2, <2>1, <2>2 DEF TypeOK, HandsInv
<1> QED
  BY <1>3, <1>4, <1>5, <1>6, <1>7 DEF mux_mainloop

LEMMA InitHands == Init => HandsInv
<1> SUFFICES ASSUME Init PROVE HandsInv
  OBVIOUS
<1> USE WorkerAssumption, NoneIsNoEvent
<1>1. <<>> \in Seq(Events) /\ Len(<<>>) = 0
  BY EmptySeq
<1>2. TypeOK
  BY <1>1 DEF Init, TypeOK, Connections
<1> QED
  BY <1>2 DEF Init, HandsInv, InHand, DequeueNeverWaits

LEMMA NextHands == HandsInv /\ [Next]_vars => HandsInv'
<1> SUFFICES ASSUME HandsInv, [Next]_vars PROVE HandsInv'
  OBVIOUS
<1>1. CASE UNCHANGED vars
  BY <1>1 DEF vars, queueVars, vmVars, HandsInv, TypeOK, InHand,
     DequeueNeverWaits
<1>2. CASE Next
  BY <1>2, PushKeepsHands, WorkerKeepsHands, SendKeepsHands, ServerKeepsHands,
     VMKeepsHands
  DEF Next, run
<1> QED
  BY <1>1, <1>2

LEMMA HandsAlways == Spec => []HandsInv
BY InitHands, NextHands, PTL DEF Spec

(* Every variable keeps its type; above all, no connection ever holds more *)
(* than its high-water mark in either direction.                           *)
THEOREM WorkerTypes == Spec => []TypeOK
<1>1. HandsInv => TypeOK
  BY DEF HandsInv
<1> QED
  BY <1>1, HandsAlways, PTL

(* The worker never waits on the condition of an empty queue: the isEmpty  *)
(* it calls without the mutex can be wrong only while a push is going on.  *)
THEOREM NeverWaitsOnEmptyQueue == Spec => []DequeueNeverWaits
<1>1. HandsInv => DequeueNeverWaits
  BY DEF HandsInv
<1> QED
  BY <1>1, HandsAlways, PTL
(* Events have the numbers of the order in which they were typed, and each *)
(* stage of their way is ahead of the ones behind it, whatever the VM.     *)
Rising(s) == \A i, j \in DOMAIN s : i < j => s[i].n < s[j].n

Below(s, n) == \A i \in DOMAIN s : s[i].n < n

OwnEvents ==
    \A v \in VMs :
        /\ \A i \in DOMAIN delivered[v] : delivered[v][i].vm = v
        /\ \A i \in DOMAIN down[v] : down[v][i].vm = v

StagesRise ==
    /\ Rising(queue_)
    /\ \A v \in VMs :
          /\ Rising(delivered[v]) /\ Rising(down[v])
          /\ \A i \in DOMAIN down[v] : Below(delivered[v], down[v][i].n)

AheadOf(n) == \A v \in VMs : Below(delivered[v], n) /\ Below(down[v], n)

StagesInTurn ==
    /\ msg # None => AheadOf(msg.n)
    /\ \A i \in DOMAIN queue_ : AheadOf(queue_[i].n) /\ msg.n < queue_[i].n
    /\ pushing # None =>
          /\ pushing.n = typed
          /\ AheadOf(typed) /\ msg.n < typed /\ Below(queue_, typed)
    /\ AheadOf(typed + 1) /\ msg.n <= typed /\ Below(queue_, typed + 1)

OrderInv == HandsInv /\ OwnEvents /\ StagesRise /\ StagesInTurn

-----------------------------------------------------------------------------
(* The kinds of steps, as far as the events on their way are concerned.    *)
Types(v) ==
    /\ pushing = None /\ pushing' = [vm |-> v, n |-> typed + 1]
    /\ typed' = typed + 1
    /\ UNCHANGED <<delivered, down, msg, queue_>>

Pushes ==
    /\ pushing # None /\ pushing' = None
    /\ queue_' = Append(queue_, pushing)
    /\ UNCHANGED <<delivered, down, msg, typed>>

Takes ==
    /\ queue_ # <<>> /\ msg' = Head(queue_) /\ queue_' = Tail(queue_)
    /\ UNCHANGED <<delivered, down, pushing, typed>>

Drops ==
    msg' = None /\ UNCHANGED <<delivered, down, queue_, pushing, typed>>

Sends ==
    /\ msg # None /\ msg' = None
    /\ down' = [down EXCEPT ![msg.vm] = Append(@, msg)]
    /\ UNCHANGED <<delivered, queue_, pushing, typed>>

Flushes(v) ==
    /\ down' = [down EXCEPT ![v] = <<>>]
    /\ UNCHANGED <<delivered, msg, queue_, pushing, typed>>

Gets(v) ==
    /\ down[v] # <<>> /\ down' = [down EXCEPT ![v] = Tail(@)]
    /\ \/ delivered' = [delivered EXCEPT ![v] = Append(@, Head(down[v]))]
       \/ delivered' = delivered
    /\ UNCHANGED <<msg, queue_, pushing, typed>>

Rests == UNCHANGED <<delivered, down, msg, queue_, pushing, typed>>

FlowStep ==
    \/ \E v \in VMs : Types(v) \/ Flushes(v) \/ Gets(v)
    \/ Pushes \/ Takes \/ Drops \/ Sends \/ Rests

(* Every step of the system is of one of these kinds.                      *)
LEMMA StepsOfFlow == HandsInv /\ [Next]_vars => FlowStep
<1> SUFFICES ASSUME HandsInv, [Next]_vars PROVE FlowStep
  OBVIOUS
<1>0. InHand
  BY DEF HandsInv
<1>1. CASE UNCHANGED vars
  BY <1>1 DEF vars, queueVars, vmVars, FlowStep, Rests
<1>2. CASE EnqueueEnds
  BY <1>0, <1>2 DEF EnqueueEnds, InHand, vmVars, FlowStep, Pushes
<1>3. ASSUME NEW v \in VMs, Enqueue(v) PROVE FlowStep
  <2>1. mutex_ = "free" /\ mutex_ # "held"
    BY <1>3 DEF Enqueue
  <2> QED
    BY <1>0, <1>3, <2>1 DEF Enqueue, InHand, QueueItem, vmVars, FlowStep, Types
<1>4. CASE WorkerDequeue
  BY <1>4 DEF WorkerDequeue, WorkerFrame, vmVars, FlowStep, Takes
<1>5. CASE SendUnknown \/ SendUnreachable
  BY <1>5 DEF SendUnknown, SendUnreachable, WorkerFrame, queueVars, vmVars,
     FlowStep, Drops
<1>6. CASE SendRouted
  BY <1>0, <1>6 DEF SendRouted, InHand, WorkerFrame, queueVars, FlowStep, Sends
<1>7. CASE WorkerTop \/ WorkerDrain \/ WorkerReceive \/ WorkerTimeout
  BY <1>7 DEF WorkerTop, WorkerDrain, WorkerReceive, WorkerTimeout,
     WorkerFrame, queueVars, vmVars, FlowStep, Rests
<1>8. CASE \/ \E t \in {"main", "worker"} : handle_SIGINT(t)
           \/ WorkerDestroyed
           \/ \E v \in VMs : Unlist(v)
  BY <1>8 DEF handle_SIGINT, WorkerDestroyed, Unlist, queueVars, vmVars,
     FlowStep, Rests
<1>9. ASSUME NEW v \in VMs, Connect(v) \/ VMTimeout(v) \/ VMSend(v)
      PROVE  FlowStep
  BY <1>9 DEF Connect, VMTimeout, VMSend, VMFrame, queueVars, FlowStep, Rests
<1>10. ASSUME NEW v \in VMs, Die(v) PROVE FlowStep
  BY <1>10 DEF Die, VMFrame, queueVars, FlowStep, Flushes
<1>11. ASSUME NEW v \in VMs, VMReceive(v) PROVE FlowStep
  BY <1>11 DEF VMReceive, VMFrame, queueVars, FlowStep, Gets
<1> QED
  BY <1>1, <1>2, <1>3, <1>4, <1>5, <1>6, <1>7, <1>8, <1>9, <1>10, <1>11
  DEF Next, run, sendMessage, mux_mainloop
-----------------------------------------------------------------------------
(* Events on their way have positive numbers, an empty hand has 0.         *)
LEMMA Numbers ==
    ASSUME TypeOK
    PROVE  /\ typed \in Nat /\ msg.n \in Nat /\ pushing.n \in Nat
           /\ pushing # None => 0 < pushing.n
           /\ \A i \in DOMAIN queue_ : queue_[i].n \in Nat /\ 0 < queue_[i].n
<1> USE NoneIsNoEvent
<1>1. /\ typed \in 0 .. MaxEvents /\ msg \in Events \cup {None}
      /\ pushing \in Events \cup {None} /\ queue_ \in Seq(Events)
  BY DEF TypeOK
<1>2. \A e \in Events : e.n \in Nat /\ 0 < e.n
  BY WorkerAssumption
<1>3. \A i \in DOMAIN queue_ : queue_[i] \in Events
  BY <1>1, ElementOfSeq, LenProperties
<1>4. msg.n \in Nat
  BY <1>1, <1>2
<1>5. pushing.n \in Nat /\ (pushing # None => 0 < pushing.n)
  BY <1>1, <1>2
<1> QED
  BY <1>1, <1>2, <1>3, <1>4, <1>5

(* What appending an element and taking the first one do to Rising, Below  *)
(* and a property of all elements.                                         *)
LEMMA AppendRises ==
    ASSUME NEW s \in Seq(Events), NEW e \in Events
    PROVE  /\ DOMAIN Append(s, e) = 1 .. Len(s) + 1 /\ DOMAIN s = 1 .. Len(s)
           /\ Len(s) \in Nat
           /\ \A i \in 1 .. Len(s) : Append(s, e)[i] = s[i] /\ s[i].n \in Nat
           /\ Append(s, e)[Len(s) + 1] = e
           /\ Rising(s) /\ Below(s, e.n) => Rising(Append(s, e))
           /\ \A n \in Nat : Below(s, n) /\ e.n < n => Below(Append(s, e), n)
<1>1. /\ Append(s, e) \in Seq(Events) /\ Len(Append(s, e)) = Len(s) + 1
      /\ \A i \in 1 .. Len(s) : Append(s, e)[i] = s[i]
      /\ Append(s, e)[Len(s) + 1] = e
  BY AppendProperties
<1>2. /\ DOMAIN Append(s, e) = 1 .. Len(s) + 1 /\ DOMAIN s = 1 .. Len(s)
      /\ Len(s) \in Nat
  BY <1>1, LenProperties
<1>3. /\ e.n \in Nat
      /\ \A i \in 1 .. Len(s) : s[i].n \in Nat
  BY ElementOfSeq, NoneIsNoEvent
<1>4. ASSUME Rising(s), Below(s, e.n) PROVE Rising(Append(s, e))
  BY <1>1, <1>2, <1>3, <1>4 DEF Rising, Below
<1>5. ASSUME NEW n \in Nat, Below(s, n), e.n < n
      PROVE  Below(Append(s, e), n)
  BY <1>1, <1>2, <1>3, <1>5 DEF Below
<1> QED
  BY <1>1, <1>2, <1>3, <1>4, <1>5

LEMMA AppendHolds ==
    ASSUME NEW s \in Seq(Events), NEW e \in Events,
           NEW t, t = Append(s, e)
    PROVE  /\ \E i \in DOMAIN t : t[i] = e
           /\ \A i \in DOMAIN s : i \in DOMAIN t /\ t[i] = s[i]
<1>1. /\ DOMAIN t = 1 .. Len(s) + 1 /\ DOMAIN s = 1 .. Len(s)
      /\ Len(s) \in Nat /\ t[Len(s) + 1] = e
      /\ \A i \in 1 .. Len(s) : t[i] = s[i]
  BY AppendRises
<1>2. Len(s) + 1 \in DOMAIN t
  BY <1>1
<1> QED
  BY <1>1, <1>2

LEMMA TailRises ==
    ASSUME NEW s \in Seq(Events), s # <<>>
    PROVE  /\ Head(s) \in Events /\ 1 \in DOMAIN s /\ Head(s) = s[1]
           /\ \A i \in DOMAIN Tail(s) :
                 i + 1 \in DOMAIN s /\ Tail(s)[i] = s[i + 1] /\ i + 1 > 1
           /\ \A i \in DOMAIN s :
                 s[i] = Head(s) \/ \E j \in DOMAIN Tail(s) : Tail(s)[j] = s[i]
           /\ Rising(s) =>
                 /\ Rising(Tail(s))
                 /\ \A i \in DOMAIN Tail(s) : Head(s).n < Tail(s)[i].n
           /\ \A n \in Nat : Below(s, n) => Below(Tail(s), n) /\ Head(s).n < n
<1>1. /\ Head(s) \in Events /\ Tail(s) \in Seq(Events)
      /\ Len(Tail(s)) = Len(s) - 1
      /\ \A i \in 1 .. Len(Tail(s)) : Tail(s)[i] = s[i + 1]
  BY HeadTailProperties
<1>2. /\ DOMAIN Tail(s) = 1 .. Len(s) - 1 /\ DOMAIN s = 1 .. Len(s)
      /\ Len(s) \in Nat /\ Len(s) > 0 /\ Head(s) = s[1]
  BY <1>1, LenProperties, EmptySeq
<1>3. \A i \in DOMAIN Tail(s) :
         i \in Int /\ i + 1 \in DOMAIN s /\ Tail(s)[i] = s[i + 1] /\ i + 1 > 1
  BY <1>1, <1>2
<1>4. ASSUME NEW i \in DOMAIN s, i # 1
      PROVE  \E j \in DOMAIN Tail(s) : Tail(s)[j] = s[i]
  <2>1. i - 1 \in DOMAIN Tail(s) /\ (i - 1) + 1 = i
    BY <1>2, <1>4
  <2> QED
    BY <1>3, <2>1
<1>5. ASSUME Rising(s)
      PROVE  /\ Rising(Tail(s))
             /\ \A i \in DOMAIN Tail(s) : Head(s).n < Tail(s)[i].n
  BY <1>2, <1>3, <1>5 DEF Rising
<1>6. ASSUME NEW n \in Nat, Below(s, n)
      PROVE  Below(Tail(s), n) /\ Head(s).n < n
  BY <1>2, <1>3, <1>6 DEF Below
<1> QED
  BY <1>1, <1>2, <1>3, <1>4, <1>5, <1>6

(* A client types: the new event is behind all others.                     *)
LEMMA TypesInOrder ==
    ASSUME OrderInv, NEW v \in VMs, Types(v), TypeOK'
    PROVE  OwnEvents' /\ StagesRise' /\ StagesInTurn'
<1> USE NoneIsNoEvent
<1>0. TypeOK /\ OwnEvents /\ StagesRise /\ StagesInTurn
  BY DEF OrderInv, HandsInv
<1>1. /\ pushing' = [vm |-> v, n |-> typed + 1] /\ typed' = typed + 1
      /\ UNCHANGED <<delivered, down, msg, queue_>>
  BY DEF Types
<1>2. OwnEvents' /\ StagesRise'
  BY <1>0, <1>1 DEF OwnEvents, StagesRise
<1>3. typed \in Nat /\ msg.n \in Nat
  BY <1>0, Numbers
<1>4. ASSUME NEW s \in Seq(Events), Below(s, typed + 1)
      PROVE  Below(s, typed' + 1)
  <2>1. \A i \in DOMAIN s : s[i].n \in Nat
    BY ElementOfSeq, LenProperties
  <2> QED
    BY <1>1, <1>3, <1>4, <2>1 DEF Below
<1>5. queue_ \in Seq(Events)
      /\ \A w \in VMs : delivered[w] \in Seq(Events) /\ down[w] \in Seq(Events)
  BY <1>0 DEF TypeOK
<1>6. AheadOf(typed + 1) /\ msg.n <= typed /\ Below(queue_, typed + 1)
  BY <1>0 DEF StagesInTurn
<1>7. AheadOf(typed + 1)' /\ (msg.n <= typed)' /\ Below(queue_, typed + 1)'
  BY <1>1, <1>3, <1>4, <1>5, <1>6 DEF AheadOf
<1>8. /\ pushing'.n = typed' /\ AheadOf(typed)' /\ (msg.n < typed)'
      /\ Below(queue_, typed)'
  BY <1>1, <1>3, <1>6 DEF AheadOf
<1>9. /\ (msg # None => AheadOf(msg.n))'
      /\ (\A i \in DOMAIN queue_ :
              AheadOf(queue_[i].n) /\ msg.n < queue_[i].n)'
  BY <1>0, <1>1 DEF StagesInTurn, AheadOf
<1> QED
  BY <1>2, <1>7, <1>8, <1>9 DEF StagesInTurn

(* The push ends: the event is the last of the queue.                      *)
LEMMA PushesInOrder ==
    ASSUME OrderInv, Pushes, TypeOK'
    PROVE  OwnEvents' /\ StagesRise' /\ StagesInTurn'
<1> USE NoneIsNoEvent
<1>0. TypeOK /\ OwnEvents /\ StagesRise /\ StagesInTurn
  BY DEF OrderInv, HandsInv
<1>1. /\ pushing # None /\ pushing' = None
      /\ queue_' = Append(queue_, pushing)
      /\ UNCHANGED <<delivered, down, msg, typed>>
  BY DEF Pushes
<1>2. pushing \in Events /\ queue_ \in Seq(Events) /\ typed + 1 \in Nat
      /\ typed \in Nat
  BY <1>0, <1>1 DEF TypeOK
<1>3. /\ pushing.n = typed /\ AheadOf(typed) /\ msg.n < typed
      /\ Below(queue_, typed)
      /\ \A i \in DOMAIN queue_ : AheadOf(queue_[i].n) /\ msg.n < queue_[i].n
      /\ AheadOf(typed + 1) /\ msg.n <= typed /\ Below(queue_, typed + 1)
      /\ msg # None => AheadOf(msg.n)
  BY <1>0, <1>1 DEF StagesInTurn
<1>4. /\ Rising(queue_') /\ Below(queue_', typed + 1)
      /\ \A i \in DOMAIN queue_' : i \in DOMAIN queue_ \/ queue_'[i] = pushing
      /\ \A i \in DOMAIN queue_ : queue_'[i] = queue_[i]
  <2>1. Rising(queue_) /\ pushing.n < typed + 1
    BY <1>0, <1>2, <1>3 DEF StagesRise
  <2> QED
    BY <1>1, <1>2, <1>3, <2>1, AppendRises
<1>5. OwnEvents' /\ StagesRise'
  BY <1>0, <1>1, <1>4 DEF OwnEvents, StagesRise
<1>6. (\A i \in DOMAIN queue_ : AheadOf(queue_[i].n) /\ msg.n < queue_[i].n)'
  BY <1>1, <1>3, <1>4 DEF AheadOf
<1>7. /\ AheadOf(typed + 1)' /\ (msg.n <= typed)' /\ Below(queue_, typed + 1)'
      /\ (msg # None => AheadOf(msg.n))'
  BY <1>1, <1>3, <1>4 DEF AheadOf
<1> QED
  BY <1>1, <1>5, <1>6, <1>7 DEF StagesInTurn

(* The worker takes the first event of the queue.                          *)
LEMMA TakesInOrder ==
    ASSUME OrderInv, Takes, TypeOK'
    PROVE  OwnEvents' /\ StagesRise' /\ StagesInTurn'
<1> USE NoneIsNoEvent
<1>0. TypeOK /\ OwnEvents /\ StagesRise /\ StagesInTurn
  BY DEF OrderInv, HandsInv
<1>1. /\ queue_ # <<>> /\ msg' = Head(queue_) /\ queue_' = Tail(queue_)
      /\ UNCHANGED <<delivered, down, pushing, typed>>
  BY DEF Takes
<1>2. queue_ \in Seq(Events) /\ typed \in Nat /\ typed + 1 \in Nat
  BY <1>0 DEF TypeOK
<1>3. /\ \A i \in DOMAIN queue_ : AheadOf(queue_[i].n)
      /\ pushing # None => /\ pushing.n = typed
                           /\ AheadOf(typed) /\ Below(queue_, typed)
      /\ AheadOf(typed + 1) /\ Below(queue_, typed + 1)
  BY <1>0 DEF StagesInTurn
<1>4. /\ msg' \in Events /\ 1 \in DOMAIN queue_ /\ msg' = queue_[1]
      /\ \A i \in DOMAIN queue_' :
            i + 1 \in DOMAIN queue_ /\ queue_'[i] = queue_[i + 1]
  BY <1>1, <1>2, TailRises
<1>5. /\ Rising(queue_') /\ \A i \in DOMAIN queue_' : msg'.n < queue_'[i].n
      /\ \A n \in Nat : Below(queue_, n) => Below(queue_', n) /\ msg'.n < n
  BY <1>0, <1>1, <1>2, TailRises DEF StagesRise
<1>6. OwnEvents' /\ StagesRise'
  BY <1>0, <1>1, <1>5 DEF OwnEvents, StagesRise
<1>7. (msg # None => AheadOf(msg.n))'
  BY <1>1, <1>3, <1>4 DEF AheadOf
<1>8. (\A i \in DOMAIN queue_ : AheadOf(queue_[i].n) /\ msg.n < queue_[i].n)'
  BY <1>1, <1>3, <1>4, <1>5 DEF AheadOf
<1>9. (pushing # None =>
          /\ pushing.n = typed
          /\ AheadOf(typed) /\ msg.n < typed /\ Below(queue_, typed))'
  BY <1>1, <1>2, <1>3, <1>5 DEF AheadOf
<1>10. (AheadOf(typed + 1) /\ msg.n <= typed /\ Below(queue_, typed + 1))'
  <2>1. msg'.n < typed + 1 /\ Below(queue_', typed + 1)
    BY <1>2, <1>3, <1>5
  <2>2. msg'.n \in Nat
    BY <1>4
  <2> QED
    BY <1>1, <1>2, <1>3, <2>1, <2>2 DEF AheadOf
<1> QED
  BY <1>6, <1>7, <1>8, <1>9, <1>10 DEF StagesInTurn

(* The worker has nothing in hand any more: the event is dropped, or was   *)
(* appended to the connection of its VM.                                   *)
LEMMA DropsInOrder ==
    ASSUME OrderInv, Drops
    PROVE  OwnEvents' /\ StagesRise' /\ StagesInTurn'
<1> USE NoneIsNoEvent
<1>0. TypeOK /\ OwnEvents /\ StagesRise /\ StagesInTurn
  BY DEF OrderInv, HandsInv
<1>1. msg' = None /\ UNCHANGED <<delivered, down, queue_, pushing, typed>>
  BY DEF Drops
<1>2. /\ msg'.n = 0 /\ typed \in Nat
      /\ \A i \in DOMAIN queue_ : queue_[i].n \in 1 .. MaxEvents
      /\ pushing # None => pushing.n \in 1 .. MaxEvents
  BY <1>0, <1>1, ElementOfSeq, LenProperties DEF TypeOK
<1>3. OwnEvents' /\ StagesRise'
  BY <1>0, <1>1 DEF OwnEvents, StagesRise
<1>4. (\A i \in DOMAIN queue_ : AheadOf(queue_[i].n) /\ msg.n < queue_[i].n)'
  BY <1>0, <1>1, <1>2 DEF StagesInTurn, AheadOf
<1>5. (pushing # None =>
          /\ pushing.n = typed
          /\ AheadOf(typed) /\ msg.n < typed /\ Below(queue_, typed))'
  BY <1>0, <1>1, <1>2 DEF StagesInTurn, AheadOf
<1>6. (AheadOf(typed + 1) /\ msg.n <= typed /\ Below(queue_, typed + 1))'
  BY <1>0, <1>1, <1>2 DEF StagesInTurn, AheadOf
<1> QED
  BY <1>1, <1>3, <1>4, <1>5, <1>6 DEF StagesInTurn

LEMMA SendsInOrder ==
    ASSUME OrderInv, Sends
    PROVE  OwnEvents' /\ StagesRise' /\ StagesInTurn'
<1> USE NoneIsNoEvent
<1>0. TypeOK /\ OwnEvents /\ StagesRise /\ StagesInTurn
  BY DEF OrderInv, HandsInv
<1>1. /\ msg # None /\ msg' = None
      /\ down' = [down EXCEPT ![msg.vm] = Append(@, msg)]
      /\ UNCHANGED <<delivered, queue_, pushing, typed>>
  BY DEF Sends
<1>2. PICK w \in VMs : w = msg.vm
  BY <1>0, <1>1 DEF TypeOK
<1>3. /\ msg \in Events /\ down \in [VMs -> Seq(Events)]
      /\ down[w] \in Seq(Events) /\ typed \in Nat
  BY <1>0, <1>1 DEF TypeOK
<1>4. /\ down'[w] = Append(down[w], msg)
      /\ \A v \in VMs \ {w} : down'[v] = down[v]
  BY <1>1, <1>2, <1>3
<1>5. AheadOf(msg.n)
  BY <1>0, <1>1 DEF StagesInTurn
<1>6. /\ Rising(down'[w])
      /\ \A i \in DOMAIN down'[w] :
            \/ i \in DOMAIN down[w] /\ down'[w][i] = down[w][i]
            \/ down'[w][i] = msg
      /\ \A n \in Nat : Below(down[w], n) /\ msg.n < n => Below(down'[w], n)
  <2>1. Rising(down[w]) /\ Below(down[w], msg.n)
    BY <1>0, <1>5 DEF StagesRise, AheadOf
  <2> QED
    BY <1>3, <1>4, <2>1, AppendRises
<1>7. OwnEvents'
  BY <1>0, <1>1, <1>2, <1>4, <1>6 DEF OwnEvents
<1>8. StagesRise'
  <2>1. ASSUME NEW v \in VMs
        PROVE  /\ Rising(delivered[v]) /\ Rising(down'[v])
               /\ \A i \in DOMAIN down'[v] : Below(delivered[v], down'[v][i].n)
    <3>1. CASE v = w
      BY <1>0, <1>5, <1>6, <3>1 DEF StagesRise, AheadOf
    <3>2. CASE v # w
      BY <1>0, <1>4, <3>2 DEF StagesRise
    <3> QED
      BY <3>1, <3>2
  <2> QED
    BY <1>0, <1>1, <2>1 DEF StagesRise
<1>9. ASSUME NEW n \in Nat, AheadOf(n), msg.n < n
      PROVE  \A v \in VMs : Below(delivered[v], n) /\ Below(down'[v], n)
  BY <1>4, <1>6, <1>9 DEF AheadOf
<1>10. /\ \A i \in DOMAIN queue_ : queue_[i].n \in Nat /\ 0 < queue_[i].n
       /\ pushing # None => pushing.n \in Nat /\ 0 < pushing.n
       /\ msg.n \in Nat /\ msg'.n = 0
  BY <1>0, <1>1, Numbers
<1>11. (\A i \in DOMAIN queue_ : AheadOf(queue_[i].n) /\ msg.n < queue_[i].n)'
  BY <1>0, <1>1, <1>9, <1>10 DEF StagesInTurn, AheadOf
<1>12. (pushing # None =>
           /\ pushing.n = typed
           /\ AheadOf(typed) /\ msg.n < typed /\ Below(queue_, typed))'
  <2>1. pushing # None => /\ pushing.n = typed /\ AheadOf(typed)
                          /\ msg.n < typed /\ Below(queue_, typed)
    BY <1>0 DEF StagesInTurn
  <2> QED
    BY <1>1, <1>9, <1>10, <2>1 DEF AheadOf
<1>13. (AheadOf(typed + 1) /\ msg.n <= typed /\ Below(queue_, typed + 1))'
  <2>1. /\ AheadOf(typed + 1) /\ msg.n < typed + 1 /\ typed + 1 \in Nat
        /\ Below(queue_, typed + 1)
    BY <1>0, <1>3, <1>10 DEF StagesInTurn
  <2>2. \A v \in VMs : Below(delivered[v], typed + 1)
                       /\ Below(down'[v], typed + 1)
    BY <1>9, <2>1
  <2> QED
    BY <1>1, <1>3, <1>10, <2>1, <2>2 DEF AheadOf
<1> QED
  BY <1>1, <1>7, <1>8, <1>11, <1>12, <1>13 DEF StagesInTurn

(* The connection of a VM loses its first event, which the callbacks get,  *)
(* or, with the process, all of them.                                      *)
LEMMA GetsInOrder ==
    ASSUME OrderInv, NEW v \in VMs, Gets(v) \/ Flushes(v)
    PROVE  OwnEvents' /\ StagesRise' /\ StagesInTurn'
<1> USE NoneIsNoEvent
<1>0. TypeOK /\ OwnEvents /\ StagesRise /\ StagesInTurn
  BY DEF OrderInv, HandsInv
<1>1. /\ UNCHANGED <<msg, queue_, pushing, typed>>
      /\ \A w \in VMs \ {v} :
            down'[w] = down[w] /\ delivered'[w] = delivered[w]
  BY <1>0 DEF Gets, Flushes, TypeOK
<1>2. down[v] \in Seq(Events) /\ delivered[v] \in Seq(Events) /\ typed \in Nat
  BY <1>0 DEF TypeOK
<1>3. /\ \A i \in DOMAIN down[v] : down[v][i].vm = v
      /\ \A i \in DOMAIN delivered[v] : delivered[v][i].vm = v
      /\ Rising(down[v]) /\ Rising(delivered[v])
      /\ \A i \in DOMAIN down[v] : Below(delivered[v], down[v][i].n)
  BY <1>0 DEF OwnEvents, StagesRise
<1>4. /\ \A i \in DOMAIN down'[v] : down'[v][i].vm = v
      /\ \A i \in DOMAIN delivered'[v] : delivered'[v][i].vm = v
      /\ Rising(down'[v]) /\ Rising(delivered'[v])
      /\ \A i \in DOMAIN down'[v] : Below(delivered'[v], down'[v][i].n)
      /\ \A n \in Nat : Below(delivered[v], n) /\ Below(down[v], n)
                           => Below(delivered'[v], n) /\ Below(down'[v], n)
  <2>1. CASE Flushes(v)
    <3>1. down'[v] = <<>> /\ delivered'[v] = delivered[v] /\ DOMAIN <<>> = {}
      BY <1>0, <2>1 DEF Flushes, TypeOK
    <3> QED
      BY <1>3, <3>1 DEF Rising, Below
  <2>2. CASE Gets(v)
    <3> DEFINE h == Head(down[v])
               t == Tail(down[v])
    <3>1. /\ down[v] # <<>> /\ down'[v] = t
          /\ \/ delivered'[v] = delivered[v]
             \/ delivered'[v] = Append(delivered[v], h)
      BY <1>0, <2>2 DEF Gets, TypeOK
    <3>2. /\ h \in Events /\ 1 \in DOMAIN down[v] /\ h = down[v][1]
          /\ \A i \in DOMAIN t :
                i + 1 \in DOMAIN down[v] /\ t[i] = down[v][i + 1]
          /\ Rising(t) /\ \A i \in DOMAIN t : h.n < t[i].n
          /\ \A n \in Nat : Below(down[v], n) => Below(t, n) /\ h.n < n
      BY <1>2, <1>3, <3>1, TailRises
    <3>3. \A i \in DOMAIN t : t[i].vm = v /\ Below(delivered[v], t[i].n)
                              /\ t[i].n \in Nat
      BY <1>2, <1>3, <3>2, ElementOfSeq, LenProperties
    <3>4. h.vm = v /\ Below(delivered[v], h.n)
      BY <1>3, <3>2
    <3> HIDE DEF h, t
    <3>5. CASE delivered'[v] = delivered[v]
      BY <1>3, <3>1, <3>2, <3>3, <3>5
    <3>6. CASE delivered'[v] = Append(delivered[v], h)
      <4>1. /\ Rising(delivered'[v])
            /\ \A i \in DOMAIN delivered'[v] : delivered'[v][i].vm = v
            /\ \A n \in Nat : Below(delivered[v], n) /\ h.n < n
                                 => Below(delivered'[v], n)
        BY <1>2, <1>3, <3>2, <3>4, <3>6, AppendRises
      <4> QED
        BY <3>1, <3>2, <3>3, <4>1
    <3> QED
      BY <3>1, <3>5, <3>6
  <2> QED
    BY <2>1, <2>2
<1>5. OwnEvents'
  BY <1>0, <1>1, <1>4 DEF OwnEvents
<1>6. StagesRise'
  <2>1. ASSUME NEW w \in VMs
        PROVE  /\ Rising(delivered'[w]) /\ Rising(down'[w])
               /\ \A i \in DOMAIN down'[w] :
                     Below(delivered'[w], down'[w][i].n)
    <3>1. CASE w = v
      BY <1>4, <3>1
    <3>2. CASE w # v
      BY <1>0, <1>1, <3>2 DEF StagesRise
    <3> QED
      BY <3>1, <3>2
  <2> QED
    BY <1>0, <1>1, <2>1 DEF StagesRise
<1>7. ASSUME NEW n \in Nat, AheadOf(n)
      PROVE  \A w \in VMs : Below(delivered'[w], n) /\ Below(down'[w], n)
  BY <1>1, <1>4, <1>7 DEF AheadOf
<1>8. /\ \A i \in DOMAIN queue_ : queue_[i].n \in Nat
      /\ pushing.n \in Nat /\ msg.n \in Nat
  BY <1>0, Numbers
<1>9. (\A i \in DOMAIN queue_ : AheadOf(queue_[i].n) /\ msg.n < queue_[i].n)'
  BY <1>0, <1>1, <1>7, <1>8 DEF StagesInTurn, AheadOf
<1>10. (msg # None => AheadOf(msg.n))'
  BY <1>0, <1>1, <1>7, <1>8 DEF StagesInTurn, AheadOf
<1>11. (pushing # None =>
           /\ pushing.n = typed
           /\ AheadOf(typed) /\ msg.n < typed /\ Below(queue_, typed))'
  <2>1. pushing # None => /\ pushing.n = typed /\ AheadOf(typed)
                          /\ msg.n < typed /\ Below(queue_, typed)
    BY <1>0 DEF StagesInTurn
  <2> QED
    BY <1>1, <1>2, <1>7, <2>1 DEF AheadOf
<1>12. (AheadOf(typed + 1) /\ msg.n <= typed /\ Below(queue_, typed + 1))'
  <2>1. /\ AheadOf(typed + 1) /\ typed + 1 \in Nat /\ msg.n <= typed
        /\ Below(queue_, typed + 1)
    BY <1>0, <1>2 DEF StagesInTurn
  <2>2. \A w \in VMs : Below(delivered'[w], typed + 1)
                       /\ Below(down'[w], typed + 1)
    BY <1>7, <2>1
  <2> QED
    BY <1>1, <2>1, <2>2 DEF AheadOf
<1> QED
  BY <1>5, <1>6, <1>9, <1>10, <1>11, <1>12 DEF StagesInTurn

LEMMA InitOrder == Init => OrderInv
<1> SUFFICES ASSUME Init PROVE OrderInv
  OBVIOUS
<1>1. HandsInv
  BY InitHands
<1>2. /\ DOMAIN queue_ = {} /\ msg = None /\ pushing = None /\ typed = 0
      /\ \A v \in VMs : DOMAIN delivered[v] = {} /\ DOMAIN down[v] = {}
  BY DEF Init
<1>3. OwnEvents /\ StagesRise
  BY <1>2 DEF OwnEvents, StagesRise, Rising
<1>4. StagesInTurn
  BY <1>2, NoneIsNoEvent DEF StagesInTurn, AheadOf, Below
<1> QED
  BY <1>1, <1>3, <1>4 DEF OrderInv

LEMMA NextOrder == OrderInv /\ [Next]_vars => OrderInv'
<1> SUFFICES ASSUME OrderInv, [Next]_vars PROVE OrderInv'
  OBVIOUS
<1>1. HandsInv' /\ TypeOK' /\ FlowStep
  BY NextHands, StepsOfFlow DEF OrderInv, HandsInv
<1>2. CASE Rests
  BY <1>1, <1>2 DEF Rests, OrderInv, OwnEvents, StagesRise, StagesInTurn,
     AheadOf
<1> QED
  BY <1>1, <1>2, TypesInOrder, PushesInOrder, TakesInOrder, DropsInOrder,
     SendsInOrder, GetsInOrder
  DEF FlowStep, OrderInv

(* From the stages to the stream: the order of a concatenation.            *)
InOrder(v, s) ==
    \A i, j \in DOMAIN s :
        i < j /\ IsFor(v, s[i]) /\ IsFor(v, s[j]) => s[i].n < s[j].n

Precedes(v, s, t) ==
    \A i \in DOMAIN s, j \in DOMAIN t :
        IsFor(v, s[i]) /\ IsFor(v, t[j]) => s[i].n < t[j].n

LEMMA ConcatInOrder ==
    ASSUME NEW S, NEW v, NEW s \in Seq(S), NEW t \in Seq(S),
           InOrder(v, s), InOrder(v, t), Precedes(v, s, t)
    PROVE  InOrder(v, s \o t)
<1>1. /\ Len(s \o t) = Len(s) + Len(t)
      /\ \A i \in 1 .. Len(s) + Len(t) :
            (s \o t)[i] = IF i <= Len(s) THEN s[i] ELSE t[i - Len(s)]
  BY ConcatProperties
<1>2. /\ DOMAIN (s \o t) = 1 .. Len(s) + Len(t)
      /\ DOMAIN s = 1 .. Len(s) /\ DOMAIN t = 1 .. Len(t)
      /\ Len(s) \in Nat /\ Len(t) \in Nat
  BY <1>1, ConcatProperties, LenProperties
<1> SUFFICES ASSUME NEW i \in DOMAIN (s \o t), NEW j \in DOMAIN (s \o t),
                    i < j, IsFor(v, (s \o t)[i]), IsFor(v, (s \o t)[j])
             PROVE  (s \o t)[i].n < (s \o t)[j].n
  BY DEF InOrder
<1>3. CASE j <= Len(s)
  <2>1. /\ i \in DOMAIN s /\ j \in DOMAIN s
        /\ (s \o t)[i] = s[i] /\ (s \o t)[j] = s[j]
    BY <1>1, <1>2, <1>3
  <2> QED
    BY <2>1 DEF InOrder
<1>4. CASE i <= Len(s) /\ j > Len(s)
  <2>1. /\ i \in DOMAIN s /\ j - Len(s) \in DOMAIN t
        /\ (s \o t)[i] = s[i] /\ (s \o t)[j] = t[j - Len(s)]
    BY <1>1, <1>2, <1>4
  <2> QED
    BY <2>1 DEF Precedes
<1>5. CASE i > Len(s)
  <2>1. /\ i - Len(s) \in DOMAIN t /\ j - Len(s) \in DOMAIN t
        /\ i - Len(s) < j - Len(s)
        /\ (s \o t)[i] = t[i - Len(s)] /\ (s \o t)[j] = t[j - Len(s)]
    BY <1>1, <1>2, <1>5
  <2> QED
    BY <2>1 DEF InOrder
<1> QED
  BY <1>2, <1>3, <1>4, <1>5

LEMMA ConcatPrecedes ==
    ASSUME NEW S, NEW v, NEW s \in Seq(S), NEW t \in Seq(S), NEW u,
           Precedes(v, s, u), Precedes(v, t, u)
    PROVE  Precedes(v, s \o t, u)
<1>1. /\ Len(s \o t) = Len(s) + Len(t)
      /\ \A i \in 1 .. Len(s) + Len(t) :
            (s \o t)[i] = IF i <= Len(s) THEN s[i] ELSE t[i - Len(s)]
  BY ConcatProperties
<1>2. /\ DOMAIN (s \o t) = 1 .. Len(s) + Len(t)
      /\ DOMAIN s = 1 .. Len(s) /\ DOMAIN t = 1 .. Len(t)
      /\ Len(s) \in Nat /\ Len(t) \in Nat
  BY <1>1, ConcatProperties, LenProperties
<1>3. \A i \in DOMAIN (s \o t) :
         \/ i \in DOMAIN s /\ (s \o t)[i] = s[i]
         \/ i - Len(s) \in DOMAIN t /\ (s \o t)[i] = t[i - Len(s)]
  BY <1>1, <1>2
<1> QED
  BY <1>3 DEF Precedes

(* The stages in turn make the stream of each VM rise.                     *)
LEMMA StreamRises == OrderInv => InputInOrder
<1> SUFFICES ASSUME OrderInv, NEW v \in VMs
             PROVE  /\ \A i \in DOMAIN delivered[v] : IsFor(v, delivered[v][i])
                    /\ InOrder(v, Stream(v))
  BY DEF InputInOrder, InOrder
<1> USE NoneIsNoEvent
<1>0. TypeOK /\ OwnEvents /\ StagesRise /\ StagesInTurn
  BY DEF OrderInv, HandsInv
<1> DEFINE S == Events \cup {None}
           d == delivered[v]
           w == down[v]
<1>1. /\ d \in Seq(Events) /\ w \in Seq(Events) /\ queue_ \in Seq(Events)
      /\ msg \in S /\ pushing \in S
  BY <1>0 DEF TypeOK
<1>2. \A i \in DOMAIN d : IsFor(v, d[i])
  BY <1>0, <1>1, ElementOfSeq, LenProperties DEF OwnEvents, IsFor
<1>3. /\ d \in Seq(S) /\ w \in Seq(S) /\ queue_ \in Seq(S)
      /\ <<msg>> \in Seq(S) /\ <<pushing>> \in Seq(S)
  BY <1>1
<1>4. /\ InOrder(v, d) /\ InOrder(v, w) /\ InOrder(v, queue_)
      /\ Precedes(v, d, w)
  BY <1>0 DEF StagesRise, Rising, Below, InOrder, Precedes
<1>5. /\ DOMAIN <<msg>> = {1} /\ <<msg>>[1] = msg
      /\ DOMAIN <<pushing>> = {1} /\ <<pushing>>[1] = pushing
  OBVIOUS
<1>6. InOrder(v, <<msg>>) /\ InOrder(v, <<pushing>>)
  BY <1>5 DEF InOrder
<1>7. Precedes(v, d, <<msg>>) /\ Precedes(v, w, <<msg>>)
  <2>1. msg # None => Below(d, msg.n) /\ Below(w, msg.n)
    BY <1>0 DEF StagesInTurn, AheadOf
  <2> QED
    BY <1>5, <2>1 DEF Precedes, IsFor, Below
<1>8. /\ Precedes(v, d, queue_) /\ Precedes(v, w, queue_)
      /\ Precedes(v, <<msg>>, queue_)
  <2>1. \A i \in DOMAIN queue_ :
           /\ Below(d, queue_[i].n) /\ Below(w, queue_[i].n)
           /\ msg.n < queue_[i].n
    BY <1>0 DEF StagesInTurn, AheadOf
  <2> QED
    BY <1>5, <2>1 DEF Precedes, Below
<1>9. /\ Precedes(v, d, <<pushing>>) /\ Precedes(v, w, <<pushing>>)
      /\ Precedes(v, <<msg>>, <<pushing>>) /\ Precedes(v, queue_, <<pushing>>)
  <2>1. pushing # None =>
           /\ Below(d, pushing.n) /\ Below(w, pushing.n)
           /\ msg.n < pushing.n /\ Below(queue_, pushing.n)
    BY <1>0 DEF StagesInTurn, AheadOf
  <2> QED
    BY <1>5, <2>1 DEF Precedes, IsFor, Below
<1> DEFINE dw == d \o w
           dwm == dw \o <<msg>>
           dwmq == dwm \o queue_
<1> HIDE DEF S, d, w
<1>10. dw \in Seq(S) /\ InOrder(v, dw)
  BY <1>3, <1>4, ConcatInOrder, ConcatProperties
<1>11. /\ Precedes(v, dw, <<msg>>) /\ Precedes(v, dw, queue_)
       /\ Precedes(v, dw, <<pushing>>)
  BY <1>3, <1>7, <1>8, <1>9, ConcatPrecedes
<1> HIDE DEF dw
<1>12. dwm \in Seq(S) /\ InOrder(v, dwm)
  BY <1>3, <1>6, <1>10, <1>11, ConcatInOrder, ConcatProperties
<1>13. Precedes(v, dwm, queue_) /\ Precedes(v, dwm, <<pushing>>)
  BY <1>3, <1>8, <1>9, <1>10, <1>11, ConcatPrecedes
<1> HIDE DEF dwm
<1>14. dwmq \in Seq(S) /\ InOrder(v, dwmq)
  BY <1>3, <1>4, <1>12, <1>13, ConcatInOrder, ConcatProperties
<1>15. Precedes(v, dwmq, <<pushing>>)
  BY <1>3, <1>9, <1>12, <1>13, ConcatPrecedes
<1> HIDE DEF dwmq
<1>16. InOrder(v, dwmq \o <<pushing>>)
  BY <1>3, <1>6, <1>14, <1>15, ConcatInOrder
<1> QED
  BY <1>2, <1>16 DEF Stream, dwmq, dwm, dw, d, w

(* The callbacks of a VM get its events in the order they were typed, none *)
(* twice and none of another VM, for any number of VMs, events and         *)
(* restarts.                                                               *)
THEOREM InputStaysInOrder == Spec => []InputInOrder
<1>1. Spec => []OrderInv
  BY InitOrder, NextOrder, PTL DEF Spec
<1> QED
  BY <1>1, StreamRises, PTL
-----------------------------------------------------------------------------
(* A VM that runs has a connection, and the connection of a VM that is     *)
(* owed an event stays settled.                                            *)
OwedSettled ==
    /\ \A v \in VMs : vpc[v] # "off" => conn[v] > 0
    /\ \A e \in owed : Settled(e.vm)

OwedInv == HandsInv /\ OwedSettled /\ OwedNeverLost

(* A client types an event; the push ends; the worker takes it.            *)
LEMMA QueueKeepsOwed ==
    ASSUME OwedInv,
           EnqueueEnds \/ WorkerDequeue \/ \E v \in VMs : Enqueue(v)
    PROVE  OwedSettled' /\ OwedNeverLost'
<1> USE NoneIsNoEvent
<1>0. TypeOK /\ InHand /\ OwedSettled /\ OwedNeverLost
  BY DEF OwedInv, HandsInv
<1>1. /\ queue_ \in Seq(Events) /\ pushing \in Events \cup {None}
      /\ owed \subseteq Events
  BY <1>0 DEF TypeOK
<1>2. CASE EnqueueEnds
  <2>1. /\ mutex_ = "held" /\ queue_' = Append(queue_, pushing)
        /\ UNCHANGED <<msg, connection_map, conn, vpc, up, down, owed>>
    BY <1>2 DEF EnqueueEnds, vmVars
  <2>2. pushing \in Events
    BY <1>0, <1>1, <2>1 DEF InHand
  <2>3. OwedSettled'
    BY <1>0, <2>1 DEF OwedSettled, Settled
  <2>4. /\ \E i \in DOMAIN queue_' : queue_'[i] = pushing
        /\ \A i \in DOMAIN queue_ :
              i \in DOMAIN queue_' /\ queue_'[i] = queue_[i]
    BY <1>1, <2>1, <2>2, AppendHolds
  <2>5. OwedNeverLost'
    BY <1>0, <2>1, <2>4 DEF OwedNeverLost, OnItsWay
  <2> QED
    BY <2>3, <2>5
<1>3. CASE WorkerDequeue
  <2>1. /\ wpc = "dequeue" /\ queue_ # <<>>
        /\ msg' = Head(queue_) /\ queue_' = Tail(queue_)
        /\ UNCHANGED <<pushing, connection_map, conn, vpc, up, down, owed>>
    BY <1>3 DEF WorkerDequeue, WorkerFrame, vmVars
  <2>2. OwedSettled'
    BY <1>0, <2>1 DEF OwedSettled, Settled
  <2>3. msg = None
    BY <1>0, <2>1 DEF InHand
  <2>4. \A i \in DOMAIN queue_ :
           \/ queue_[i] = msg'
           \/ \E j \in DOMAIN queue_' : queue_'[j] = queue_[i]
    BY <1>1, <2>1, TailRises
  <2>5. \A e \in owed : e # msg /\ OnItsWay(e)
    BY <1>0, <1>1, <2>3 DEF OwedNeverLost
  <2>6. OwedNeverLost'
    BY <2>1, <2>4, <2>5 DEF OwedNeverLost, OnItsWay
  <2> QED
    BY <2>2, <2>6
<1>4. ASSUME NEW v \in VMs, Enqueue(v)
      PROVE  OwedSettled' /\ OwedNeverLost'
  <2>1. /\ mutex_ = "free" /\ pushing' = [vm |-> v, n |-> typed + 1]
        /\ owed' = IF Settled(v) THEN owed \cup {pushing'} ELSE owed
        /\ UNCHANGED <<queue_, msg, connection_map, conn, vpc, up, down>>
    BY <1>4 DEF Enqueue, QueueItem, vmVars
  <2>2. pushing = None
    BY <1>0, <2>1 DEF InHand
  <2>3. \A e \in owed' : Settled(e.vm)
    BY <1>0, <2>1 DEF OwedSettled
  <2>4. OwedSettled'
    BY <1>0, <2>1, <2>3 DEF OwedSettled, Settled
  <2>5. \A e \in owed : e # pushing /\ OnItsWay(e)
    BY <1>0, <1>1, <2>2 DEF OwedNeverLost
  <2>6. \A e \in owed' : e \in owed \/ e = pushing'
    BY <2>1
  <2>7. OwedNeverLost'
    BY <2>1, <2>5, <2>6 DEF OwedNeverLost, OnItsWay
  <2> QED
    BY <2>4, <2>7
<1> QED
  BY <1>2, <1>3, <1>4

(* The worker sends what it has in hand: an owed event has a route.        *)
LEMMA SendKeepsOwed ==
    ASSUME OwedInv, sendMessage
    PROVE  OwedSettled' /\ OwedNeverLost'
<1> USE NoneIsNoEvent
<1>0. TypeOK /\ InHand /\ OwedSettled /\ OwedNeverLost
  BY DEF OwedInv, HandsInv
<1>1. /\ wpc = "send"
      /\ UNCHANGED <<queue_, pushing, connection_map, conn, vpc, up, owed>>
  BY DEF sendMessage, SendUnknown, SendRouted, SendUnreachable, WorkerFrame,
     queueVars, vmVars
<1>2. OwedSettled'
  BY <1>0, <1>1 DEF OwedSettled, Settled
<1>3. /\ msg \in Events /\ msg.vm \in VMs /\ owed \subseteq Events
      /\ down \in [VMs -> Seq(Events)] /\ down[msg.vm] \in Seq(Events)
      /\ conn[msg.vm] \in Int
  BY <1>0, <1>1 DEF TypeOK, InHand, Connections
<1>4. ASSUME msg \in owed
      PROVE  connection_map[msg.vm] # 0 /\ Routable
  <2>1. Settled(msg.vm)
    BY <1>0, <1>4 DEF OwedSettled
  <2>2. conn[msg.vm] > 0
    BY <1>0, <1>3, <2>1 DEF OwedSettled, Settled
  <2> QED
    BY <1>3, <2>1, <2>2 DEF Settled, Routable
<1>5. CASE SendRouted
  <2>1. down' = [down EXCEPT ![msg.vm] = Append(@, msg)]
    BY <1>5 DEF SendRouted
  <2>2. /\ \A v \in VMs \ {msg.vm} : down'[v] = down[v]
        /\ down'[msg.vm] = Append(down[msg.vm], msg)
    BY <1>3, <2>1
  <2>3. /\ \E i \in DOMAIN down'[msg.vm] : down'[msg.vm][i] = msg
        /\ \A i \in DOMAIN down[msg.vm] : /\ i \in DOMAIN down'[msg.vm]
                                          /\ down'[msg.vm][i] = down[msg.vm][i]
    <3>1. PICK s, t : s = down[msg.vm] /\ t = down'[msg.vm]
      OBVIOUS
    <3>2. s \in Seq(Events) /\ msg \in Events /\ t = Append(s, msg)
      BY <1>3, <2>2, <3>1
    <3>3. /\ \E i \in DOMAIN t : t[i] = msg
          /\ \A i \in DOMAIN s : i \in DOMAIN t /\ t[i] = s[i]
      BY <3>2, AppendHolds
    <3> QED
      BY <3>1, <3>3
  <2>4. ASSUME NEW e \in owed, \E i \in DOMAIN down[e.vm] : down[e.vm][i] = e
        PROVE  \E i \in DOMAIN down'[e.vm] : down'[e.vm][i] = e
    <3>1. e.vm \in VMs
      BY <1>3
    <3>2. CASE e.vm = msg.vm
      BY <2>3, <2>4, <3>2
    <3>3. CASE e.vm # msg.vm
      BY <2>2, <2>4, <3>1, <3>3
    <3> QED
      BY <3>2, <3>3
  <2>5. \A e \in owed : OnItsWay(e)
    BY <1>0 DEF OwedNeverLost
  <2> QED
    BY <1>1, <1>2, <2>3, <2>4, <2>5 DEF OwedNeverLost, OnItsWay
<1>6. CASE SendUnknown \/ SendUnreachable
  <2>1. down' = down /\ msg \notin owed
    BY <1>4, <1>6 DEF SendUnknown, SendUnreachable, vmVars
  <2> QED
    BY <1>0, <1>1, <1>2, <2>1 DEF OwedNeverLost, OnItsWay
<1> QED
  BY <1>5, <1>6 DEF sendMessage

(* The worker's other steps, and the server's: a message of the settled    *)
(* connection tells the server what it knows.                              *)
LEMMA ServerKeepsOwed ==
    ASSUME OwedInv,
           \/ WorkerTop \/ WorkerDrain \/ WorkerReceive \/ WorkerTimeout
           \/ \E t \in {"main", "worker"} : handle_SIGINT(t)
           \/ WorkerDestroyed
           \/ \E v \in VMs : Unlist(v)
    PROVE  OwedSettled' /\ OwedNeverLost'
<1>0. TypeOK /\ OwedSettled /\ OwedNeverLost
  BY DEF OwedInv, HandsInv
<1>1. UNCHANGED <<queue_, pushing, msg, conn, vpc, down, owed>>
  BY DEF WorkerTop, WorkerDrain, WorkerReceive, WorkerTimeout, WorkerFrame,
     handle_SIGINT, WorkerDestroyed, Unlist, queueVars, vmVars
<1>2. OwedNeverLost'
  BY <1>0, <1>1 DEF OwedNeverLost, OnItsWay
<1>3. CASE ~WorkerReceive
  <2>1. UNCHANGED <<connection_map, up>>
    BY <1>3 DEF WorkerTop, WorkerDrain, WorkerTimeout, WorkerFrame,
       handle_SIGINT, WorkerDestroyed, Unlist, vmVars
  <2> QED
    BY <1>0, <1>1, <1>2, <2>1 DEF OwedSettled, Settled
<1>4. CASE WorkerReceive
  <2>1. PICK v \in VMs, k \in Connections :
           /\ up[v][k] > 0
           /\ up' = [up EXCEPT ![v][k] = @ - 1]
           /\ connection_map' = IF listed[v]
                                THEN [connection_map EXCEPT ![v] = k]
                                ELSE connection_map
    BY <1>4 DEF WorkerReceive
  <2>2. /\ up \in [VMs -> [Connections -> 0 .. HWM]]
        /\ connection_map \in [VMs -> Connections]
        /\ owed \subseteq Events
    BY <1>0 DEF TypeOK
  <2>3. ASSUME NEW e \in owed PROVE Settled(e.vm)'
    <3>1. e.vm \in VMs /\ Settled(e.vm)
      BY <1>0, <2>2, NoneIsNoEvent DEF OwedSettled
    <3>2. CASE e.vm # v
      <4>1. /\ up'[e.vm] = up[e.vm]
            /\ connection_map'[e.vm] = connection_map[e.vm]
        BY <2>1, <2>2, <3>1, <3>2
      <4> QED
        BY <1>1, <3>1, <4>1 DEF Settled
    <3>3. CASE e.vm = v
      <4>1. k = conn[v]
        BY <2>1, <2>2, <3>1, <3>3 DEF Settled
      <4>2. /\ \A m \in Connections : m # k => up'[v][m] = up[v][m]
            /\ connection_map'[v] \in {k, connection_map[v]}
        BY <2>1, <2>2
      <4> QED
        BY <1>1, <3>1, <3>3, <4>1, <4>2 DEF Settled
    <3> QED
      BY <3>2, <3>3
  <2>4. \A v_1 \in VMs : vpc'[v_1] # "off" => conn'[v_1] > 0
    BY <1>0, <1>1 DEF OwedSettled
  <2>5. owed' = owed
    BY <1>1
  <2> QED
    BY <1>2, <2>3, <2>4, <2>5 DEF OwedSettled
<1> QED
  BY <1>3, <1>4

(* A hypervisor starts, ends, sends, or takes an event.                    *)
LEMMA VMKeepsOwed ==
    ASSUME OwedInv, NEW v \in VMs, Connect(v) \/ Die(v) \/ mux_mainloop(v)
    PROVE  OwedSettled' /\ OwedNeverLost'
<1> USE NoneIsNoEvent
<1>0. TypeOK /\ OwedSettled /\ OwedNeverLost
  BY DEF OwedInv, HandsInv
<1>1. UNCHANGED <<queue_, pushing, msg, connection_map>>
  BY DEF Connect, Die, mux_mainloop, VMReceive, VMTimeout, VMSend, VMFrame,
     queueVars
<1>2. /\ vpc \in [VMs -> {"off", "poll", "send"}]
      /\ conn \in [VMs -> Connections]
      /\ down \in [VMs -> Seq(Events)] /\ down[v] \in Seq(Events)
      /\ up \in [VMs -> [Connections -> 0 .. HWM]]
      /\ owed \subseteq Events
  BY <1>0 DEF TypeOK
<1>3. \A e \in owed : e.vm \in VMs /\ Settled(e.vm) /\ OnItsWay(e)
  BY <1>0, <1>2 DEF OwedSettled, OwedNeverLost
<1>4. CASE Connect(v)
  <2>1. /\ vpc[v] = "off"
        /\ conn' = [conn EXCEPT ![v] = @ + 1]
        /\ vpc' = [vpc EXCEPT ![v] = "poll"]
        /\ UNCHANGED <<up, down, owed>>
    BY <1>4 DEF Connect
  <2>2. \A e \in owed : e.vm # v
    BY <1>3, <2>1 DEF Settled
  <2>3. /\ \A w \in VMs \ {v} : vpc'[w] = vpc[w] /\ conn'[w] = conn[w]
        /\ conn'[v] = conn[v] + 1
    BY <1>2, <2>1
  <2>4. \A w \in VMs : vpc'[w] # "off" => conn'[w] > 0
    <3>1. conn[v] \in Connections
      BY <1>2
    <3>2. conn[v] + 1 > 0
      BY <3>1, WorkerAssumption DEF Connections
    <3> QED
      BY <1>0, <2>3, <3>2 DEF OwedSettled
  <2>5. OwedSettled'
    BY <1>1, <1>3, <2>1, <2>2, <2>3, <2>4 DEF OwedSettled, Settled
  <2>6. OwedNeverLost'
    BY <1>1, <1>3, <2>1 DEF OwedNeverLost, OnItsWay
  <2> QED
    BY <2>5, <2>6
<1>5. CASE Die(v)
  <2>1. /\ vpc' = [vpc EXCEPT ![v] = "off"]
        /\ down' = [down EXCEPT ![v] = <<>>]
        /\ owed' = {e \in owed : e.vm # v}
        /\ UNCHANGED <<conn, up>>
    BY <1>5 DEF Die
  <2>2. /\ \A w \in VMs \ {v} : vpc'[w] = vpc[w] /\ down'[w] = down[w]
        /\ vpc'[v] = "off"
    BY <1>2, <2>1
  <2>3. \A e \in owed' : e \in owed /\ e.vm \in VMs \ {v}
    BY <1>3, <2>1
  <2>4. \A w \in VMs : vpc'[w] # "off" => conn'[w] > 0
    BY <1>0, <2>1, <2>2 DEF OwedSettled
  <2>5. OwedSettled'
    BY <1>1, <1>3, <2>1, <2>2, <2>3, <2>4 DEF OwedSettled, Settled
  <2>6. OwedNeverLost'
    BY <1>1, <1>3, <2>2, <2>3 DEF OwedNeverLost, OnItsWay
  <2> QED
    BY <2>5, <2>6
<1>6. CASE VMReceive(v) \/ VMTimeout(v)
  <2>1. /\ vpc[v] = "poll" /\ UNCHANGED <<conn, up>>
        /\ vpc' = vpc \/ vpc' = [vpc EXCEPT ![v] = "send"]
    BY <1>6 DEF VMReceive, VMTimeout, TakesUpdate
  <2>2. \A w \in VMs : vpc'[w] # "off" <=> vpc[w] # "off"
    BY <1>2, <2>1
  <2>3. \A w \in VMs : vpc'[w] # "off" => conn'[w] > 0
    BY <1>0, <2>1, <2>2 DEF OwedSettled
  <2>4. \A e \in owed : Settled(e.vm)'
    BY <1>1, <1>3, <2>1, <2>2 DEF Settled
  <2>5. CASE VMTimeout(v)
    <3>1. UNCHANGED <<down, owed>>
      BY <2>5 DEF VMTimeout
    <3> QED
      BY <1>1, <1>3, <2>3, <2>4, <3>1 DEF OwedSettled, OwedNeverLost, OnItsWay
  <2>6. CASE VMReceive(v)
    <3>1. /\ down[v] # <<>> /\ down' = [down EXCEPT ![v] = Tail(@)]
          /\ owed' = owed \ {Head(down[v])}
      BY <2>6 DEF VMReceive
    <3>2. /\ down'[v] = Tail(down[v])
          /\ \A w \in VMs \ {v} : down'[w] = down[w]
      BY <1>2, <3>1
    <3>3. \A i \in DOMAIN down[v] :
             \/ down[v][i] = Head(down[v])
             \/ \E j \in DOMAIN down'[v] : down'[v][j] = down[v][i]
      BY <1>2, <3>1, <3>2, TailRises
    <3>4. ASSUME NEW e \in owed',
                 \E i \in DOMAIN down[e.vm] : down[e.vm][i] = e
          PROVE  \E i \in DOMAIN down'[e.vm] : down'[e.vm][i] = e
      <4>1. CASE e.vm = v
        BY <3>1, <3>3, <3>4, <4>1
      <4>2. CASE e.vm # v
        BY <1>3, <3>1, <3>2, <3>4, <4>2
      <4> QED
        BY <4>1, <4>2
    <3>5. \A e \in owed' : e \in owed
      BY <3>1
    <3>6. OwedNeverLost'
      BY <1>1, <1>3, <3>4, <3>5 DEF OwedNeverLost, OnItsWay
    <3> QED
      BY <2>3, <2>4, <3>5, <3>6 DEF OwedSettled
  <2> QED
    BY <1>6, <2>5, <2>6
<1>7. CASE VMSend(v)
  <2>1. /\ vpc[v] = "send" /\ vpc' = [vpc EXCEPT ![v] = "poll"]
        /\ up' = [up EXCEPT ![v][conn[v]] = @ + 1]
        /\ UNCHANGED <<conn, down, owed>>
    BY <1>7 DEF VMSend
  <2>2. /\ \A w \in VMs : vpc'[w] # "off" <=> vpc[w] # "off"
        /\ \A w \in VMs \ {v} : up'[w] = up[w]
        /\ \A k \in Connections : k # conn[v] => up'[v][k] = up[v][k]
    BY <1>2, <2>1
  <2>3. \A w \in VMs : vpc'[w] # "off" => conn'[w] > 0
    BY <1>0, <2>1, <2>2 DEF OwedSettled
  <2>4. ASSUME NEW e \in owed PROVE Settled(e.vm)'
    <3>1. CASE e.vm = v
      BY <1>1, <1>3, <2>1, <2>2, <3>1 DEF Settled
    <3>2. CASE e.vm # v
      BY <1>1, <1>3, <2>1, <2>2, <3>2 DEF Settled
    <3> QED
      BY <3>1, <3>2
  <2>5. OwedNeverLost'
    BY <1>1, <1>3, <2>1 DEF OwedNeverLost, OnItsWay
  <2> QED
    BY <2>1, <2>3, <2>4, <2>5 DEF OwedSettled
<1> QED
  BY <1>4, <1>5, <1>6, <1>7 DEF mux_mainloop

(* An event typed when its VM's connection was settled is never lost short *)
(* of the end of that VM's process: not to other VMs, to failed sends, to  *)
(* the removal of listeners or to a worker hung by SIGINT.                 *)
THEOREM OwedStaysOnItsWay == Spec => []OwedNeverLost
<1>1. Init => OwedInv
  BY InitHands DEF Init, OwedInv, OwedSettled, OwedNeverLost
<1>2. OwedInv /\ [Next]_vars => OwedInv'
  <2> SUFFICES ASSUME OwedInv, [Next]_vars PROVE OwedInv'
    OBVIOUS
  <2>1. HandsInv'
    BY NextHands DEF OwedInv
  <2>2. CASE UNCHANGED vars
    BY <2>1, <2>2 DEF vars, queueVars, vmVars, OwedInv, OwedSettled, Settled,
       OwedNeverLost, OnItsWay
  <2>3. CASE Next
    BY <2>1, <2>3, QueueKeepsOwed, SendKeepsOwed, ServerKeepsOwed, VMKeepsOwed
    DEF Next, run, OwedInv
  <2> QED
    BY <2>2, <2>3
<1>3. OwedInv => OwedNeverLost
  BY DEF OwedInv
<1> QED
  BY <1>1, <1>2, <1>3, PTL DEF Spec
=============================================================================

-------------------------- MODULE ListenerRegistry --------------------------
(***************************************************************************)
(* The server's bookkeeping of RDP listeners: RDPServerWorker (Register    *)
(* over DBus, the port set, the listener map, message dispatch), the life  *)
(* of an RDPListener (RunServer and the destructor) and the thread of the  *)
(* shadow subsystem that copies frames for it.                             *)
(*                                                                         *)
(* Threads: the GLib main loop (Register, the Shutdown method), the worker *)
(* loop (dispatch), and per listener the RunServer thread and a subsystem  *)
(* thread started by the FreeRDP shadow server.  ports and listener_map    *)
(* are written under container_lock; the worker reads listener_map without *)
(* it.  A listener lives as long as a shared_ptr to it: one is held by its *)
(* RunServer thread, one by the map, one by the worker while it dispatches. *)
(* A read of freed memory has any of the outcomes it can have: the old     *)
(* value, another one, or the end of the process.                          *)
(***************************************************************************)
EXTENDS Integers

CONSTANTS
    UUIDs,          \* VM identities
    MaxListeners,   \* bound on the listener objects ever created
    AutoPorts,      \* ports of the automatic search, 3901 .. 65534 in the code
    PortRequests,   \* ports a VM may ask for; 0 asks for the automatic search
    ForeignPorts,   \* ports that other programs may listen on
    Faults,         \* which of "ctor", "init", "start" may fail by themselves
    ReuseUUIDs      \* a VM may register while a listener of that UUID exists

ASSUME RegistryAssumption ==
    /\ MaxListeners \in Nat
    /\ AutoPorts \subseteq Nat \ {0}
    /\ PortRequests \subseteq Nat
    /\ ForeignPorts \subseteq Nat
    /\ Faults \subseteq {"ctor", "init", "start"}
    /\ ReuseUUIDs \in BOOLEAN

Listeners == 1 .. MaxListeners
NoListener == 0

VARIABLES
    listener_map,       \* UUID to listener, or NoListener
    ports,              \* the port set of RDPServerWorker
    container_lock,     \* "free", or the function that holds it
    found,              \* the listener of the map node the worker has found
    server,             \* the worker's copy of the shared_ptr it dispatches to
    message,            \* the type of the message it dispatches
    torn,               \* that copy was taken from an erased node
    created,            \* number of listeners created so far
    uuid, port,         \* members of each listener
    lpc,                \* position of each RunServer thread
    listener_running,   \* member of each listener
    registered,         \* the listener's object is on the bus
    opened,             \* the listener's TCP port is open
    spc,                \* position of each subsystem thread
    object,             \* life of each listener object
    foreign,            \* ports other programs listen on
    proc,               \* "running", or "crashed" after a use of freed memory
    shared              \* history: listeners that had to share their UUID

workerVars == <<found, server, message, torn>>
listenerVars == <<created, uuid, port, lpc, listener_running, registered, opened>>
hostVars == <<foreign, proc, shared>>
vars == <<listener_map, ports, container_lock, workerVars, listenerVars,
          spc, object, hostVars>>

Init ==
    /\ listener_map = [u \in UUIDs |-> NoListener]
    /\ ports = {}
    /\ container_lock = "free"
    /\ found = NoListener /\ server = NoListener
    /\ message = "none" /\ torn = FALSE
    /\ created = 0
    /\ uuid = [l \in Listeners |-> "none"]
    /\ port = [l \in Listeners |-> 0]
    /\ lpc = [l \in Listeners |-> "unborn"]
    /\ listener_running = [l \in Listeners |-> FALSE]
    /\ registered = [l \in Listeners |-> FALSE]
    /\ opened = [l \in Listeners |-> FALSE]
    /\ spc = [l \in Listeners |-> "none"]
    /\ object = [l \in Listeners |-> "unborn"]
    /\ foreign \in SUBSET ForeignPorts
    /\ proc = "running" /\ shared = {}

Running == proc = "running"

(* The process ends in the middle of a step that used freed memory.        *)
Crash ==
    /\ proc' = "crashed"
    /\ UNCHANGED <<listener_map, ports, container_lock, workerVars,
                   listenerVars, spc, object, foreign, shared>>

(* Ports that bind() refuses.                                              *)
Bound == foreign \cup {port[l] : l \in {k \in Listeners : opened[k]}}

(* UnregisterVM has not yet erased the entry of this listener's UUID.      *)
Known(l) == lpc[l] \notin {"unborn", "return", "gone"}

(* Mutants: the worker, or the RunServer thread, keeps a plain pointer.    *)
ReferencedNotByWorker(l, n, m, w) ==
    n[l] # "gone" \/ \E u \in UUIDs : m[u] = l

ReferencedNotByThread(l, n, m, w) == w = l \/ \E u \in UUIDs : m[u] = l

(* A listener whose last shared_ptr is released is destroyed by the thread *)
(* that released it.  n, m and w are the thread positions, the map and the *)
(* worker's pointer after the step.                                        *)
Referenced(l, n, m, w) ==
    n[l] # "gone" \/ w = l \/ \E u \in UUIDs : m[u] = l

ReleaseUnreferenced(n, m, w) ==
    object' = [l \in Listeners |->
                  IF object[l] = "live" /\ ~Referenced(l, n, m, w)
                  THEN "dtor_flag" ELSE object[l]]
-----------------------------------------------------------------------------
(* Register, on the main loop thread.                                      *)

(* Mutants: no look at the port set, no trial bind().                      *)
FreePortsUnlisted == {p \in AutoPorts : p \notin Bound}

FreePortsUntried == {p \in AutoPorts : p \notin ports}

FreePorts == {p \in AutoPorts : p \notin ports /\ p \notin Bound}

(* Mutant: the search runs off its end and says 65535.                     *)
ChoosePortPastEnd(p) ==
    IF p # 0 THEN p
    ELSE CHOOSE q \in FreePorts \cup {65535} :
             \A r \in FreePorts \cup {65535} : q <= r

(* The port RegisterNewVM settles on: the one asked for, unexamined, or    *)
(* the first that is neither in the set nor refused by a trial bind(); 0   *)
(* when there is none.                                                     *)
ChoosePort(p) ==
    IF p # 0 THEN p
    ELSE IF FreePorts = {} THEN 0
    ELSE CHOOSE q \in FreePorts : \A r \in FreePorts : q <= r

(* RegisterNewVM up to the start of the RunServer thread.  The constructor *)
(* may throw: the port then stays in the set.                              *)
RegisterNewVM(u, p) ==
    LET used_port == ChoosePort(p)
        l == created + 1
        twins == {k \in Listeners : Known(k) /\ uuid[k] = u}
    IN  /\ container_lock = "free" /\ created < MaxListeners
        /\ ReuseUUIDs \/ \A k \in Listeners : uuid[k] = u => object[k] = "dead"
        /\ used_port # 0
        /\ ports' = ports \cup {used_port}
        /\ \/ /\ container_lock' = "register"
              /\ created' = l
              /\ uuid' = [uuid EXCEPT ![l] = u]
              /\ port' = [port EXCEPT ![l] = used_port]
              /\ lpc' = [lpc EXCEPT ![l] = "init"]
              /\ object' = [object EXCEPT ![l] = "live"]
              /\ shared' = IF twins = {} THEN shared
                           ELSE shared \cup twins \cup {l}
              /\ UNCHANGED <<listener_running, registered, opened>>
           \/ /\ "ctor" \in Faults
              /\ UNCHANGED <<container_lock, object, listenerVars, shared>>
        /\ UNCHANGED <<listener_map, workerVars, spc, foreign, proc>>

(* Mutant: the listener is started and never entered.                      *)
RegisterForgetsEntry ==
    /\ container_lock = "register"
    /\ container_lock' = "free"
    /\ UNCHANGED <<listener_map, ports, workerVars, listenerVars, spc,
                   object, hostVars>>

(* The rest of RegisterNewVM: insert() leaves an existing entry alone.     *)
RegisterInsert ==
    /\ container_lock = "register"
    /\ listener_map' =
           IF listener_map[uuid[created]] = NoListener
           THEN [listener_map EXCEPT ![uuid[created]] = created]
           ELSE listener_map
    /\ container_lock' = "free"
    /\ UNCHANGED <<ports, workerVars, listenerVars, spc, object, hostVars>>
-----------------------------------------------------------------------------
(* RDPListener::RunServer, on a thread of its own.                         *)

RunFrame == UNCHANGED <<workerVars, created, uuid, port, hostVars>>

RunInit(l) ==
    /\ lpc[l] = "init"
    /\ \/ lpc' = [lpc EXCEPT ![l] = "register_object"]
       \/ "init" \in Faults /\ lpc' = [lpc EXCEPT ![l] = "cleanup"]
    /\ UNCHANGED <<listener_map, ports, container_lock, listener_running,
                   registered, opened, spc, object>>
    /\ RunFrame

(* The object path is made from the UUID: the bus refuses a second one.    *)
RunRegisterObject(l) ==
    /\ lpc[l] = "register_object"
    /\ IF \E k \in Listeners : registered[k] /\ uuid[k] = uuid[l]
       THEN lpc' = [lpc EXCEPT ![l] = "cleanup"] /\ UNCHANGED registered
       ELSE /\ lpc' = [lpc EXCEPT ![l] = "start"]
            /\ registered' = [registered EXCEPT ![l] = TRUE]
    /\ UNCHANGED <<listener_map, ports, container_lock, listener_running,
                   opened, spc, object>>
    /\ RunFrame

(* shadow_server_start opens the port.                                     *)
RunStart(l) ==
    /\ lpc[l] = "start"
    /\ \/ /\ port[l] \notin Bound
          /\ lpc' = [lpc EXCEPT ![l] = "set_running"]
          /\ opened' = [opened EXCEPT ![l] = TRUE]
       \/ /\ port[l] \in Bound \/ "start" \in Faults
          /\ lpc' = [lpc EXCEPT ![l] = "cleanup"]
          /\ UNCHANGED opened
    /\ UNCHANGED <<listener_map, ports, container_lock, listener_running,
                   registered, spc, object>>
    /\ RunFrame

RunSetRunning(l) ==
    /\ lpc[l] = "set_running"
    /\ listener_running' = [listener_running EXCEPT ![l] = TRUE]
    /\ lpc' = [lpc EXCEPT ![l] = "loop"]
    /\ UNCHANGED <<listener_map, ports, container_lock, registered, opened,
                   spc, object>>
    /\ RunFrame

(* Mutant: RunServer returns without shutdown().                           *)
RunLoopReturns(l) ==
    /\ lpc[l] = "loop" /\ ~listener_running[l]
    /\ lpc' = [lpc EXCEPT ![l] = "return"]
    /\ UNCHANGED <<listener_map, ports, container_lock, listener_running,
                   registered, opened, spc, object>>
    /\ RunFrame

RunLoopExits(l) ==
    /\ lpc[l] = "loop" /\ ~listener_running[l]
    /\ lpc' = [lpc EXCEPT ![l] = "cleanup"]
    /\ UNCHANGED <<listener_map, ports, container_lock, listener_running,
                   registered, opened, spc, object>>
    /\ RunFrame

(* Mutant: UnregisterVM keeps the port.                                    *)
UnregisterKeepsPort(l) ==
    /\ lpc[l] = "cleanup" /\ container_lock = "free"
    /\ container_lock' = "unregister"
    /\ lpc' = [lpc EXCEPT ![l] = "erase"]
    /\ UNCHANGED <<listener_map, ports, listener_running, registered, opened,
                   spc, object>>
    /\ RunFrame

(* shutdown() calls UnregisterVM, which erases the port and then the map   *)
(* entry of the UUID, both under the lock.                                 *)
UnregisterPort(l) ==
    /\ lpc[l] = "cleanup" /\ container_lock = "free"
    /\ container_lock' = "unregister"
    /\ ports' = ports \ {port[l]}
    /\ lpc' = [lpc EXCEPT ![l] = "erase"]
    /\ UNCHANGED <<listener_map, listener_running, registered, opened, spc,
                   object>>
    /\ RunFrame

UnregisterEntry(l) ==
    /\ lpc[l] = "erase"
    /\ listener_map' = [listener_map EXCEPT ![uuid[l]] = NoListener]
    /\ container_lock' = "free"
    /\ lpc' = [lpc EXCEPT ![l] = "return"]
    /\ ReleaseUnreferenced(lpc', listener_map', server)
    /\ UNCHANGED <<ports, listener_running, registered, opened, spc>>
    /\ RunFrame

(* The thread ends and its shared_ptr with it.                             *)
RunReturn(l) ==
    /\ lpc[l] = "return"
    /\ lpc' = [lpc EXCEPT ![l] = "gone"]
    /\ ReleaseUnreferenced(lpc', listener_map, server)
    /\ UNCHANGED <<listener_map, ports, container_lock, listener_running,
                   registered, opened, spc>>
    /\ RunFrame

RunServer(l) ==
    \/ RunInit(l) \/ RunRegisterObject(l) \/ RunStart(l) \/ RunSetRunning(l)
    \/ RunLoopExits(l) \/ UnregisterPort(l) \/ UnregisterEntry(l)
    \/ RunReturn(l)
-----------------------------------------------------------------------------
(* ~RDPListener.                                                           *)

DtorFlag(l) ==
    /\ object[l] = "dtor_flag"
    /\ listener_running' = [listener_running EXCEPT ![l] = FALSE]
    /\ object' = [object EXCEPT ![l] = "dtor_uninit"]
    /\ UNCHANGED <<listener_map, ports, container_lock, workerVars,
                   created, uuid, port, lpc, registered, opened, spc,
                   hostVars>>

(* shadow_server_uninit sets the stop event, waits for the shadow server's *)
(* own thread, closes the port and frees the subsystem.  Nothing waits for *)
(* the subsystem thread.                                                   *)
DtorUninit(l) ==
    /\ object[l] = "dtor_uninit"
    /\ opened[l] => spc[l] # "none"
    /\ opened' = [opened EXCEPT ![l] = FALSE]
    /\ object' = [object EXCEPT ![l] = "dtor_bus"]
    /\ UNCHANGED <<listener_map, ports, container_lock, workerVars,
                   created, uuid, port, lpc, listener_running, registered, spc,
                   hostVars>>

DtorUnregister(l) ==
    /\ object[l] = "dtor_bus"
    /\ registered' = [registered EXCEPT ![l] = FALSE]
    /\ object' = [object EXCEPT ![l] = "dead"]
    /\ UNCHANGED <<listener_map, ports, container_lock, workerVars,
                   created, uuid, port, lpc, listener_running, opened, spc,
                   hostVars>>

Dtor(l) == DtorFlag(l) \/ DtorUninit(l) \/ DtorUnregister(l)
-----------------------------------------------------------------------------
(* The subsystem thread.                                                   *)

SubsystemFrame ==
    UNCHANGED <<listener_map, ports, container_lock, workerVars,
                listenerVars, object, hostVars>>

Freed(l) == object[l] \in {"dtor_bus", "dead"}

(* The shadow server's thread calls rdpmux_subsystem_start some time after *)
(* the port has been opened.                                               *)
rdpmux_subsystem_start(l) ==
    /\ opened[l] /\ spc[l] = "none"
    /\ spc' = [spc EXCEPT ![l] = "check"]
    /\ SubsystemFrame

(* The test of listenerRunning(), which says anything on a freed listener. *)
SubsystemCheck(l) ==
    /\ spc[l] = "check"
    /\ \/ /\ \E run \in IF Freed(l) THEN BOOLEAN ELSE {listener_running[l]} :
                spc' = [spc EXCEPT ![l] = IF run THEN "frame" ELSE "done"]
          /\ SubsystemFrame
       \/ Freed(l) /\ Crash

(* The rest of the loop body: leave on the stop event, which is set when   *)
(* the server is being freed, else copy a frame.                           *)
SubsystemFrames(l) ==
    /\ spc[l] = "frame"
    /\ \/ /\ \E stop \in IF Freed(l) THEN BOOLEAN ELSE {FALSE} :
                spc' = [spc EXCEPT ![l] = IF stop THEN "done" ELSE "check"]
          /\ SubsystemFrame
       \/ Freed(l) /\ Crash

rdpmux_subsystem_thread(l) == SubsystemCheck(l) \/ SubsystemFrames(l)
-----------------------------------------------------------------------------
(* Requests to a listener.                                                 *)

WorkerFrame ==
    UNCHANGED <<listener_map, ports, container_lock, listenerVars, spc,
                object, hostVars>>

(* The worker looks a message's UUID up.  It does so without               *)
(* container_lock: while another thread changes the map, an entry may be   *)
(* missed, or the search may step on a node that is being freed.           *)
WorkerFind(u, m) ==
    /\ server = NoListener /\ found = NoListener
    /\ \/ /\ listener_map[u] # NoListener
          /\ found' = listener_map[u] /\ message' = m
          /\ UNCHANGED <<server, torn>>
          /\ WorkerFrame
       \/ /\ listener_map[u] = NoListener \/ container_lock # "free"
          /\ UNCHANGED vars
       \/ container_lock # "free" /\ Crash

(* It copies the shared_ptr of the node that it has found.  If the node    *)
(* has been erased meanwhile, the copy is of freed memory: the pointer     *)
(* that was there, to a listener that may be gone, or worse.               *)
WorkerCopy ==
    LET erased == \A u \in UUIDs : listener_map[u] # found
    IN  /\ found # NoListener
        /\ \/ /\ server' = found /\ found' = NoListener /\ torn' = erased
              /\ UNCHANGED message
              /\ WorkerFrame
           \/ erased /\ Crash

(* processIncomingMessage, and the end of the scope that holds the pointer. *)
WorkerProcess ==
    /\ server # NoListener
    /\ \/ /\ listener_running' =
                 IF message = "SHUTDOWN"
                 THEN [listener_running EXCEPT ![server] = FALSE]
                 ELSE listener_running
          /\ server' = NoListener /\ message' = "none" /\ torn' = FALSE
          /\ ReleaseUnreferenced(lpc, listener_map, NoListener)
          /\ UNCHANGED <<listener_map, ports, container_lock, found, created,
                         uuid, port, lpc, registered, opened, spc, hostVars>>
       \/ object[server] # "live" /\ Crash

(* The Shutdown method of the listener's bus object.                       *)
BusShutdown(l) ==
    /\ registered[l]
    /\ listener_running' = [listener_running EXCEPT ![l] = FALSE]
    /\ UNCHANGED <<listener_map, ports, container_lock, workerVars, created,
                   uuid, port, lpc, registered, opened, spc, object, hostVars>>
-----------------------------------------------------------------------------
(* Other programs open and close ports of the host.                        *)

ForeignOpen(p) ==
    /\ p \notin Bound /\ foreign' = foreign \cup {p}
    /\ UNCHANGED <<listener_map, ports, container_lock, workerVars,
                   listenerVars, spc, object, proc, shared>>

ForeignClose(p) ==
    /\ p \in foreign /\ foreign' = foreign \ {p}
    /\ UNCHANGED <<listener_map, ports, container_lock, workerVars,
                   listenerVars, spc, object, proc, shared>>

Next ==
    /\ Running
    /\ \/ \E u \in UUIDs, p \in PortRequests : RegisterNewVM(u, p)
       \/ RegisterInsert
       \/ \E l \in Listeners :
             \/ RunServer(l) \/ Dtor(l)
             \/ rdpmux_subsystem_start(l) \/ rdpmux_subsystem_thread(l)
             \/ BusShutdown(l)
       \/ \E u \in UUIDs, m \in {"SHUTDOWN", "DISPLAY_UPDATE"} : WorkerFind(u, m)
       \/ WorkerCopy \/ WorkerProcess
       \/ \E p \in ForeignPorts : ForeignOpen(p) \/ ForeignClose(p)

Spec == Init /\ [][Next]_vars

(* Every thread that can go on does so.                                    *)
FairSpec ==
    /\ Spec
    /\ WF_vars(Running /\ RegisterInsert)
    /\ WF_vars(Running /\ (WorkerCopy \/ WorkerProcess))
    /\ \A l \in Listeners :
          /\ WF_vars(Running /\ RunServer(l)) /\ WF_vars(Running /\ Dtor(l))
          /\ WF_vars(Running /\ rdpmux_subsystem_start(l))
          /\ WF_vars(Running /\ rdpmux_subsystem_thread(l))
-----------------------------------------------------------------------------
(* The states each variable ranges over.                                   *)
RunPositions == {"unborn", "init", "register_object", "start", "set_running",
                 "loop", "cleanup", "erase", "return", "gone"}

TypeOK ==
    /\ listener_map \in [UUIDs -> Listeners \cup {NoListener}]
    /\ ports \subseteq AutoPorts \cup (PortRequests \ {0})
    /\ container_lock \in {"free", "register", "unregister"}
    /\ found \in Listeners \cup {NoListener}
    /\ server \in Listeners \cup {NoListener} /\ torn \in BOOLEAN
    /\ message \in {"none", "SHUTDOWN", "DISPLAY_UPDATE"}
    /\ created \in 0 .. MaxListeners
    /\ uuid \in [Listeners -> UUIDs \cup {"none"}]
    /\ port \in [Listeners -> Nat]
    /\ lpc \in [Listeners -> RunPositions]
    /\ listener_running \in [Listeners -> BOOLEAN]
    /\ registered \in [Listeners -> BOOLEAN]
    /\ opened \in [Listeners -> BOOLEAN]
    /\ spc \in [Listeners -> {"none", "check", "frame", "done"}]
    /\ object \in [Listeners -> {"unborn", "live", "dtor_flag", "dtor_uninit",
                                 "dtor_bus", "dead"}]
    /\ foreign \subseteq ForeignPorts
    /\ proc \in {"running", "crashed"}
    /\ shared \subseteq Listeners

(* The listener has a port in the set and has not begun to give it back.   *)
Serving(l) == lpc[l] \notin {"unborn", "erase", "return", "gone"}

(* ports holds exactly the ports of the listeners that are being served,   *)
(* and no two of them share one, through every interleaving of             *)
(* registrations and terminations (RDPServerWorker.h:138, "Set containing  *)
(* all in-use ports.").                                                    *)
PortsExact ==
    /\ ports = {port[l] : l \in {k \in Listeners : Serving(k)}}
    /\ \A l, k \in Listeners :
          Serving(l) /\ Serving(k) /\ port[l] = port[k] => l = k

(* A port picked by the search is not held by another listener when        *)
(* shadow_server_start opens it, although the trial socket has long been   *)
(* closed and an earlier listener leaves the set before its port is closed. *)
NoRivalAtStart ==
    \A l, k \in Listeners :
        lpc[l] \in {"init", "register_object", "start"} /\ opened[k]
            => port[k] # port[l]

(* RegisterNewVM has started the listener and not yet entered it.          *)
BeingEntered(l) == container_lock = "register" /\ l = created

(* While a listener serves a VM, messages of that VM are dispatched to it: *)
(* no registration, failed start or termination of another listener takes  *)
(* its entry, except when both were known under one UUID at the same time. *)
ServedVMReachable ==
    \A l \in Listeners :
        Serving(l) /\ ~BeingEntered(l) /\ l \notin shared
            => listener_map[uuid[l]] = l


(* The map leads to live listeners of the right VM only, and a pointer     *)
(* that the worker has copied from an entry in place keeps its listener    *)
(* alive until the message is processed.                                   *)
PointersLive ==
    /\ server # NoListener /\ ~torn => object[server] = "live"
    /\ \A u \in UUIDs :
          listener_map[u] # NoListener =>
              object[listener_map[u]] = "live" /\ uuid[listener_map[u]] = u

(* RDPListener.h:55, of the destructor: "Safely cleans up the              *)
(* freerdp_listener struct and frees all WinPR objects."  Neither the      *)
(* subsystem thread, which nothing waits for, nor the worker, for which    *)
(* RDPServerWorker.h:143 promises a "mutex on ports so that concurrent     *)
(* accesses are okay.", may then still be using the listener.              *)
DestroyedUnused ==
    \A l \in Listeners :
        /\ spc[l] \in {"check", "frame"} => ~Freed(l)
        /\ server = l => object[l] = "live"

(* The destructor only ever meets a listener whose RunServer thread has    *)
(* left and whose flag is down: its grace period of 200 ms never applies.  *)
StoppedBeforeDestroyed ==
    \A l \in Listeners :
        object[l] \notin {"unborn", "live"} =>
            lpc[l] = "gone" /\ ~listener_running[l]

(* Registration and termination, as threads and locks carry them out,      *)
(* implement the lease table of PortLease.                                 *)
LeaseOf(u) ==
    IF \E l \in Listeners : Serving(l) /\ uuid[l] = u
    THEN port[CHOOSE l \in Listeners : Serving(l) /\ uuid[l] = u] ELSE 0

Lease == INSTANCE PortLease WITH
             VMs <- UUIDs, PortNumbers <- AutoPorts,
             lease <- [u \in UUIDs |-> LeaseOf(u)]

ImplementsLease == Lease!Spec

(* A listener that failed to start, or whose flag was taken down in the    *)
(* loop, is destroyed in the end, its port closed and its bus object gone, *)
(* whatever the worker, the other listeners and its own subsystem thread   *)
(* do, unless a use of freed memory ends the process.                      *)
StoppedIsDestroyed ==
    \A l \in Listeners :
        (lpc[l] = "cleanup" \/ (lpc[l] = "loop" /\ ~listener_running[l]))
            ~> \/ object[l] = "dead" /\ ~opened[l] /\ ~registered[l]
               \/ ~Running
=============================================================================

---------------------------- MODULE Registration ----------------------------
(***************************************************************************)
(* How a hypervisor registers its VM: mux_get_socket_path (lib/src/dbus.c) *)
(* with the generated proxy on one side, and on the other the process of   *)
(* the server (src/main.cpp: start, name, object, Register method, SIGINT) *)
(* or, instead of it, a service built on the generated skeleton.           *)
(*                                                                         *)
(* Server processes may be started, interrupted and killed at any time,    *)
(* also while another one still runs, and may be of different versions.    *)
(* SIGINT may be handled on any of their threads; a process that is gone   *)
(* keeps its name until the bus notices.  An answer may die with its       *)
(* process, or come after the hypervisor has given up and perhaps called   *)
(* again.  The bus and its queue for the well-known name are external.     *)
(***************************************************************************)
EXTENDS BusCalls

CONSTANTS
    Procs,          \* processes of the server
    Version,        \* RDPMUX_PROTOCOL_VERSION compiled into each process
    LibVersion,     \* ... and into the library
    StartPorts,     \* values of the option --port
    MaxAttempts,    \* bound on the calls of mux_get_socket_path per client
    MaxStarts       \* bound on the processes started

ASSUME RegistrationAssumption ==
    /\ Version \in [Procs -> Nat]
    /\ LibVersion \in Nat
    /\ StartPorts \subseteq Nat
    /\ MaxAttempts \in Nat /\ MaxStarts \in Nat
    /\ Null \notin Procs

VARIABLES
    service,        \* what is on the bus: "server", a service that uses the
                    \* "skeleton", or one that exports all "interfaces"
    ppc,            \* position of each server process
    broker,         \* its pointer broker is not null
    bound,          \* its worker's socket holds the ipc address
    handler,        \* the thread inside handle_SIGINT: "main" (the main
                    \* loop's), the "worker" (with stop_mutex locked), an
                    \* "other", or "none"
    object,         \* its object is exported
    owners,         \* the bus's queue for the name org.RDPMux.RDPMux
    successors,     \* processes that queued behind one that was leaving
    starts,         \* processes started so far
    phase,          \* position of each client in mux_get_socket_path
    attempt,        \* number of the client's call of mux_get_socket_path
    out_path,       \* what the client's call left in out_path
    call,           \* the exchange of each Register call: state and target
    vms,            \* registrations each process holds
    ever,           \* registrations ever made, with the server's version
    late            \* calls whose client gave up before the answer

serviceVars == <<service, callsVars>>
processVars == <<ppc, broker, bound, handler, object, owners, successors, starts>>
clientVars == <<phase, attempt, out_path>>
callVars == <<call, vms, ever, late>>
vars == <<bindingVars, serviceVars, processVars, clientVars, callVars>>

Calls == Clients \X (1 .. MaxAttempts)
Current(c) == <<c, attempt[c]>>
Running == {"waiting", "requested", "serving"}
Handlers == {"main", "worker", "other"}

Init ==
    /\ skeleton_init /\ proxy_init /\ CallsInit
    /\ service \in {"server", "skeleton", "interfaces"}
    /\ ppc = [p \in Procs |-> "down"]
    /\ broker = [p \in Procs |-> FALSE]
    /\ bound = [p \in Procs |-> FALSE]
    /\ handler = [p \in Procs |-> "none"]
    /\ object = [p \in Procs |-> FALSE]
    /\ owners = <<>> /\ successors = {} /\ starts = 0
    /\ phase = [c \in Clients |-> "idle"]
    /\ attempt = [c \in Clients |-> 0]
    /\ out_path = [c \in Clients |-> Null]
    /\ call = [x \in Calls |-> [state |-> "none", to |-> Null]]
    /\ vms = [p \in Procs |-> {}]
    /\ ever = {} /\ late = {}
-----------------------------------------------------------------------------
(* The server process.                                                     *)

(* process_options and what main does before it creates the worker; --help *)
(* and options it cannot parse end the process at once.                    *)
process_options(p) ==
    /\ service = "server" /\ ppc[p] = "down" /\ starts < MaxStarts
    /\ starts' = starts + 1
    /\ ppc' = [ppc EXCEPT ![p] = "starting"]
    /\ UNCHANGED <<bindingVars, serviceVars, broker, bound, handler, object,
                   owners, successors, clientVars, callVars>>

ValidPort(port) == port > 0 /\ port < 65535

(* Mutant: the address of the worker's socket can be bound twice.          *)
main_shared(p, port) ==
    LET ok == ValidPort(port)
    IN  /\ ppc[p] = "starting"
        /\ broker' = [broker EXCEPT ![p] = ok]
        /\ bound' = [bound EXCEPT ![p] = ok]
        /\ ppc' = [ppc EXCEPT ![p] = IF ok THEN "waiting" ELSE "down"]
        /\ UNCHANGED <<bindingVars, serviceVars, handler, object, owners,
                       successors, starts, clientVars, callVars>>

(* main checks the port and creates the worker, whose constructor throws   *)
(* if another process has bound the socket; Initialize always succeeds.    *)
(* Then it asks for the bus and enters the main loop.                      *)
main(p, port) ==
    LET ok == ValidPort(port) /\ \A q \in Procs : ~bound[q]
    IN  /\ ppc[p] = "starting"
        /\ broker' = [broker EXCEPT ![p] = ok]
        /\ bound' = [bound EXCEPT ![p] = ok]
        /\ ppc' = [ppc EXCEPT ![p] = IF ok THEN "waiting" ELSE "down"]
        /\ UNCHANGED <<bindingVars, serviceVars, handler, object, owners,
                       successors, starts, clientVars, callVars>>

(* The main loop of p can call back.                                       *)
Dispatching(p) == ppc[p] \in Running /\ handler[p] # "main"

(* q has given the ipc address up and still has its place in the queue.    *)
Leaving(q) == ppc[q] = "dead" \/ (ppc[q] \in Running /\ ~bound[q])

(* on_bus_acquired exports the object and hands the connection on to the   *)
(* worker; then own_name requests the name.  Without broker the process    *)
(* dies here (process_dies).                                               *)
on_bus_acquired(p) ==
    /\ ppc[p] = "waiting" /\ Dispatching(p) /\ broker[p]
    /\ object' = [object EXCEPT ![p] = TRUE]
    /\ owners' = Append(owners, p)
    /\ successors' = IF \E q \in Procs : Leaving(q)
                     THEN successors \cup {p} ELSE successors \ {p}
    /\ ppc' = [ppc EXCEPT ![p] = "requested"]
    /\ UNCHANGED <<bindingVars, serviceVars, broker, bound, handler, starts,
                   clientVars, callVars>>

(* on_name_acquired does nothing, even if the object is no longer there.   *)
on_name_acquired(p) ==
    /\ ppc[p] = "requested" /\ Dispatching(p)
    /\ owners # <<>> /\ Head(owners) = p
    /\ ppc' = [ppc EXCEPT ![p] = "serving"]
    /\ UNCHANGED <<bindingVars, serviceVars, broker, bound, handler, object,
                   owners, successors, starts, clientVars, callVars>>

(* on_name_lost: the name belongs to another process; this one stays in    *)
(* the queue for it and runs on, without its object.                       *)
on_name_lost(p) ==
    /\ ppc[p] = "requested" /\ Dispatching(p) /\ Head(owners) # p
    /\ object[p]
    /\ object' = [object EXCEPT ![p] = FALSE]
    /\ UNCHANGED <<bindingVars, serviceVars, ppc, broker, bound, handler,
                   owners, successors, starts, clientVars, callVars>>

(* handle_SIGINT runs on whatever thread the signal is delivered to.  It   *)
(* first sets broker to null, then destroys the worker.                    *)
handle_SIGINT(p, t) ==
    /\ ppc[p] \in Running /\ handler[p] = "none"
    /\ handler' = [handler EXCEPT ![p] = t]
    /\ broker' = [broker EXCEPT ![p] = FALSE]
    /\ UNCHANGED <<bindingVars, serviceVars, ppc, bound, object, owners,
                   successors, starts, clientVars, callVars>>

(* The worker and its socket are destroyed; then the signal is raised      *)
(* again.  On the worker's own thread the destructor waits for stop_mutex, *)
(* which run() holds but for the moment between two rounds, for good; in   *)
(* that moment it goes through as on any "other" thread.                   *)
worker_destroyed(p) ==
    /\ handler[p] \in {"main", "other"} /\ bound[p]
    /\ bound' = [bound EXCEPT ![p] = FALSE]
    /\ UNCHANGED <<bindingVars, serviceVars, ppc, broker, handler, object,
                   owners, successors, starts, clientVars, callVars>>

(* The end of a process, after SIGINT, by another signal, by exit(129)     *)
(* when the object cannot be exported, because on_name_lost is called      *)
(* without a connection, or through a null broker.  The kernel frees its   *)
(* address; its listeners and the replies it has not sent are lost.        *)
process_dies(p) ==
    /\ ppc[p] \in Running
    /\ ppc' = [ppc EXCEPT ![p] = "dead"]
    /\ broker' = [broker EXCEPT ![p] = FALSE]
    /\ bound' = [bound EXCEPT ![p] = FALSE]
    /\ handler' = [handler EXCEPT ![p] = "none"]
    /\ object' = [object EXCEPT ![p] = FALSE]
    /\ vms' = [vms EXCEPT ![p] = {}]
    /\ UNCHANGED <<bindingVars, serviceVars, owners, successors, starts,
                   clientVars, call, ever, late>>

(* The queue for the name after p has left it.  A process is in it once at *)
(* most.                                                                   *)
Leaves(queue, p) ==
    IF \A i \in DOMAIN queue : queue[i] # p THEN queue
    ELSE LET n == CHOOSE i \in DOMAIN queue : queue[i] = p
         IN  SubSeq(queue, 1, n - 1) \o SubSeq(queue, n + 1, Len(queue))

(* Calls that wait for a reply, and those whose reply is made but has not  *)
(* left the server's process.                                              *)
Queued == {"queued_path", "queued_empty"}
Unanswered == {"sent", "handled"} \cup Queued

(* The bus notices that p is gone: it takes p out of the queue for the     *)
(* name and answers the calls p has left open.                             *)
bus_drops_name(p) ==
    /\ ppc[p] = "dead"
    /\ ppc' = [ppc EXCEPT ![p] = "down"]
    /\ owners' = Leaves(owners, p)
    /\ call' = [x \in Calls |->
                   IF call[x].state \in Unanswered /\ call[x].to = p
                   THEN [call[x] EXCEPT !.state = "error"] ELSE call[x]]
    /\ UNCHANGED <<bindingVars, serviceVars, broker, bound, handler, object,
                   successors, starts, clientVars, vms, ever, late>>

Answer(x, a) == call' = [call EXCEPT ![x].state = a]

(* RegisterNewVM succeeds: the caller has a listener.                      *)
Registers(p, x) ==
    /\ vms' = [vms EXCEPT ![p] = @ \cup {x}]
    /\ ever' = ever \cup {[who |-> x, version |-> Version[p]]}

(* Mutant: the version is looked at after the registration.                *)
on_method_call_late(p, x) ==
    /\ Dispatching(p) /\ object[p] /\ broker[p]
    /\ call[x] = [state |-> "sent", to |-> p]
    /\ \/ /\ Answer(x, IF Version[p] = LibVersion
                       THEN "queued_path" ELSE "queued_empty")
          /\ Registers(p, x)
       \/ Answer(x, "queued_empty") /\ UNCHANGED <<vms, ever>>
    /\ UNCHANGED <<bindingVars, serviceVars, processVars, clientVars, late>>

(* on_method_call for Register.  A caller of another version, and one for  *)
(* which RegisterNewVM fails, gets an empty path.  return_value only       *)
(* queues the reply.  Registering without broker kills the process         *)
(* (process_dies); a call refused for its version needs none.              *)
on_method_call(p, x) ==
    /\ Dispatching(p) /\ object[p]
    /\ call[x] = [state |-> "sent", to |-> p]
    /\ \/ /\ Version[p] = LibVersion /\ broker[p]
          /\ Answer(x, "queued_path") /\ Registers(p, x)
       \/ /\ Version[p] = LibVersion => broker[p]
          /\ Answer(x, "queued_empty") /\ UNCHANGED <<vms, ever>>
    /\ UNCHANGED <<bindingVars, serviceVars, processVars, clientVars, late>>

(* GDBus answers for an object that is not there.                          *)
no_such_object(p, x) ==
    /\ ppc[p] \in Running /\ ~object[p]
    /\ call[x] = [state |-> "sent", to |-> p]
    /\ Answer(x, "error")
    /\ UNCHANGED <<bindingVars, serviceVars, processVars, clientVars, vms, ever,
                   late>>

(* The thread of GDBus sends a queued reply.                               *)
send_reply(p, x) ==
    /\ ppc[p] \in Running
    /\ call[x].state \in Queued /\ call[x].to = p
    /\ Answer(x, IF call[x].state = "queued_path" THEN "path" ELSE "empty")
    /\ UNCHANGED <<bindingVars, serviceVars, processVars, clientVars, vms, ever,
                   late>>

(* on_property_call: a server supports the one version it is built with.   *)
on_property_call(p) == <<Version[p]>>

ServerNext ==
    \/ \E p \in Procs :
           \/ process_options(p)
           \/ \E port \in StartPorts : main(p, port)
           \/ on_bus_acquired(p)
           \/ on_name_acquired(p)
           \/ on_name_lost(p)
           \/ \E t \in Handlers : handle_SIGINT(p, t)
           \/ worker_destroyed(p)
           \/ process_dies(p)
           \/ bus_drops_name(p)
           \/ \E x \in Calls :
                  on_method_call(p, x) \/ no_such_object(p, x) \/ send_reply(p, x)
-----------------------------------------------------------------------------
(* A service on the skeleton.                                              *)

(* handle_method_call emits handle-register; if no handler takes the       *)
(* invocation the caller gets an error.                                    *)
skeleton_handle_method_call(x) ==
    /\ service = "skeleton" /\ call[x].state = "sent"
    /\ \E a \in {"handled", "error"} : Answer(x, a)
    /\ UNCHANGED <<bindingVars, serviceVars, processVars, clientVars, vms, ever,
                   late>>

(* The handler completes the invocation, in its own time and in any order: *)
(* with a path if it has made a registration, else with an empty one.      *)
complete_register(x) ==
    /\ call[x].state = "handled"
    /\ \/ /\ Answer(x, "path")
          /\ ever' = ever \cup {[who |-> x, version |-> LibVersion]}
       \/ Answer(x, "empty") /\ UNCHANGED ever
    /\ UNCHANGED <<bindingVars, serviceVars, processVars, clientVars, vms, late>>
-----------------------------------------------------------------------------
(* mux_get_socket_path.                                                    *)

Move(c, to) == phase' = [phase EXCEPT ![c] = to]

(* A call; without an object path it fails at once.  A new proxy begins    *)
(* with its subscription.                                                  *)
mux_get_socket_path(c, obj) ==
    /\ service # "interfaces"
    /\ phase[c] \in {"idle", "false"} /\ attempt[c] < MaxAttempts
    /\ attempt' = [attempt EXCEPT ![c] = @ + 1]
    /\ out_path' = [out_path EXCEPT ![c] = Null]
    /\ IF obj = Null
       THEN Move(c, "false") /\ UNCHANGED bindingVars
       ELSE Move(c, "connecting") /\ proxy_subscribe(c)
    /\ UNCHANGED <<serviceVars, processVars, callVars>>

Serving == {p \in Procs : owners # <<>> /\ Head(owners) = p
                          /\ Dispatching(p) /\ object[p]}

(* What GetAll answers; Null if nobody does.                               *)
Loaded ==
    IF service = "skeleton" THEN {handle_get_property}
    ELSE IF Serving = {} THEN {Null}
    ELSE {on_property_call(p) : p \in Serving}

(* proxy_new_for_bus_sync returns: with an error if there is no bus, else  *)
(* with a proxy, loaded or not.                                            *)
proxy_new_for_bus_sync(c) ==
    /\ phase[c] = "connecting"
    /\ \/ Move(c, "false") /\ UNCHANGED bindingVars
       \/ Move(c, "checking") /\ \E v \in Loaded : proxy_load(c, v)
    /\ UNCHANGED <<serviceVars, processVars, attempt, out_path, callVars>>

(* The version check: the list has to be there, and its first element has  *)
(* to be the version of the library.                                       *)
Compatible(list) == list # Null /\ list # <<>> /\ Head(list) = LibVersion

(* Whom the bus hands a call for the name to.                              *)
Callee == IF service = "skeleton" THEN Null
          ELSE IF owners = <<>> THEN Null ELSE Head(owners)

Reachable == service = "skeleton" \/ owners # <<>>

(* call_register_sync sends the call; with no owner the bus answers it.    *)
call_register_sync(c) ==
    LET list == proxy_get_supported_protocol_versions(c)
        x == Current(c)
    IN  /\ phase[c] = "checking"
        /\ IF Compatible(list)
           THEN /\ Move(c, "called")
                /\ call' = [call EXCEPT
                      ![x] = [state |-> IF Reachable THEN "sent" ELSE "error",
                              to |-> Callee]]
           ELSE Move(c, "false") /\ UNCHANGED call
        /\ UNCHANGED <<bindingVars, serviceVars, processVars, attempt, out_path,
                       vms, ever, late>>

(* call_register_sync returns.  Any answer that is not an error counts as  *)
(* success, an empty path as well.                                         *)
register_returns(c) ==
    LET a == call[Current(c)].state
    IN  /\ phase[c] = "called"
        /\ a \in {"path", "empty", "error"}
        /\ IF a = "error"
           THEN Move(c, "false") /\ UNCHANGED out_path
           ELSE Move(c, "true") /\ out_path' = [out_path EXCEPT ![c] = a]
        /\ UNCHANGED <<bindingVars, serviceVars, processVars, attempt, callVars>>

(* Mutant: the call waits without a limit.                                 *)
register_timeout_never(c) ==
    /\ phase[c] = "called" /\ call[Current(c)].state = "none"
    /\ Move(c, "false")
    /\ late' = late \cup {Current(c)}
    /\ UNCHANGED <<bindingVars, serviceVars, processVars, attempt, out_path,
                   call, vms, ever>>

(* No answer within the default time: an error.  The call itself goes on,  *)
(* and its answer is dropped.                                              *)
register_timeout(c) ==
    /\ phase[c] = "called"
    /\ call[Current(c)].state \in Unanswered
    /\ Move(c, "false")
    /\ late' = late \cup {Current(c)}
    /\ UNCHANGED <<bindingVars, serviceVars, processVars, attempt, out_path,
                   call, vms, ever>>

ClientSteps(c) ==
    \/ proxy_new_for_bus_sync(c)
    \/ call_register_sync(c)
    \/ register_returns(c)
    \/ register_timeout(c)

(* Mutant: signals go to a main context that only runs during the call.    *)
Deliver_blocked(c) ==
    /\ phase[c] = "called"
    /\ proxy_g_properties_changed(c)
    /\ UNCHANGED <<serviceVars, processVars, clientVars, callVars>>

(* The main loop of the client's thread runs outside the blocking call.    *)
Deliver(c) ==
    /\ phase[c] \in {"idle", "true", "false"}
    /\ proxy_g_properties_changed(c)
    /\ UNCHANGED <<serviceVars, processVars, clientVars, callVars>>

ServiceSteps ==
    /\ service = "skeleton"
    /\ SkeletonSteps
    /\ UNCHANGED <<serviceVars, processVars, clientVars, callVars>>

Service ==
    /\ service = "skeleton"
    /\ SkeletonNext
    /\ UNCHANGED <<serviceVars, processVars, clientVars, callVars>>

(* Callers of the generated functions and a service with their handlers.   *)
InterfaceCalls ==
    /\ service = "interfaces"
    /\ CallsNext
    /\ UNCHANGED <<bindingVars, service, processVars, clientVars, callVars>>

Next ==
    \/ ServerNext
    \/ Service
    \/ InterfaceCalls
    \/ \E x \in Calls : skeleton_handle_method_call(x) \/ complete_register(x)
    \/ \E c \in Clients :
           \/ \E obj \in {"obj", Null} : mux_get_socket_path(c, obj)
           \/ ClientSteps(c)
           \/ Deliver(c)

Spec == Init /\ [][Next]_vars

(* Threads go on, main loops run their sources, the bus delivers, and a    *)
(* blocking call ends by its answer or its timeout.  Nothing obliges       *)
(* anyone to start, to set the property or to call.                        *)
Fairness ==
    /\ WF_vars(ServiceSteps)
    /\ \A c \in Clients : WF_vars(ClientSteps(c)) /\ WF_vars(Deliver(c))

FairSpec == Spec /\ Fairness
-----------------------------------------------------------------------------
(* The variables have their types.                                         *)
TypeOK ==
    /\ BindingTypeOK /\ CallsTypeOK
    /\ service \in {"server", "skeleton", "interfaces"}
    /\ ppc \in [Procs -> Running \cup {"down", "starting", "dead"}]
    /\ broker \in [Procs -> BOOLEAN] /\ bound \in [Procs -> BOOLEAN]
    /\ handler \in [Procs -> Handlers \cup {"none"}]
    /\ object \in [Procs -> BOOLEAN]
    /\ owners \in Seq(Procs)
    /\ successors \subseteq Procs
    /\ starts \in 0 .. MaxStarts
    /\ phase \in [Clients -> {"idle", "connecting", "checking", "called",
                              "true", "false"}]
    /\ attempt \in [Clients -> 0 .. MaxAttempts]
    /\ out_path \in [Clients -> {Null, "path", "empty"}]
    /\ call \in [Calls -> [state : Unanswered
                                     \cup {"none", "path", "empty", "error"},
                            to : Procs \cup {Null}]]
    /\ vms \in [Procs -> SUBSET Calls]
    /\ late \subseteq Calls

(* When mux_get_socket_path has returned, the hypervisor knows where it    *)
(* stands, whatever processes ended and started during the call.  Told of  *)
(* success, it has a socket path exactly if a server of its own version    *)
(* registered this very call.  Told of failure, no living server holds a   *)
(* listener for the call, unless the hypervisor gave up waiting for it: a  *)
(* server that dies between RegisterNewVM and its reply takes the listener *)
(* with it before the caller is told.                                      *)
AnswerExact ==
    \A c \in Clients :
        LET x == Current(c)
            registered == {r \in ever : r.who = x}
        IN  /\ \A r \in ever : r.version = LibVersion
            /\ phase[c] = "true" => (registered # {} <=> out_path[c] = "path")
            /\ phase[c] = "false" => (\A p \in Procs : x \notin vms[p])
                                     \/ x \in late

(* A process that has the well-known name and is not inside handle_SIGINT  *)
(* answers it: its object is still exported and its worker is there for    *)
(* Register to use.  A second server is turned away by the ipc address     *)
(* before it can queue for the name.  The exceptions are the successors: a *)
(* process killed without warning frees the ipc address before the bus     *)
(* drops its name, and one inside handle_SIGINT before it ends.  A server  *)
(* started in that moment is first told that it has lost the name,         *)
(* unregisters its object (main.cpp:163), and then gets the name without.  *)
NameOwnerServes ==
    \A p \in Procs :
        ppc[p] = "serving" /\ handler[p] = "none"
            => broker[p] /\ (object[p] \/ p \in successors)

(* A subscriber that loaded the property while no change was pending gets  *)
(* to know the value it has in the end.                                    *)
AnnouncementArrives ==
    \A c \in Clients :
        (c \in follows /\ cache[c] # ToVariant(properties))
            ~> (c \notin follows \/ cache[c] = ToVariant(properties))

(* mux_get_socket_path always returns, also when the server ends, never    *)
(* completes the invocation or is not there at all: the hypervisor's       *)
(* thread is blocked in it.                                                *)
EveryAttemptEnds ==
    \A c \in Clients :
        phase[c] \in {"connecting", "checking", "called"}
            ~> phase[c] \in {"true", "false"}
=============================================================================

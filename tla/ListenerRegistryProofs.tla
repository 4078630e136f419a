----------------------- MODULE ListenerRegistryProofs -----------------------
(***************************************************************************)
(* Proofs about ListenerRegistry, for every set of VMs and ports and every *)
(* number of listeners.  The first two parts hold for any use of the       *)
(* server; the rest for VMs that have their own UUIDs and leave the choice *)
(* of the port to the server (OrderlyUse).                                 *)
(***************************************************************************)
EXTENDS ListenerRegistry, WellFoundedInduction, TLAPS

(* A set of natural numbers that is not empty has a least element.         *)
LEMMA LeastNatural ==
    ASSUME NEW S, S \subseteq Nat, S # {}
    PROVE  \E x \in S : \A y \in S : x <= y
<1>1. PICK x \in S : \A y \in S : ~(<<y, x>> \in OpToRel(<, Nat))
  BY WFMin, NatLessThanWellFounded
<1>2. \A y \in S : ~(y < x)
  BY <1>1 DEF OpToRel
<1> QED
  BY <1>2

(* The automatic search returns a port that is neither listed nor bound,   *)
(* or 0 if there is none.                                                  *)
LEMMA SearchFindsFree ==
    ChoosePort(0) # 0 => ChoosePort(0) \in FreePorts
<1> SUFFICES ASSUME FreePorts # {}
             PROVE  ChoosePort(0) \in FreePorts
  BY DEF ChoosePort
<1>1. FreePorts \subseteq Nat
  BY RegistryAssumption DEF FreePorts
<1>2. \E q \in FreePorts : \A r \in FreePorts : q <= r
  BY <1>1, LeastNatural
<1> QED
  BY <1>2 DEF ChoosePort

(* The port a listener gets is a port of the search or the one asked for.  *)
LEMMA ChosenPort ==
    ASSUME NEW p \in PortRequests, ChoosePort(p) # 0
    PROVE  /\ ChoosePort(p) \in AutoPorts \cup (PortRequests \ {0})
           /\ ChoosePort(p) \in Nat
<1>1. CASE p = 0
  BY <1>1, SearchFindsFree, RegistryAssumption DEF FreePorts
<1>2. CASE p # 0
  BY <1>2, RegistryAssumption DEF ChoosePort
<1> QED
  BY <1>1, <1>2
-----------------------------------------------------------------------------
(* Any use.                                                                *)

(* Listeners are created in order; each is alive while its thread runs,    *)
(* its flag is up only in the loop of RunServer, and its port is open only *)
(* after shadow_server_start.                                              *)
Lifecycle ==
    \A l \in Listeners :
        /\ lpc[l] = "unborn" <=> l > created
        /\ lpc[l] = "unborn" <=> object[l] = "unborn"
        /\ lpc[l] # "unborn" => uuid[l] \in UUIDs
        /\ lpc[l] \notin {"unborn", "gone"} => object[l] = "live"
        /\ listener_running[l] => lpc[l] = "loop"
        /\ opened[l] =>
               lpc[l] \notin {"unborn", "init", "register_object", "start"}

(* container_lock is held by the registration of the listener created      *)
(* last, which still serves, or by the one thread inside UnregisterVM.     *)
LockHeld ==
    /\ container_lock = "register" => created # 0 /\ Serving(created)
    /\ \A l \in Listeners : lpc[l] = "erase" => container_lock = "unregister"
    /\ \A l, k \in Listeners : lpc[l] = "erase" /\ lpc[k] = "erase" => l = k

SafeInv ==
    TypeOK /\ Lifecycle /\ LockHeld /\ PointersLive /\ StoppedBeforeDestroyed

LEMMA SafeInit == Init => SafeInv
<1> SUFFICES ASSUME Init PROVE SafeInv
  OBVIOUS
<1> USE RegistryAssumption
<1>1. TypeOK
  <2>1. torn \in BOOLEAN /\ foreign \subseteq ForeignPorts
    BY Zenon DEF Init
  <2> QED
    BY <2>1 DEF Init, TypeOK, RunPositions, Listeners, NoListener
<1>2. Lifecycle
  BY DEF Init, Lifecycle, Listeners
<1>3. LockHeld
  BY DEF Init, LockHeld
<1>4. PointersLive /\ StoppedBeforeDestroyed
  BY DEF Init, PointersLive, StoppedBeforeDestroyed, NoListener
<1> QED
  BY <1>1, <1>2, <1>3, <1>4 DEF SafeInv

(* Registration: the new listener was not known to anybody.                *)
LEMMA SafeRegister ==
    ASSUME SafeInv, NEW u \in UUIDs, NEW p \in PortRequests,
           RegisterNewVM(u, p)
    PROVE  SafeInv'
<1> DEFINE q == ChoosePort(p)
           l == created + 1
<1>0. /\ TypeOK /\ Lifecycle /\ LockHeld /\ PointersLive
      /\ StoppedBeforeDestroyed
  BY DEF SafeInv
<1>1. /\ container_lock = "free" /\ created < MaxListeners /\ q # 0
      /\ ports' = ports \cup {q}
      /\ UNCHANGED <<listener_map, found, server, message, torn, spc, foreign,
                     proc>>
  BY DEF RegisterNewVM, workerVars
<1>2. q \in AutoPorts \cup (PortRequests \ {0}) /\ q \in Nat
  BY <1>1, ChosenPort
<1>3. ports' \subseteq AutoPorts \cup (PortRequests \ {0})
  BY <1>0, <1>1, <1>2 DEF TypeOK
<1>4. CASE UNCHANGED <<container_lock, object, listenerVars, shared>>
  <2>1. TypeOK'
    BY <1>0, <1>1, <1>3, <1>4 DEF TypeOK, listenerVars
  <2>2. Lifecycle' /\ LockHeld' /\ PointersLive' /\ StoppedBeforeDestroyed'
    BY <1>0, <1>1, <1>4 DEF Lifecycle, LockHeld, Serving, PointersLive,
       StoppedBeforeDestroyed, listenerVars
  <2> QED
    BY <2>1, <2>2 DEF SafeInv
<1>5. CASE /\ container_lock' = "register" /\ created' = l
           /\ uuid' = [uuid EXCEPT ![l] = u]
           /\ port' = [port EXCEPT ![l] = q]
           /\ lpc' = [lpc EXCEPT ![l] = "init"]
           /\ object' = [object EXCEPT ![l] = "live"]
           /\ shared' \in {shared, shared \cup {l} \cup
                               {k \in Listeners : Known(k) /\ uuid[k] = u}}
           /\ UNCHANGED <<listener_running, registered, opened>>
  <2>1. /\ created \in 0 .. MaxListeners /\ MaxListeners \in Nat
        /\ l \in Listeners /\ created' \in 0 .. MaxListeners
    BY <1>0, <1>1, <1>5, RegistryAssumption DEF TypeOK, Listeners
  <2>2. lpc[l] = "unborn" /\ object[l] = "unborn"
    BY <1>0, <2>1 DEF Lifecycle
  <2> HIDE DEF q, l
  <2>3. TypeOK'
    BY <1>0, <1>1, <1>2, <1>3, <1>5, <2>1 DEF TypeOK, RunPositions
  <2>4. Lifecycle'
    <3> SUFFICES ASSUME NEW k \in Listeners
                 PROVE  /\ lpc'[k] = "unborn" <=> k > created'
                        /\ lpc'[k] = "unborn" <=> object'[k] = "unborn"
                        /\ lpc'[k] # "unborn" => uuid'[k] \in UUIDs
                        /\ lpc'[k] \notin {"unborn", "gone"} =>
                               object'[k] = "live"
                        /\ listener_running'[k] => lpc'[k] = "loop"
                        /\ opened'[k] =>
                               lpc'[k] \notin {"unborn", "init",
                                               "register_object", "start"}
      BY DEF Lifecycle
    <3> QED
      BY <1>0, <1>5, <2>1, <2>2 DEF TypeOK, Lifecycle, Listeners, l
  <2>5. LockHeld'
    BY <1>0, <1>1, <1>5, <2>1 DEF TypeOK, LockHeld, Serving, l
  <2>6. PointersLive'
    BY <1>0, <1>1, <1>5, <2>1, <2>2 DEF TypeOK, PointersLive
  <2>7. StoppedBeforeDestroyed'
    BY <1>0, <1>5, <2>1, <2>2 DEF TypeOK, StoppedBeforeDestroyed
  <2> QED
    BY <2>3, <2>4, <2>5, <2>6, <2>7 DEF SafeInv
<1> QED
  BY <1>4, <1>5 DEF RegisterNewVM

LEMMA SafeInsert == SafeInv /\ RegisterInsert => SafeInv'
<1> SUFFICES ASSUME SafeInv, RegisterInsert PROVE SafeInv'
  OBVIOUS
<1>0. /\ TypeOK /\ Lifecycle /\ LockHeld /\ PointersLive
      /\ StoppedBeforeDestroyed
  BY DEF SafeInv
<1>1. /\ container_lock = "register" /\ container_lock' = "free"
      /\ UNCHANGED <<ports, found, server, message, torn, listenerVars, spc,
                     object, foreign, proc, shared>>
  BY DEF RegisterInsert, workerVars, hostVars
<1>2. created \in Listeners /\ lpc[created] \notin {"unborn", "gone"}
  BY <1>0, <1>1, RegistryAssumption
  DEF TypeOK, LockHeld, Listeners, Serving
<1>3. object[created] = "live" /\ uuid[created] \in UUIDs
  BY <1>0, <1>2 DEF Lifecycle
<1>4. /\ listener_map' \in [UUIDs -> Listeners \cup {NoListener}]
      /\ \A u \in UUIDs : listener_map'[u] = listener_map[u]
             \/ (u = uuid[created] /\ listener_map'[u] = created)
  BY <1>0, <1>2, <1>3 DEF RegisterInsert, TypeOK
<1>5. TypeOK'
  BY <1>0, <1>1, <1>4 DEF TypeOK, listenerVars
<1>6. Lifecycle' /\ StoppedBeforeDestroyed'
  BY <1>0, <1>1 DEF Lifecycle, StoppedBeforeDestroyed, listenerVars
<1>7. LockHeld'
  BY <1>0, <1>1 DEF LockHeld, listenerVars
<1>8. PointersLive'
  BY <1>0, <1>1, <1>3, <1>4 DEF PointersLive, listenerVars
<1> QED
  BY <1>5, <1>6, <1>7, <1>8 DEF SafeInv

(* RunServer up to its call of shutdown().                                 *)
EarlyPositions == {"init", "register_object", "start", "set_running", "loop"}

RunEarly(l) ==
    \/ RunInit(l) \/ RunRegisterObject(l) \/ RunStart(l)
    \/ RunSetRunning(l) \/ RunLoopExits(l)

(* What these steps have in common.                                        *)
LEMMA EarlySteps ==
    ASSUME NEW l \in Listeners, RunEarly(l), SafeInv
    PROVE  /\ lpc[l] \in EarlyPositions
           /\ \E b \in {"register_object", "start", "set_running", "loop",
                        "cleanup"} :
                 /\ lpc' = [lpc EXCEPT ![l] = b]
                 /\ b \in {"register_object", "start"} => ~opened'[l]
                 /\ b # "loop" => ~listener_running'[l]
           /\ listener_running' \in [Listeners -> BOOLEAN]
           /\ registered' \in [Listeners -> BOOLEAN]
           /\ opened' \in [Listeners -> BOOLEAN]
           /\ \A k \in Listeners \ {l} :
                 /\ listener_running'[k] = listener_running[k]
                 /\ opened'[k] = opened[k]
           /\ UNCHANGED <<listener_map, ports, container_lock, found, server,
                          message, torn, created, uuid, port, spc, object,
                          foreign, proc, shared>>
<1>0. TypeOK /\ Lifecycle
  BY DEF SafeInv
<1>1. CASE RunInit(l)
  BY <1>0, <1>1 DEF RunInit, RunFrame, TypeOK, Lifecycle,
     EarlyPositions, workerVars, hostVars
<1>2. CASE RunRegisterObject(l)
  BY <1>0, <1>2
  DEF RunRegisterObject, RunFrame, TypeOK, Lifecycle,
     EarlyPositions, workerVars, hostVars
<1>3. CASE RunStart(l)
  BY <1>0, <1>3 DEF RunStart, RunFrame, TypeOK, Lifecycle,
     EarlyPositions, workerVars, hostVars
<1>4. CASE RunSetRunning(l)
  BY <1>0, <1>4 DEF RunSetRunning, RunFrame, TypeOK, Lifecycle,
     EarlyPositions, workerVars, hostVars
<1>5. CASE RunLoopExits(l)
  BY <1>0, <1>5 DEF RunLoopExits, RunFrame, TypeOK, Lifecycle,
     EarlyPositions, workerVars, hostVars
<1> QED
  BY <1>1, <1>2, <1>3, <1>4, <1>5 DEF RunEarly

LEMMA SafeEarly ==
    ASSUME SafeInv, NEW l \in Listeners, RunEarly(l)
    PROVE  SafeInv'
<1>0. /\ TypeOK /\ Lifecycle /\ LockHeld /\ PointersLive
      /\ StoppedBeforeDestroyed
  BY DEF SafeInv
<1>1. PICK b \in {"register_object", "start", "set_running", "loop",
                  "cleanup"} :
         /\ lpc' = [lpc EXCEPT ![l] = b]
         /\ b \in {"register_object", "start"} => ~opened'[l]
         /\ b # "loop" => ~listener_running'[l]
  BY EarlySteps
<1>2. /\ lpc[l] \in EarlyPositions
      /\ UNCHANGED <<listener_map, ports, container_lock, found, server,
                     message, torn, created, uuid, port, spc, object, foreign,
                     proc, shared>>
  BY EarlySteps
<1>3. /\ listener_running' \in [Listeners -> BOOLEAN]
      /\ registered' \in [Listeners -> BOOLEAN]
      /\ opened' \in [Listeners -> BOOLEAN]
      /\ \A k \in Listeners \ {l} :
           /\ listener_running'[k] = listener_running[k]
           /\ opened'[k] = opened[k]
  BY EarlySteps
<1>4. TypeOK'
  BY <1>0, <1>1, <1>2, <1>3 DEF TypeOK, RunPositions
<1>5. Lifecycle'
  BY <1>0, <1>1, <1>2, <1>3 DEF TypeOK, Lifecycle, EarlyPositions
<1>6. LockHeld'
  BY <1>0, <1>1, <1>2 DEF TypeOK, LockHeld, Serving, EarlyPositions, Listeners
<1>7. PointersLive'
  BY <1>0, <1>2 DEF PointersLive
<1>8. StoppedBeforeDestroyed'
  BY <1>0, <1>1, <1>2, <1>3
  DEF TypeOK, Lifecycle, StoppedBeforeDestroyed, EarlyPositions
<1> QED
  BY <1>4, <1>5, <1>6, <1>7, <1>8 DEF SafeInv

(* UnregisterVM waits for the lock, so it is not in the way of a           *)
(* registration.                                                           *)
LEMMA SafeUnregisterPort ==
    ASSUME SafeInv, NEW l \in Listeners, UnregisterPort(l)
    PROVE  SafeInv'
<1>0. /\ TypeOK /\ Lifecycle /\ LockHeld /\ PointersLive
      /\ StoppedBeforeDestroyed
  BY DEF SafeInv
<1>1. /\ lpc[l] = "cleanup" /\ container_lock = "free"
      /\ container_lock' = "unregister" /\ ports' = ports \ {port[l]}
      /\ lpc' = [lpc EXCEPT ![l] = "erase"]
      /\ UNCHANGED <<listener_map, listener_running, registered, opened, spc,
                     object, found, server, message, torn, created, uuid, port,
                     foreign, proc, shared>>
  BY DEF UnregisterPort, RunFrame, workerVars, hostVars
<1>2. TypeOK'
  BY <1>0, <1>1 DEF TypeOK, RunPositions
<1>3. Lifecycle'
  BY <1>0, <1>1 DEF TypeOK, Lifecycle
<1>4. LockHeld'
  BY <1>0, <1>1 DEF TypeOK, LockHeld
<1>5. PointersLive' /\ StoppedBeforeDestroyed'
  BY <1>0, <1>1
  DEF TypeOK, Lifecycle, PointersLive, StoppedBeforeDestroyed
<1> QED
  BY <1>2, <1>3, <1>4, <1>5 DEF SafeInv

(* A release lets a listener enter its destructor if its thread has left   *)
(* and nobody points to it; no other listener changes.                     *)
LEMMA SafeUnregisterEntry ==
    ASSUME SafeInv, NEW l \in Listeners, UnregisterEntry(l)
    PROVE  SafeInv'
<1>0. /\ TypeOK /\ Lifecycle /\ LockHeld /\ PointersLive
      /\ StoppedBeforeDestroyed
  BY DEF SafeInv
<1>1. /\ lpc[l] = "erase" /\ container_lock' = "free"
      /\ listener_map' = [listener_map EXCEPT ![uuid[l]] = NoListener]
      /\ lpc' = [lpc EXCEPT ![l] = "return"]
      /\ UNCHANGED <<ports, listener_running, registered, opened, spc,
                     found, server, message, torn, created, uuid, port,
                     foreign, proc, shared>>
  BY DEF UnregisterEntry, RunFrame, workerVars, hostVars
<1>2. /\ object' \in [Listeners -> {"unborn", "live", "dtor_flag",
                                    "dtor_uninit", "dtor_bus", "dead"}]
      /\ \A k \in Listeners :
            \/ object'[k] = object[k]
            \/ /\ object[k] = "live" /\ object'[k] = "dtor_flag"
               /\ lpc'[k] = "gone" /\ server # k
               /\ \A u \in UUIDs : listener_map'[u] # k
  BY <1>0 DEF UnregisterEntry, ReleaseUnreferenced, Referenced, TypeOK
<1>3. TypeOK'
  BY <1>0, <1>1, <1>2 DEF TypeOK, RunPositions
<1>4. Lifecycle'
  BY <1>0, <1>1, <1>2 DEF TypeOK, Lifecycle
<1>5. LockHeld'
  BY <1>0, <1>1 DEF TypeOK, LockHeld
<1>6. \A u \in UUIDs : listener_map'[u] \in {listener_map[u], NoListener}
  BY <1>0, <1>1 DEF TypeOK
<1>7. PointersLive'
  BY <1>0, <1>1, <1>2, <1>6 DEF TypeOK, PointersLive
<1>8. StoppedBeforeDestroyed'
  BY <1>0, <1>1, <1>2 DEF TypeOK, Lifecycle, StoppedBeforeDestroyed
<1> QED
  BY <1>3, <1>4, <1>5, <1>7, <1>8 DEF SafeInv

LEMMA SafeReturn ==
    ASSUME SafeInv, NEW l \in Listeners, RunReturn(l)
    PROVE  SafeInv'
<1>0. /\ TypeOK /\ Lifecycle /\ LockHeld /\ PointersLive
      /\ StoppedBeforeDestroyed
  BY DEF SafeInv
<1>1. /\ lpc[l] = "return" /\ lpc' = [lpc EXCEPT ![l] = "gone"]
      /\ UNCHANGED <<listener_map, ports, container_lock, listener_running,
                     registered, opened, spc, found, server, message, torn,
                     created, uuid, port, foreign, proc, shared>>
  BY DEF RunReturn, RunFrame, workerVars, hostVars
<1>2. /\ object' \in [Listeners -> {"unborn", "live", "dtor_flag",
                                    "dtor_uninit", "dtor_bus", "dead"}]
      /\ \A k \in Listeners :
            \/ object'[k] = object[k]
            \/ /\ object[k] = "live" /\ object'[k] = "dtor_flag"
               /\ lpc'[k] = "gone" /\ server # k
               /\ \A u \in UUIDs : listener_map[u] # k
  BY <1>0 DEF RunReturn, ReleaseUnreferenced, Referenced, TypeOK
<1>3. TypeOK'
  BY <1>0, <1>1, <1>2 DEF TypeOK, RunPositions
<1>4. Lifecycle'
  BY <1>0, <1>1, <1>2 DEF TypeOK, Lifecycle
<1>5. LockHeld'
  BY <1>0, <1>1 DEF TypeOK, LockHeld, Serving, Listeners
<1>6. PointersLive'
  BY <1>0, <1>1, <1>2 DEF TypeOK, PointersLive
<1>7. StoppedBeforeDestroyed'
  BY <1>0, <1>1, <1>2 DEF TypeOK, Lifecycle, StoppedBeforeDestroyed
<1> QED
  BY <1>3, <1>4, <1>5, <1>6, <1>7 DEF SafeInv

(* The destructor.                                                         *)
LEMMA SafeDtor ==
    ASSUME SafeInv, NEW l \in Listeners, Dtor(l)
    PROVE  SafeInv'
<1>0. /\ TypeOK /\ Lifecycle /\ LockHeld /\ PointersLive
      /\ StoppedBeforeDestroyed
  BY DEF SafeInv
<1>1. PICK o \in {"dtor_uninit", "dtor_bus", "dead"} :
         object' = [object EXCEPT ![l] = o]
  BY DEF Dtor, DtorFlag, DtorUninit, DtorUnregister
<1>2. /\ object[l] \in {"dtor_flag", "dtor_uninit", "dtor_bus"}
      /\ UNCHANGED <<listener_map, ports, container_lock, found, server,
                     message, torn, created, uuid, port, lpc, spc, foreign,
                     proc, shared>>
  BY DEF Dtor, DtorFlag, DtorUninit, DtorUnregister, workerVars, hostVars
<1>3. /\ listener_running' \in [Listeners -> BOOLEAN]
      /\ registered' \in [Listeners -> BOOLEAN]
      /\ opened' \in [Listeners -> BOOLEAN]
      /\ \A k \in Listeners : /\ listener_running'[k] => listener_running[k]
                              /\ opened'[k] => opened[k]
  BY <1>0 DEF Dtor, DtorFlag, DtorUninit, DtorUnregister, TypeOK
<1>4. TypeOK'
  BY <1>0, <1>1, <1>2, <1>3 DEF TypeOK
<1>5. Lifecycle'
  BY <1>0, <1>1, <1>2, <1>3 DEF TypeOK, Lifecycle, StoppedBeforeDestroyed
<1>6. LockHeld'
  BY <1>0, <1>2 DEF LockHeld, Serving
<1>7. PointersLive'
  BY <1>0, <1>1, <1>2 DEF TypeOK, PointersLive
<1>8. StoppedBeforeDestroyed'
  BY <1>0, <1>1, <1>2, <1>3 DEF TypeOK, StoppedBeforeDestroyed
<1> QED
  BY <1>4, <1>5, <1>6, <1>7, <1>8 DEF SafeInv

(* A crash stops everything where it is.                                   *)
LEMMA SafeCrash == SafeInv /\ Crash => SafeInv'
BY DEF Crash, workerVars, listenerVars, SafeInv, TypeOK, Lifecycle, LockHeld,
   Serving, PointersLive, StoppedBeforeDestroyed

(* The subsystem thread, the Shutdown method and the other programs.       *)
LEMMA SafeOthers ==
    ASSUME SafeInv,
           \/ \E l \in Listeners : \/ rdpmux_subsystem_start(l)
                                   \/ rdpmux_subsystem_thread(l)
                                   \/ BusShutdown(l)
           \/ \E p \in ForeignPorts : ForeignOpen(p) \/ ForeignClose(p)
    PROVE  SafeInv'
<1>0. /\ TypeOK /\ Lifecycle /\ LockHeld /\ PointersLive
      /\ StoppedBeforeDestroyed
  BY DEF SafeInv
<1> DEFINE Quiet ==
              /\ UNCHANGED <<listener_map, ports, container_lock, found, server,
                             message, torn, created, uuid, port, lpc,
                             registered, opened, object, proc, shared>>
              /\ listener_running' \in [Listeners -> BOOLEAN]
              /\ \A k \in Listeners : listener_running'[k] => listener_running[k]
              /\ spc' \in [Listeners -> {"none", "check", "frame", "done"}]
              /\ foreign' \subseteq ForeignPorts
<1>1. ASSUME NEW l \in Listeners, rdpmux_subsystem_start(l) PROVE Quiet
  BY <1>0, <1>1 DEF rdpmux_subsystem_start, SubsystemFrame, workerVars,
     listenerVars, hostVars, TypeOK
<1>2. ASSUME NEW l \in Listeners, rdpmux_subsystem_thread(l)
      PROVE  Quiet \/ Crash
  BY <1>0, <1>2 DEF rdpmux_subsystem_thread, SubsystemCheck, SubsystemFrames,
     SubsystemFrame, workerVars, listenerVars, hostVars, TypeOK
<1>3. ASSUME NEW l \in Listeners, BusShutdown(l) PROVE Quiet
  BY <1>0, <1>3 DEF BusShutdown, workerVars, hostVars, TypeOK
<1>4. ASSUME NEW p \in ForeignPorts, ForeignOpen(p) \/ ForeignClose(p)
      PROVE  Quiet
  BY <1>0, <1>4 DEF ForeignOpen, ForeignClose, workerVars, listenerVars, TypeOK
<1>5. CASE Quiet
  <2>1. TypeOK'
    BY <1>0, <1>5 DEF TypeOK
  <2>2. Lifecycle' /\ StoppedBeforeDestroyed'
    BY <1>0, <1>5 DEF Lifecycle, StoppedBeforeDestroyed
  <2>3. LockHeld' /\ PointersLive'
    BY <1>0, <1>5 DEF LockHeld, Serving, PointersLive
  <2> QED
    BY <2>1, <2>2, <2>3 DEF SafeInv
<1> QED
  BY <1>1, <1>2, <1>3, <1>4, <1>5, SafeCrash

(* Dispatch: a node that is still in the map has a live pointer in it, and *)
(* what the worker releases is released by nobody else.                    *)
LEMMA SafeFind ==
    ASSUME SafeInv, NEW u \in UUIDs, NEW m \in {"SHUTDOWN", "DISPLAY_UPDATE"},
           WorkerFind(u, m)
    PROVE  SafeInv'
<1>0. /\ TypeOK /\ Lifecycle /\ LockHeld /\ PointersLive
      /\ StoppedBeforeDestroyed
  BY DEF SafeInv
<1>1. CASE /\ UNCHANGED <<listener_map, ports, container_lock, created, uuid,
                          port, lpc, listener_running, registered, opened, spc,
                          object, server, torn, foreign, proc, shared>>
           /\ found' \in {found, listener_map[u]} /\ message' \in {message, m}
  <2>1. TypeOK'
    BY <1>0, <1>1 DEF TypeOK
  <2>2. Lifecycle' /\ LockHeld' /\ StoppedBeforeDestroyed'
    BY <1>0, <1>1 DEF Lifecycle, LockHeld, Serving, StoppedBeforeDestroyed
  <2>3. PointersLive'
    BY <1>0, <1>1 DEF PointersLive
  <2> QED
    BY <2>1, <2>2, <2>3 DEF SafeInv
<1>2. CASE Crash
  BY <1>2, SafeCrash
<1> QED
  BY <1>1, <1>2
  DEF WorkerFind, WorkerFrame, listenerVars, workerVars, hostVars, vars

LEMMA SafeCopy == SafeInv /\ WorkerCopy => SafeInv'
<1> SUFFICES ASSUME SafeInv, WorkerCopy PROVE SafeInv'
  OBVIOUS
<1>0. /\ TypeOK /\ Lifecycle /\ LockHeld /\ PointersLive
      /\ StoppedBeforeDestroyed
  BY DEF SafeInv
<1>1. CASE /\ UNCHANGED <<listener_map, ports, container_lock, created, uuid,
                          port, lpc, listener_running, registered, opened, spc,
                          object, message, foreign, proc, shared>>
           /\ server' = found /\ found' = NoListener
           /\ torn' = (\A u \in UUIDs : listener_map[u] # found)
           /\ found # NoListener
  <2>1. TypeOK'
    BY <1>0, <1>1 DEF TypeOK
  <2>2. Lifecycle' /\ LockHeld' /\ StoppedBeforeDestroyed'
    BY <1>0, <1>1 DEF Lifecycle, LockHeld, Serving, StoppedBeforeDestroyed
  <2>3. PointersLive'
    BY <1>0, <1>1 DEF PointersLive
  <2> QED
    BY <2>1, <2>2, <2>3 DEF SafeInv
<1>2. CASE Crash
  BY <1>2, SafeCrash
<1> QED
  BY <1>1, <1>2
  DEF WorkerCopy, WorkerFrame, listenerVars, workerVars, hostVars

LEMMA SafeProcess == SafeInv /\ WorkerProcess => SafeInv'
<1> SUFFICES ASSUME SafeInv, WorkerProcess, ~Crash PROVE SafeInv'
  BY SafeCrash
<1>0. /\ TypeOK /\ Lifecycle /\ LockHeld /\ PointersLive
      /\ StoppedBeforeDestroyed
  BY DEF SafeInv
<1>1. /\ server' = NoListener /\ message' = "none" /\ torn' = FALSE
      /\ UNCHANGED <<listener_map, ports, container_lock, found, created, uuid,
                     port, lpc, registered, opened, spc, foreign, proc, shared>>
  BY DEF WorkerProcess, hostVars
<1>2. /\ listener_running' \in [Listeners -> BOOLEAN]
      /\ \A k \in Listeners : listener_running'[k] => listener_running[k]
  BY <1>0 DEF WorkerProcess, TypeOK
<1>3. /\ object' \in [Listeners -> {"unborn", "live", "dtor_flag",
                                    "dtor_uninit", "dtor_bus", "dead"}]
      /\ \A k \in Listeners :
            \/ object'[k] = object[k]
            \/ /\ object[k] = "live" /\ object'[k] = "dtor_flag"
               /\ lpc[k] = "gone" /\ NoListener # k
               /\ \A u \in UUIDs : listener_map[u] # k
  BY <1>0 DEF WorkerProcess, ReleaseUnreferenced, Referenced, TypeOK
<1>4. TypeOK'
  BY <1>0, <1>1, <1>2, <1>3 DEF TypeOK
<1>5. Lifecycle'
  BY <1>0, <1>1, <1>2, <1>3 DEF Lifecycle
<1>6. LockHeld'
  BY <1>0, <1>1 DEF LockHeld, Serving
<1>7. PointersLive'
  BY <1>0, <1>1, <1>3 DEF TypeOK, PointersLive
<1>8. StoppedBeforeDestroyed'
  BY <1>0, <1>1, <1>2, <1>3 DEF Lifecycle, StoppedBeforeDestroyed
<1> QED
  BY <1>4, <1>5, <1>6, <1>7, <1>8 DEF SafeInv

LEMMA SafeStep == SafeInv /\ [Next]_vars => SafeInv'
<1> SUFFICES ASSUME SafeInv, [Next]_vars PROVE SafeInv'
  OBVIOUS
<1>1. CASE UNCHANGED vars
  <2>1. UNCHANGED <<listener_map, ports, container_lock, found, server, message,
                    torn, created, uuid, port, lpc, listener_running,
                    registered, opened, spc, object, foreign, proc, shared>>
    BY <1>1 DEF vars, workerVars, listenerVars, hostVars
  <2> QED
    BY <2>1 DEF SafeInv, TypeOK, Lifecycle, LockHeld, Serving, PointersLive,
       StoppedBeforeDestroyed
<1>2. ASSUME NEW l \in Listeners, RunServer(l) PROVE SafeInv'
  BY <1>2, SafeEarly, SafeUnregisterPort, SafeUnregisterEntry, SafeReturn
  DEF RunServer, RunEarly
<1> QED
  BY <1>1, <1>2, SafeRegister, SafeInsert, SafeDtor, SafeOthers, SafeFind,
     SafeCopy, SafeProcess
  DEF Next

(* The invariant holds throughout, however the server is used.             *)
LEMMA SafeInvariant == Spec => []SafeInv
BY SafeInit, SafeStep, PTL DEF Spec

(* Type correctness of the registry.                                       *)
THEOREM RegistryTypes == Spec => []TypeOK
<1>1. SafeInv => TypeOK
  BY DEF SafeInv
<1> QED
  BY <1>1, SafeInvariant, PTL

(* Reference counting holds for any number of listeners, also when UUIDs   *)
(* are used twice and when start-up fails anywhere: the map leads to live  *)
(* listeners only, and the worker's copy keeps a listener alive, if the    *)
(* unlocked copy was taken from a node still in the map.                   *)
THEOREM NoDanglingPointers == Spec => []PointersLive
<1>1. SafeInv => PointersLive
  BY DEF SafeInv
<1> QED
  BY <1>1, SafeInvariant, PTL

(* A listener is destroyed only after its thread has left.                 *)
THEOREM DestroyedWhenStopped == Spec => []StoppedBeforeDestroyed
<1>1. SafeInv => StoppedBeforeDestroyed
  BY DEF SafeInv
<1> QED
  BY <1>1, SafeInvariant, PTL
-----------------------------------------------------------------------------
(* Any use: who is reachable.                                              *)

Exists(l) == object[l] \notin {"unborn", "dead"}

(* All steps but registration, RunServer up to shutdown() and UnregisterVM *)
(* close ports and let listeners go, and touch neither port set nor map.   *)
LetGo ==
    /\ UNCHANGED <<listener_map, ports, container_lock, created, uuid, port,
                   shared>>
    /\ \A k \in Listeners :
          /\ opened'[k] => opened[k]
          /\ Exists(k)' => Exists(k)
          /\ lpc'[k] = lpc[k] \/ (lpc[k] = "return" /\ lpc'[k] = "gone")

OtherStep ==
    \/ \E l \in Listeners :
          \/ RunReturn(l) \/ Dtor(l) \/ rdpmux_subsystem_start(l)
          \/ rdpmux_subsystem_thread(l) \/ BusShutdown(l)
    \/ \E u \in UUIDs, m \in {"SHUTDOWN", "DISPLAY_UPDATE"} : WorkerFind(u, m)
    \/ WorkerCopy \/ WorkerProcess
    \/ \E p \in ForeignPorts : ForeignOpen(p) \/ ForeignClose(p)

LEMMA LetGoSteps ==
    ASSUME SafeInv, OtherStep \/ UNCHANGED vars
    PROVE  LetGo
<1>0. TypeOK
  BY DEF SafeInv
<1>1. ASSUME NEW l \in Listeners, RunReturn(l) PROVE LetGo
  BY <1>0, <1>1 DEF LetGo, RunReturn, RunFrame, ReleaseUnreferenced, Exists,
     TypeOK, hostVars
<1>2. ASSUME NEW l \in Listeners, Dtor(l) PROVE LetGo
  BY <1>0, <1>2 DEF LetGo, Dtor, DtorFlag, DtorUninit, DtorUnregister, Exists,
     TypeOK, hostVars
<1>3. Crash \/ UNCHANGED vars => LetGo
  BY DEF LetGo, Crash, listenerVars, hostVars, Exists, vars
<1>4. ASSUME NEW l \in Listeners,
             \/ rdpmux_subsystem_start(l) \/ rdpmux_subsystem_thread(l)
             \/ BusShutdown(l)
      PROVE  LetGo
  BY <1>3, <1>4 DEF LetGo, rdpmux_subsystem_start, rdpmux_subsystem_thread,
     SubsystemCheck, SubsystemFrames, SubsystemFrame, BusShutdown,
     listenerVars, hostVars, Exists
<1>5. ASSUME NEW u \in UUIDs, NEW m, WorkerFind(u, m) PROVE LetGo
  BY <1>3, <1>5 DEF LetGo, WorkerFind, WorkerFrame, listenerVars, hostVars,
     Exists
<1>6. WorkerCopy => LetGo
  BY <1>3 DEF LetGo, WorkerCopy, WorkerFrame, listenerVars, hostVars, Exists
<1>7. WorkerProcess => LetGo
  BY <1>0, <1>3 DEF LetGo, WorkerProcess, ReleaseUnreferenced, Exists, TypeOK,
     hostVars
<1>8. ASSUME NEW p \in ForeignPorts, ForeignOpen(p) \/ ForeignClose(p)
      PROVE  LetGo
  BY <1>8 DEF LetGo, ForeignOpen, ForeignClose, listenerVars, Exists
<1> QED
  BY <1>1, <1>2, <1>3, <1>4, <1>5, <1>6, <1>7, <1>8 DEF OtherStep

(* Two listeners that are known under one UUID are noted as sharing it.    *)
TwinsNoted ==
    \A l, k \in Listeners :
        Known(l) /\ Known(k) /\ uuid[l] = uuid[k] /\ l # k => l \in shared

(* An entry leads to a listener that has not been erased, and never to the *)
(* one that is still to be entered.                                        *)
EntriesKnown ==
    \A u \in UUIDs :
        listener_map[u] # NoListener =>
            Known(listener_map[u]) /\ ~BeingEntered(listener_map[u])

ReachInv == SafeInv /\ TwinsNoted /\ EntriesKnown /\ ServedVMReachable

LEMMA ReachInit == Init => ReachInv
<1> SUFFICES ASSUME Init PROVE ReachInv
  OBVIOUS
<1>1. SafeInv
  BY SafeInit
<1>2. TwinsNoted /\ EntriesKnown /\ ServedVMReachable
  BY DEF Init, TwinsNoted, EntriesKnown, ServedVMReachable, Known, Serving
<1> QED
  BY <1>1, <1>2 DEF ReachInv

(* The new listener is not in the map, and its twins are noted with it.    *)
LEMMA ReachRegister ==
    ASSUME ReachInv, SafeInv', NEW u \in UUIDs, NEW p \in PortRequests,
           RegisterNewVM(u, p)
    PROVE  ReachInv'
<1> DEFINE twins == {k \in Listeners : Known(k) /\ uuid[k] = u}
<1>0. /\ SafeInv /\ TypeOK /\ Lifecycle /\ TwinsNoted /\ EntriesKnown
      /\ ServedVMReachable
  BY DEF ReachInv, SafeInv
<1>1. CASE UNCHANGED <<container_lock, object, listenerVars, shared>>
  <2>1. UNCHANGED <<listener_map, container_lock, created, uuid, lpc, shared>>
    BY <1>1 DEF RegisterNewVM, listenerVars
  <2> QED
    BY <1>0, <2>1 DEF ReachInv, TwinsNoted, EntriesKnown, ServedVMReachable,
       Known, Serving, BeingEntered
<1>2. CASE ~UNCHANGED <<container_lock, object, listenerVars, shared>>
  <2>1. PICK l \in Listeners : l = created + 1
    BY <1>0, RegistryAssumption DEF TypeOK, Listeners, RegisterNewVM
  <2>2. /\ container_lock = "free" /\ container_lock' = "register"
        /\ created' = l /\ uuid' = [uuid EXCEPT ![l] = u]
        /\ lpc' = [lpc EXCEPT ![l] = "init"]
        /\ shared' = IF twins = {} THEN shared ELSE shared \cup twins \cup {l}
        /\ UNCHANGED listener_map
    BY <1>2, <2>1 DEF RegisterNewVM
  <2>3. lpc[l] = "unborn"
    BY <1>0, <2>1, RegistryAssumption DEF Lifecycle, TypeOK, Listeners
  <2>4. \A k \in Listeners \ {l} :
           uuid'[k] = uuid[k] /\ (Known(k)' <=> Known(k))
               /\ (Serving(k)' <=> Serving(k))
    BY <1>0, <2>1, <2>2 DEF TypeOK, Known, Serving
  <2>5. uuid'[l] = u /\ Known(l)' /\ ~Known(l)
    BY <1>0, <2>1, <2>2, <2>3 DEF TypeOK, Known
  <2>6. TwinsNoted'
    <3> SUFFICES ASSUME NEW j \in Listeners, NEW k \in Listeners,
                        Known(j)', Known(k)', uuid'[j] = uuid'[k], j # k
                 PROVE  j \in shared'
      BY DEF TwinsNoted
    <3>1. CASE j # l /\ k # l
      BY <1>0, <2>2, <2>4, <3>1 DEF TwinsNoted
    <3>2. CASE j = l
      <4>1. k \in twins
        BY <2>4, <2>5, <3>2
      <4> QED
        BY <2>2, <3>2, <4>1
    <3>3. CASE k = l
      <4>1. j \in twins
        BY <2>4, <2>5, <3>3
      <4> QED
        BY <2>2, <4>1
    <3> QED
      BY <3>1, <3>2, <3>3
  <2>7. EntriesKnown'
    <3> SUFFICES ASSUME NEW v \in UUIDs, listener_map[v] # NoListener
                 PROVE  Known(listener_map[v])' /\ listener_map[v] # l
      BY <2>2 DEF EntriesKnown, BeingEntered
    <3>1. listener_map[v] \in Listeners /\ Known(listener_map[v])
      BY <1>0 DEF TypeOK, EntriesKnown
    <3> QED
      BY <2>2, <2>4, <2>5, <3>1 DEF Known
  <2>8. ServedVMReachable'
    <3> SUFFICES ASSUME NEW k \in Listeners, Serving(k)', ~BeingEntered(k)',
                        k \notin shared'
                 PROVE  listener_map[uuid'[k]] = k
      BY <2>2 DEF ServedVMReachable
    <3>1. k # l /\ ~BeingEntered(k)
      BY <2>2 DEF BeingEntered
    <3>2. k \notin shared
      BY <2>2
    <3> QED
      BY <1>0, <2>4, <3>1, <3>2 DEF ServedVMReachable
  <2> QED
    BY <2>6, <2>7, <2>8 DEF ReachInv
<1> QED
  BY <1>1, <1>2

(* insert() finds an entry in its way only under a shared UUID.            *)
LEMMA ReachInsert ==
    ASSUME ReachInv, SafeInv', RegisterInsert
    PROVE  ReachInv'
<1>0. /\ SafeInv /\ TypeOK /\ LockHeld /\ Lifecycle /\ PointersLive
      /\ TwinsNoted /\ EntriesKnown /\ ServedVMReachable
  BY DEF ReachInv, SafeInv
<1>1. /\ container_lock = "register" /\ container_lock' = "free"
      /\ UNCHANGED <<created, uuid, lpc, shared>>
  BY DEF RegisterInsert, listenerVars, hostVars
<1>2. created \in Listeners /\ Serving(created)
  BY <1>0, <1>1, RegistryAssumption DEF TypeOK, LockHeld, Listeners
<1>3. uuid[created] \in UUIDs /\ Known(created)
  BY <1>0, <1>2 DEF Lifecycle, Serving, Known
<1>4. TwinsNoted'
  BY <1>0, <1>1 DEF TwinsNoted, Known
<1>5. /\ listener_map[uuid[created]] = NoListener =>
            listener_map' = [listener_map EXCEPT ![uuid[created]] = created]
      /\ listener_map[uuid[created]] # NoListener =>
            listener_map' = listener_map
  BY DEF RegisterInsert
<1>6. EntriesKnown'
  <2> SUFFICES ASSUME NEW v \in UUIDs, listener_map'[v] # NoListener
               PROVE  Known(listener_map'[v])
    BY <1>1 DEF EntriesKnown, BeingEntered, Known
  <2>1. listener_map'[v] \in {listener_map[v], created}
    BY <1>0, <1>3, <1>5 DEF TypeOK
  <2> QED
    BY <1>0, <1>3, <2>1 DEF EntriesKnown
<1>7. ServedVMReachable'
  <2> SUFFICES ASSUME NEW k \in Listeners, Serving(k), k \notin shared
               PROVE  listener_map'[uuid[k]] = k
    BY <1>1 DEF ServedVMReachable, Serving
  <2>1. uuid[k] \in UUIDs /\ Known(k)
    BY <1>0 DEF Lifecycle, Serving, Known
  <2>2. CASE k = created
    <3>1. listener_map[uuid[k]] = NoListener
      <4> SUFFICES ASSUME listener_map[uuid[k]] # NoListener PROVE FALSE
        OBVIOUS
      <4>1. PICK j \in Listeners : j = listener_map[uuid[k]]
        BY <1>0, <2>1 DEF TypeOK
      <4>2. Known(j) /\ uuid[j] = uuid[k] /\ j # k
        BY <1>0, <1>1, <2>1, <2>2, <4>1
        DEF EntriesKnown, PointersLive, BeingEntered
      <4> QED
        BY <1>0, <2>1, <4>2 DEF TwinsNoted
    <3> QED
      BY <1>0, <1>5, <2>1, <2>2, <3>1 DEF TypeOK
  <2>3. CASE k # created
    <3>1. listener_map[uuid[k]] = k
      BY <1>0, <2>3 DEF ServedVMReachable, BeingEntered
    <3>2. k # NoListener
      BY RegistryAssumption DEF Listeners, NoListener
    <3> QED
      BY <1>0, <1>5, <2>1, <3>1, <3>2 DEF TypeOK
  <2> QED
    BY <2>2, <2>3
<1> QED
  BY <1>4, <1>6, <1>7 DEF ReachInv

(* Steps of RunServer that leave the map alone.                            *)
LEMMA ReachEarly ==
    ASSUME ReachInv, SafeInv', NEW l \in Listeners,
           RunEarly(l) \/ UnregisterPort(l)
    PROVE  ReachInv'
<1>0. /\ SafeInv /\ TypeOK /\ LockHeld /\ TwinsNoted /\ EntriesKnown
      /\ ServedVMReachable
  BY DEF ReachInv, SafeInv
<1>1. /\ UNCHANGED <<listener_map, created, uuid, shared>>
      /\ container_lock' = container_lock
             \/ (container_lock = "free" /\ container_lock' = "unregister")
  BY <1>0, EarlySteps DEF UnregisterPort, RunFrame, hostVars
<1>2. \A k \in Listeners :
         (Known(k)' <=> Known(k)) /\ (Serving(k)' => Serving(k))
  <2>1. CASE RunEarly(l)
    BY <1>0, <2>1, EarlySteps DEF TypeOK, Known, Serving, EarlyPositions
  <2>2. CASE UnregisterPort(l)
    BY <1>0, <2>2 DEF UnregisterPort, TypeOK, Known, Serving
  <2> QED
    BY <2>1, <2>2
<1>3. TwinsNoted'
  BY <1>0, <1>1, <1>2 DEF TwinsNoted
<1>4. EntriesKnown'
  BY <1>0, <1>1, <1>2 DEF EntriesKnown, BeingEntered, TypeOK
<1>5. ServedVMReachable'
  BY <1>0, <1>1, <1>2 DEF ServedVMReachable, BeingEntered
<1> QED
  BY <1>3, <1>4, <1>5 DEF ReachInv

(* UnregisterVM erases the entry of a UUID, which is this listener's or a  *)
(* noted twin's.                                                           *)
LEMMA ReachUnregisterEntry ==
    ASSUME ReachInv, SafeInv', NEW l \in Listeners, UnregisterEntry(l)
    PROVE  ReachInv'
<1>0. /\ SafeInv /\ TypeOK /\ Lifecycle /\ LockHeld /\ PointersLive
      /\ TwinsNoted /\ EntriesKnown /\ ServedVMReachable
  BY DEF ReachInv, SafeInv
<1>1. /\ lpc[l] = "erase" /\ container_lock' = "free"
      /\ listener_map' = [listener_map EXCEPT ![uuid[l]] = NoListener]
      /\ lpc' = [lpc EXCEPT ![l] = "return"]
      /\ UNCHANGED <<created, uuid, shared>>
  BY DEF UnregisterEntry, RunFrame, hostVars
<1>2. /\ Known(l) /\ ~Known(l)' /\ ~Serving(l)'
      /\ \A k \in Listeners \ {l} :
            (Known(k)' <=> Known(k)) /\ (Serving(k)' <=> Serving(k))
  BY <1>0, <1>1 DEF TypeOK, Known, Serving
<1>3. uuid[l] \in UUIDs
  BY <1>0, <1>1 DEF Lifecycle
<1>4. TwinsNoted'
  BY <1>0, <1>1, <1>2 DEF TwinsNoted
<1>5. EntriesKnown'
  <2> SUFFICES ASSUME NEW v \in UUIDs, listener_map'[v] # NoListener
               PROVE  Known(listener_map[v])'
    BY <1>1 DEF EntriesKnown, BeingEntered
  <2>1. listener_map'[v] = listener_map[v] /\ v # uuid[l]
    BY <1>0, <1>1 DEF TypeOK
  <2>2. listener_map[v] \in Listeners \ {l}
    BY <1>0, <2>1 DEF TypeOK, PointersLive
  <2>3. Known(listener_map[v])
    BY <1>0, <2>1 DEF EntriesKnown
  <2>4. Known(listener_map[v])' <=> lpc'[listener_map[v]] \notin
                                       {"unborn", "return", "gone"}
    BY <2>1 DEF Known
  <2> QED
    BY <1>0, <1>1, <2>2, <2>3, <2>4 DEF TypeOK, Known
<1>6. ServedVMReachable'
  <2> SUFFICES ASSUME NEW k \in Listeners, Serving(k)', k \notin shared
               PROVE  listener_map'[uuid[k]] = k
    BY <1>1 DEF ServedVMReachable
  <2>1. k # l /\ Serving(k) /\ Known(k)
    BY <1>2 DEF Serving, Known
  <2>2. uuid[k] # uuid[l]
    BY <1>0, <1>2, <2>1 DEF TwinsNoted
  <2>3. uuid[k] \in UUIDs
    BY <1>0, <2>1 DEF Lifecycle, Serving
  <2>4. ~BeingEntered(k)
    BY <1>0, <1>1 DEF BeingEntered, LockHeld
  <2>5. listener_map[uuid[k]] = k
    BY <1>0, <2>1, <2>4 DEF ServedVMReachable
  <2> QED
    BY <1>0, <1>1, <2>2, <2>3, <2>5 DEF TypeOK
<1> QED
  BY <1>4, <1>5, <1>6 DEF ReachInv

LEMMA ReachLetGo ==
    ASSUME ReachInv, SafeInv', LetGo
    PROVE  ReachInv'
<1>0. TypeOK /\ TwinsNoted /\ EntriesKnown /\ ServedVMReachable
  BY DEF ReachInv, SafeInv
<1>1. \A k \in Listeners : (Known(k)' <=> Known(k)) /\ (Serving(k)' <=> Serving(k))
  BY DEF LetGo, Known, Serving
<1>2. TwinsNoted'
  BY <1>0, <1>1 DEF LetGo, TwinsNoted
<1>3. EntriesKnown'
  BY <1>0, <1>1 DEF LetGo, EntriesKnown, BeingEntered, TypeOK
<1>4. ServedVMReachable'
  BY <1>0, <1>1 DEF LetGo, ServedVMReachable, BeingEntered
<1> QED
  BY <1>2, <1>3, <1>4 DEF ReachInv

LEMMA ReachStep == ReachInv /\ [Next]_vars => ReachInv'
<1> SUFFICES ASSUME ReachInv, [Next]_vars PROVE ReachInv'
  OBVIOUS
<1>0. SafeInv /\ SafeInv'
  BY SafeStep DEF ReachInv
<1>1. CASE \E u \in UUIDs, p \in PortRequests : RegisterNewVM(u, p)
  BY <1>0, <1>1, ReachRegister
<1>2. CASE RegisterInsert
  BY <1>0, <1>2, ReachInsert
<1>3. ASSUME NEW l \in Listeners,
             RunEarly(l) \/ UnregisterPort(l) \/ UnregisterEntry(l)
      PROVE  ReachInv'
  BY <1>0, <1>3, ReachEarly, ReachUnregisterEntry
<1>4. CASE OtherStep \/ UNCHANGED vars
  BY <1>0, <1>4, LetGoSteps, ReachLetGo
<1> QED
  BY <1>1, <1>2, <1>3, <1>4 DEF Next, RunServer, RunEarly, OtherStep

LEMMA ReachInvariant == Spec => []ReachInv
BY ReachInit, ReachStep, PTL DEF Spec

(* The messages of a VM that is served reach its listener, however often   *)
(* UUIDs are used again, as long as its UUID was not known twice at once.  *)
THEOREM ServedIsReachable == Spec => []ServedVMReachable
<1>1. ReachInv => ServedVMReachable
  BY DEF ReachInv
<1> QED
  BY <1>1, ReachInvariant, PTL
-----------------------------------------------------------------------------
(* Orderly use: a VM registers once at a time, lets the server choose the  *)
(* port, and no constructor throws after its port has been noted.          *)
OrderlyUse ==
    ReuseUUIDs = FALSE /\ PortRequests = {0} /\ "ctor" \notin Faults

(* Two listeners that are not destroyed yet belong to different VMs.       *)
OwnUUIDs ==
    \A l, k \in Listeners :
        Exists(l) /\ Exists(k) /\ uuid[l] = uuid[k] => l = k

OrderlyInv == SafeInv /\ OwnUUIDs /\ PortsExact /\ NoRivalAtStart

(* A listener that serves exists, and is no other one's to give away.      *)
LEMMA ServingExists ==
    ASSUME SafeInv, NEW l \in Listeners, Serving(l)
    PROVE  object[l] = "live" /\ Exists(l) /\ uuid[l] \in UUIDs
BY DEF SafeInv, Lifecycle, Serving, Exists

LEMMA OrderlyInit == Init => OrderlyInv
<1> SUFFICES ASSUME Init PROVE OrderlyInv
  OBVIOUS
<1>1. SafeInv
  BY SafeInit
<1>2. OwnUUIDs /\ NoRivalAtStart
  BY DEF Init, OwnUUIDs, Exists, NoRivalAtStart
<1>3. PortsExact
  BY DEF Init, PortsExact, Serving
<1> QED
  BY <1>1, <1>2, <1>3 DEF OrderlyInv

(* The new listener has a UUID of its own and a port that nobody has.      *)
LEMMA OrderlyRegister ==
    ASSUME OrderlyUse, OrderlyInv, SafeInv', NEW u \in UUIDs,
           NEW p \in PortRequests, RegisterNewVM(u, p)
    PROVE  OrderlyInv'
<1> DEFINE q == ChoosePort(p)
<1>0. SafeInv /\ TypeOK /\ Lifecycle /\ OwnUUIDs /\ PortsExact /\ NoRivalAtStart
  BY DEF OrderlyInv, SafeInv
<1>1. PICK l \in Listeners : l = created + 1
  BY <1>0, RegistryAssumption DEF TypeOK, Listeners, RegisterNewVM
<1>2. /\ ports' = ports \cup {q}
      /\ uuid' = [uuid EXCEPT ![l] = u]
      /\ port' = [port EXCEPT ![l] = q]
      /\ lpc' = [lpc EXCEPT ![l] = "init"]
      /\ object' = [object EXCEPT ![l] = "live"]
      /\ UNCHANGED opened
  BY <1>1 DEF RegisterNewVM, OrderlyUse
<1>3. q \in FreePorts
  BY SearchFindsFree DEF RegisterNewVM, OrderlyUse
<1>4. \A k \in Listeners : uuid[k] = u => object[k] = "dead"
  BY DEF RegisterNewVM, OrderlyUse
<1>5. lpc[l] = "unborn" /\ object[l] = "unborn" /\ ~opened[l]
  BY <1>0, <1>1, RegistryAssumption DEF Lifecycle, TypeOK, Listeners
<1> HIDE DEF q
<1>6. \A k \in Listeners \ {l} :
         /\ uuid'[k] = uuid[k] /\ port'[k] = port[k] /\ lpc'[k] = lpc[k]
         /\ object'[k] = object[k] /\ (Serving(k)' <=> Serving(k))
  BY <1>0, <1>2, <1>1 DEF TypeOK, Serving
<1>7. /\ uuid'[l] = u /\ port'[l] = q /\ lpc'[l] = "init"
      /\ object'[l] = "live" /\ Serving(l)' /\ ~Serving(l)
  BY <1>0, <1>2, <1>1, <1>5 DEF TypeOK, Serving
<1>8. OwnUUIDs'
  BY <1>0, <1>4, <1>6, <1>7 DEF OwnUUIDs, Exists
<1>9. PortsExact'
  <2>1. ports' = {port'[k] : k \in {j \in Listeners : Serving(j)'}}
    BY <1>0, <1>2, <1>1, <1>6, <1>7 DEF PortsExact
  <2>2. \A k \in Listeners : Serving(k) => port[k] # q
    BY <1>0, <1>3 DEF PortsExact, FreePorts
  <2>3. \A j, k \in Listeners :
           Serving(j)' /\ Serving(k)' /\ port'[j] = port'[k] => j = k
    BY <1>0, <1>6, <1>7, <2>2 DEF PortsExact
  <2> QED
    BY <2>1, <2>3 DEF PortsExact
<1>10. \A k \in Listeners : opened[k] => k # l /\ port[k] # q
  BY <1>3, <1>5 DEF FreePorts, Bound
<1>11. NoRivalAtStart'
  BY <1>0, <1>2, <1>6, <1>7, <1>10 DEF NoRivalAtStart
<1> QED
  BY <1>8, <1>9, <1>11 DEF OrderlyInv

(* RunServer up to shutdown(): only shadow_server_start opens a port, and  *)
(* the port is the listener's own.                                         *)
LEMMA OrderlyEarly ==
    ASSUME OrderlyInv, SafeInv', NEW l \in Listeners, RunEarly(l)
    PROVE  OrderlyInv'
<1>0. /\ SafeInv /\ TypeOK /\ Lifecycle /\ OwnUUIDs /\ PortsExact
      /\ NoRivalAtStart
  BY DEF OrderlyInv, SafeInv
<1>1. PICK b \in {"register_object", "start", "set_running", "loop",
                  "cleanup"} :
         /\ lpc' = [lpc EXCEPT ![l] = b]
         /\ b \in {"register_object", "start"} => ~opened'[l]
  BY <1>0, EarlySteps
<1>2. /\ lpc[l] \in EarlyPositions
      /\ UNCHANGED <<ports, uuid, port, object>>
      /\ \A k \in Listeners \ {l} : opened'[k] = opened[k]
  BY <1>0, EarlySteps
<1>3. /\ lpc'[l] = b /\ \A k \in Listeners \ {l} : lpc'[k] = lpc[k]
      /\ \A k \in Listeners : Serving(k)' <=> Serving(k)
  BY <1>0, <1>1, <1>2 DEF TypeOK, Serving, EarlyPositions
<1>4. OwnUUIDs'
  BY <1>0, <1>2 DEF OwnUUIDs, Exists
<1>5. PortsExact'
  BY <1>0, <1>2, <1>3 DEF PortsExact
<1>6. NoRivalAtStart'
  <2> SUFFICES ASSUME NEW k \in Listeners, NEW j \in Listeners,
                      lpc'[k] \in {"init", "register_object", "start"},
                      opened'[j]
               PROVE  port[j] # port[k]
    BY <1>2 DEF NoRivalAtStart
  <2>1. Serving(k) /\ Serving(l)
    BY <1>2, <1>3 DEF Serving, EarlyPositions
  <2>2. lpc[k] \in {"init", "register_object", "start"}
    <3>1. CASE k # l
      BY <1>3, <3>1
    <3>2. CASE k = l
      BY <1>0, <1>3, <3>2 DEF RunEarly, RunInit, RunRegisterObject,
         RunStart, RunSetRunning, RunLoopExits, TypeOK
    <3> QED
      BY <3>1, <3>2
  <2>3. CASE j = l
    <3>1. k # l
      BY <1>0, <1>1, <1>2, <1>3, <2>2, <2>3 DEF RunEarly, RunInit,
         RunRegisterObject, RunStart, RunSetRunning, RunLoopExits, TypeOK
    <3> QED
      BY <1>0, <2>1, <2>3, <3>1 DEF PortsExact
  <2>4. CASE j # l
    BY <1>0, <1>2, <2>2, <2>4 DEF NoRivalAtStart
  <2> QED
    BY <2>3, <2>4
<1> QED
  BY <1>4, <1>5, <1>6 DEF OrderlyInv

(* UnregisterVM takes out the port of one listener, and it is its own.     *)
LEMMA OrderlyUnregisterPort ==
    ASSUME OrderlyInv, SafeInv', NEW l \in Listeners, UnregisterPort(l)
    PROVE  OrderlyInv'
<1>0. SafeInv /\ TypeOK /\ OwnUUIDs /\ PortsExact /\ NoRivalAtStart
  BY DEF OrderlyInv, SafeInv
<1>1. /\ lpc[l] = "cleanup" /\ ports' = ports \ {port[l]}
      /\ lpc' = [lpc EXCEPT ![l] = "erase"]
      /\ UNCHANGED <<opened, object, uuid, port>>
  BY DEF UnregisterPort, RunFrame
<1>2. /\ Serving(l) /\ ~Serving(l)' /\ lpc'[l] = "erase"
      /\ \A k \in Listeners \ {l} :
            lpc'[k] = lpc[k] /\ (Serving(k)' <=> Serving(k))
  BY <1>0, <1>1 DEF TypeOK, Serving
<1>3. OwnUUIDs'
  BY <1>0, <1>1 DEF OwnUUIDs, Exists
<1>4. PortsExact'
  <2>1. ports' = {port[k] : k \in {j \in Listeners : Serving(j)'}}
    BY <1>0, <1>1, <1>2 DEF PortsExact
  <2>2. \A j, k \in Listeners :
           Serving(j)' /\ Serving(k)' /\ port[j] = port[k] => j = k
    BY <1>0, <1>2 DEF PortsExact
  <2> QED
    BY <1>1, <2>1, <2>2 DEF PortsExact
<1>5. NoRivalAtStart'
  BY <1>0, <1>1, <1>2 DEF NoRivalAtStart
<1> QED
  BY <1>3, <1>4, <1>5 DEF OrderlyInv

(* Steps that neither open ports nor change who serves.                    *)
KeepsPorts ==
    /\ UNCHANGED <<ports, uuid, port>>
    /\ \A k \in Listeners :
          /\ Exists(k)' => Exists(k)
          /\ opened'[k] => opened[k]
          /\ Serving(k)' <=> Serving(k)
          /\ lpc'[k] \in {"init", "register_object", "start"} =>
                 lpc[k] \in {"init", "register_object", "start"}

LEMMA KeepsPortsSteps ==
    ASSUME SafeInv,
           \/ RegisterInsert \/ OtherStep \/ UNCHANGED vars
           \/ \E l \in Listeners : UnregisterEntry(l)
    PROVE  KeepsPorts
<1>0. TypeOK
  BY DEF SafeInv
<1>1. CASE RegisterInsert
  BY <1>1 DEF RegisterInsert, listenerVars, KeepsPorts, Serving, Exists
<1>2. ASSUME NEW l \in Listeners, UnregisterEntry(l) PROVE KeepsPorts
  BY <1>0, <1>2 DEF UnregisterEntry, RunFrame, ReleaseUnreferenced, KeepsPorts,
     TypeOK, Serving, Exists
<1>3. CASE OtherStep \/ UNCHANGED vars
  <2>1. LetGo
    BY <1>3, LetGoSteps
  <2> QED
    BY <2>1 DEF LetGo, KeepsPorts, Serving
<1> QED
  BY <1>1, <1>2, <1>3

LEMMA OrderlyKeeps ==
    ASSUME OrderlyInv, SafeInv', KeepsPorts
    PROVE  OrderlyInv'
<1>0. OwnUUIDs /\ PortsExact /\ NoRivalAtStart
  BY DEF OrderlyInv
<1>1. OwnUUIDs'
  BY <1>0 DEF KeepsPorts, OwnUUIDs
<1>2. PortsExact'
  BY <1>0 DEF KeepsPorts, PortsExact
<1>3. NoRivalAtStart'
  BY <1>0 DEF KeepsPorts, NoRivalAtStart
<1> QED
  BY <1>1, <1>2, <1>3 DEF OrderlyInv

LEMMA OrderlyStep ==
    ASSUME OrderlyUse
    PROVE  OrderlyInv /\ [Next]_vars => OrderlyInv'
<1> SUFFICES ASSUME OrderlyInv, [Next]_vars PROVE OrderlyInv'
  OBVIOUS
<1>0. SafeInv /\ SafeInv'
  BY SafeStep DEF OrderlyInv
<1>1. CASE \E u \in UUIDs, p \in PortRequests : RegisterNewVM(u, p)
  BY <1>0, <1>1, OrderlyRegister
<1>2. ASSUME NEW l \in Listeners, RunEarly(l) \/ UnregisterPort(l)
      PROVE  OrderlyInv'
  BY <1>0, <1>2, OrderlyEarly, OrderlyUnregisterPort
<1>3. CASE \/ RegisterInsert \/ OtherStep \/ UNCHANGED vars
           \/ \E l \in Listeners : UnregisterEntry(l)
  BY <1>0, <1>3, KeepsPortsSteps, OrderlyKeeps
<1> QED
  BY <1>1, <1>2, <1>3 DEF Next, RunServer, RunEarly, OtherStep

LEMMA OrderlyInvariant ==
    ASSUME OrderlyUse
    PROVE  Spec => []OrderlyInv
BY OrderlyInit, OrderlyStep, PTL DEF Spec

(* The port set holds the ports of the listeners that serve, each once.    *)
THEOREM PortSetExact ==
    ASSUME OrderlyUse
    PROVE  Spec => []PortsExact
<1>1. OrderlyInv => PortsExact
  BY DEF OrderlyInv
<1> QED
  BY <1>1, OrderlyInvariant, PTL

(* No other listener has the port open that the search has found, from the *)
(* search until shadow_server_start opens it.                              *)
THEOREM PortUncontested ==
    ASSUME OrderlyUse
    PROVE  Spec => []NoRivalAtStart
<1>1. OrderlyInv => NoRivalAtStart
  BY DEF OrderlyInv
<1> QED
  BY <1>1, OrderlyInvariant, PTL
-----------------------------------------------------------------------------
(* The lease table.                                                        *)

(* The lease of a VM is the port of the listener that serves it.           *)
LEMMA LeaseIsPort ==
    ASSUME OrderlyInv
    PROVE  /\ \A l \in Listeners :
                 Serving(l) => /\ uuid[l] \in UUIDs
                               /\ LeaseOf(uuid[l]) = port[l]
                               /\ port[l] # 0
           /\ \A u : (\A l \in Listeners : Serving(l) => uuid[l] # u)
                         => LeaseOf(u) = 0
<1>1. ASSUME NEW l \in Listeners, Serving(l)
      PROVE  uuid[l] \in UUIDs /\ LeaseOf(uuid[l]) = port[l]
  <2>1. SafeInv /\ OwnUUIDs
    BY DEF OrderlyInv
  <2>2. \A k \in Listeners : Serving(k) /\ uuid[k] = uuid[l] => k = l
    BY <1>1, <2>1, ServingExists DEF OwnUUIDs
  <2>3. (CHOOSE k \in Listeners : Serving(k) /\ uuid[k] = uuid[l]) = l
    BY <1>1, <2>2
  <2> QED
    BY <1>1, <2>1, <2>3, ServingExists DEF LeaseOf
<1>2. ASSUME NEW l \in Listeners, Serving(l)
      PROVE  port[l] # 0
  <2>1. port[l] \in ports
    BY <1>2 DEF OrderlyInv, PortsExact
  <2> QED
    BY <2>1, RegistryAssumption DEF OrderlyInv, SafeInv, TypeOK
<1>3. ASSUME NEW u, \A l \in Listeners : Serving(l) => uuid[l] # u
      PROVE  LeaseOf(u) = 0
  BY <1>3 DEF LeaseOf
<1> QED
  BY <1>1, <1>2, <1>3

(* The same after a step.                                                  *)
LEMMA LeaseIsPortNext ==
    ASSUME OrderlyInv'
    PROVE  /\ \A l \in Listeners :
                 Serving(l)' => /\ uuid'[l] \in UUIDs
                                /\ \A u : u = uuid'[l] =>
                                       LeaseOf(u)' = port'[l]
                                /\ port'[l] # 0
           /\ \A u : (\A l \in Listeners : Serving(l)' => uuid'[l] # u)
                         => LeaseOf(u)' = 0
<1>1. ASSUME NEW l \in Listeners, Serving(l)'
      PROVE  /\ uuid'[l] \in UUIDs
             /\ \A u : u = uuid'[l] => LeaseOf(u)' = port'[l]
  <2>1. SafeInv' /\ OwnUUIDs'
    BY DEF OrderlyInv
  <2>2. \A k \in Listeners : Serving(k)' => Exists(k)' /\ uuid'[k] \in UUIDs
    BY <2>1 DEF SafeInv, Lifecycle, Serving, Exists
  <2>3. ASSUME NEW u, u = uuid'[l]
        PROVE  LeaseOf(u)' = port'[l]
    <3>1. \A k \in Listeners : Serving(k)' /\ uuid'[k] = u => k = l
      BY <1>1, <2>1, <2>2, <2>3 DEF OwnUUIDs
    <3>2. (CHOOSE k \in Listeners : Serving(k)' /\ uuid'[k] = u) = l
      BY <1>1, <2>3, <3>1
    <3> QED
      BY <1>1, <2>3, <3>2 DEF LeaseOf
  <2> QED
    BY <1>1, <2>2, <2>3
<1>2. ASSUME NEW l \in Listeners, Serving(l)'
      PROVE  port'[l] # 0
  <2>1. port'[l] \in ports'
    BY <1>2 DEF OrderlyInv, PortsExact
  <2> QED
    BY <2>1, RegistryAssumption DEF OrderlyInv, SafeInv, TypeOK
<1>3. ASSUME NEW u, \A l \in Listeners : Serving(l)' => uuid'[l] # u
      PROVE  LeaseOf(u)' = 0
  BY <1>3 DEF LeaseOf
<1> QED
  BY <1>1, <1>2, <1>3

(* The table changes only where the set of serving listeners does.         *)
LEMMA LeasesKept ==
    ASSUME OrderlyInv, OrderlyInv',
           NEW S \in SUBSET UUIDs,
           \A l \in Listeners :
              \/ /\ Serving(l)' <=> Serving(l)
                 /\ uuid'[l] = uuid[l] /\ port'[l] = port[l]
              \/ /\ Serving(l) => uuid[l] \in S
                 /\ Serving(l)' => uuid'[l] \in S
    PROVE  \A u \in UUIDs \ S : LeaseOf(u)' = LeaseOf(u)
<1> SUFFICES ASSUME NEW u \in UUIDs \ S
             PROVE  LeaseOf(u)' = LeaseOf(u)
  OBVIOUS
<1>1. CASE \E l \in Listeners : Serving(l) /\ uuid[l] = u
  <2>1. PICK l \in Listeners : Serving(l) /\ uuid[l] = u
    BY <1>1
  <2>2. Serving(l)' /\ uuid'[l] = u /\ port'[l] = port[l]
    BY <2>1
  <2> QED
    BY <2>1, <2>2, LeaseIsPort, LeaseIsPortNext
<1>2. CASE \A l \in Listeners : Serving(l) => uuid[l] # u
  <2>1. \A l \in Listeners : Serving(l)' => uuid'[l] # u
    BY <1>2
  <2> QED
    BY <1>2, <2>1, LeaseIsPort, LeaseIsPortNext
<1> QED
  BY <1>1, <1>2

(* A registration grants a lease.                                          *)
LEMMA RegisterGrants ==
    ASSUME OrderlyUse, OrderlyInv, OrderlyInv', NEW u \in UUIDs,
           NEW p \in PortRequests, RegisterNewVM(u, p)
    PROVE  Lease!Next
<1> DEFINE q == ChoosePort(p)
<1>0. /\ SafeInv /\ TypeOK /\ Lifecycle /\ PortsExact
  BY DEF OrderlyInv, SafeInv
<1>1. PICK l \in Listeners : l = created + 1
  BY <1>0, RegistryAssumption DEF TypeOK, Listeners, RegisterNewVM
<1>2. /\ uuid' = [uuid EXCEPT ![l] = u]
      /\ port' = [port EXCEPT ![l] = q]
      /\ lpc' = [lpc EXCEPT ![l] = "init"]
  BY <1>1 DEF RegisterNewVM, OrderlyUse
<1>3. q \in FreePorts
  BY SearchFindsFree DEF RegisterNewVM, OrderlyUse
<1>4. \A k \in Listeners : uuid[k] = u => object[k] = "dead"
  BY DEF RegisterNewVM, OrderlyUse
<1>5. ~Serving(l)
  BY <1>0, <1>1, RegistryAssumption DEF Lifecycle, TypeOK, Listeners, Serving
<1> HIDE DEF q
<1>6. \A k \in Listeners \ {l} : /\ Serving(k)' <=> Serving(k)
                                 /\ uuid'[k] = uuid[k] /\ port'[k] = port[k]
  BY <1>0, <1>2 DEF TypeOK, Serving
<1>7. uuid'[l] = u /\ port'[l] = q /\ Serving(l)'
  BY <1>0, <1>2 DEF TypeOK, Serving
<1>8. LeaseOf(u)' = q
  BY <1>7, LeaseIsPortNext
<1>9. \A w \in UUIDs \ {u} : LeaseOf(w)' = LeaseOf(w)
  <2>1. \A k \in Listeners :
           \/ /\ Serving(k)' <=> Serving(k)
              /\ uuid'[k] = uuid[k] /\ port'[k] = port[k]
           \/ /\ Serving(k) => uuid[k] \in {u}
              /\ Serving(k)' => uuid'[k] \in {u}
    BY <1>5, <1>6, <1>7
  <2>2. {u} \in SUBSET UUIDs
    OBVIOUS
  <2> QED
    BY <2>1, <2>2, LeasesKept
<1>10. LeaseOf(u) = 0
  <2>1. \A k \in Listeners : Serving(k) => uuid[k] # u
    BY <1>0, <1>4, ServingExists
  <2> QED
    BY <2>1, LeaseIsPort
<1>11. \A w \in UUIDs : LeaseOf(w) # q
  <2>1. q # 0 /\ q \notin ports
    BY <1>3, RegistryAssumption DEF FreePorts
  <2>2. \A w \in UUIDs : LeaseOf(w) = 0 \/ LeaseOf(w) \in ports
    <3> SUFFICES ASSUME NEW w \in UUIDs, LeaseOf(w) # 0
                 PROVE  LeaseOf(w) \in ports
      OBVIOUS
    <3>1. PICK k \in Listeners : Serving(k) /\ uuid[k] = w
      BY LeaseIsPort
    <3> QED
      BY <1>0, <3>1, LeaseIsPort DEF PortsExact
  <2> QED
    BY <2>1, <2>2
<1>12. q \in AutoPorts
  BY <1>3 DEF FreePorts
<1>13. [w \in UUIDs |-> LeaseOf(w)]'
          = [[w \in UUIDs |-> LeaseOf(w)] EXCEPT ![u] = q]
  BY <1>8, <1>9
<1>14. Lease!Grant(u, q)
  BY <1>10, <1>11, <1>13 DEF Lease!Grant
<1> QED
  BY <1>12, <1>14 DEF Lease!Next

(* UnregisterVM gives it back.                                             *)
LEMMA UnregisterGivesBack ==
    ASSUME OrderlyInv, OrderlyInv', NEW l \in Listeners, UnregisterPort(l)
    PROVE  Lease!Next
<1>0. SafeInv /\ TypeOK
  BY DEF OrderlyInv, SafeInv
<1>1. /\ lpc[l] = "cleanup" /\ lpc' = [lpc EXCEPT ![l] = "erase"]
      /\ UNCHANGED <<uuid, port>>
  BY DEF UnregisterPort, RunFrame
<1>2. Serving(l) /\ ~Serving(l)'
  BY <1>0, <1>1 DEF TypeOK, Serving
<1>3. \A k \in Listeners \ {l} : Serving(k)' <=> Serving(k)
  BY <1>0, <1>1 DEF TypeOK, Serving
<1>4. PICK u \in UUIDs : u = uuid[l]
  BY <1>0, <1>2, ServingExists
<1>5. LeaseOf(u) # 0
  BY <1>2, <1>4, LeaseIsPort
<1>6. LeaseOf(u)' = 0
  <2>1. \A k \in Listeners : Serving(k)' => uuid'[k] # u
    <3> SUFFICES ASSUME NEW k \in Listeners, Serving(k)', uuid[k] = uuid[l]
                 PROVE  FALSE
      BY <1>1, <1>4
    <3>1. k # l /\ Serving(k)
      BY <1>2, <1>3
    <3>2. Exists(k) /\ Exists(l)
      BY <1>0, <1>2, <3>1, ServingExists
    <3> QED
      BY <3>1, <3>2 DEF OrderlyInv, OwnUUIDs
  <2> QED
    BY <2>1, LeaseIsPortNext
<1>7. \A w \in UUIDs \ {u} : LeaseOf(w)' = LeaseOf(w)
  <2>1. \A k \in Listeners :
           \/ /\ Serving(k)' <=> Serving(k)
              /\ uuid'[k] = uuid[k] /\ port'[k] = port[k]
           \/ /\ Serving(k) => uuid[k] \in {u}
              /\ Serving(k)' => uuid'[k] \in {u}
    BY <1>1, <1>2, <1>3, <1>4
  <2>2. {u} \in SUBSET UUIDs
    OBVIOUS
  <2> QED
    BY <2>1, <2>2, LeasesKept
<1>8. [w \in UUIDs |-> LeaseOf(w)]'
         = [[w \in UUIDs |-> LeaseOf(w)] EXCEPT ![u] = 0]
  BY <1>6, <1>7
<1>9. Lease!GiveBack(u)
  BY <1>5, <1>8 DEF Lease!GiveBack
<1> QED
  BY <1>9 DEF Lease!Next

(* No other step changes the table.                                        *)
LEMMA OthersKeepLeases ==
    ASSUME OrderlyInv, OrderlyInv',
           \A l \in Listeners :
              /\ Serving(l)' <=> Serving(l)
              /\ uuid'[l] = uuid[l] /\ port'[l] = port[l]
    PROVE  UNCHANGED [u \in UUIDs |-> LeaseOf(u)]
<1>1. {} \in SUBSET UUIDs
  OBVIOUS
<1>2. \A u \in UUIDs \ {} : LeaseOf(u)' = LeaseOf(u)
  BY <1>1, LeasesKept
<1> QED
  BY <1>2

LEMMA LeaseStep ==
    ASSUME OrderlyUse
    PROVE  OrderlyInv /\ OrderlyInv' /\ [Next]_vars
               => [Lease!Next]_([u \in UUIDs |-> LeaseOf(u)])
<1> SUFFICES ASSUME OrderlyInv, OrderlyInv', [Next]_vars
             PROVE  Lease!Next \/ UNCHANGED [u \in UUIDs |-> LeaseOf(u)]
  OBVIOUS
<1>0. SafeInv /\ TypeOK
  BY DEF OrderlyInv, SafeInv
<1> DEFINE Kept == \A l \in Listeners :
                      /\ Serving(l)' <=> Serving(l)
                      /\ uuid'[l] = uuid[l] /\ port'[l] = port[l]
<1>1. ASSUME NEW l \in Listeners, RunEarly(l)
      PROVE  UNCHANGED [u \in UUIDs |-> LeaseOf(u)]
  <2>1. PICK b \in {"register_object", "start", "set_running", "loop",
                    "cleanup"} : lpc' = [lpc EXCEPT ![l] = b]
    BY <1>0, <1>1, EarlySteps
  <2>2. lpc[l] \in EarlyPositions /\ UNCHANGED <<uuid, port>>
    BY <1>0, <1>1, EarlySteps
  <2>3. Kept
    BY <1>0, <2>1, <2>2 DEF TypeOK, Serving, EarlyPositions
  <2> QED
    BY <2>3, OthersKeepLeases
<1>2. CASE \/ RegisterInsert \/ OtherStep \/ UNCHANGED vars
           \/ \E l \in Listeners : UnregisterEntry(l)
  <2>1. KeepsPorts
    BY <1>0, <1>2, KeepsPortsSteps
  <2>2. Kept
    BY <2>1 DEF KeepsPorts
  <2> QED
    BY <2>2, OthersKeepLeases
<1> QED
  BY <1>1, <1>2, RegisterGrants, UnregisterGivesBack
  DEF Next, RunServer, RunEarly, OtherStep

(* Threads, locks, port set and map together implement a table in which a  *)
(* lease is granted whole and given back whole: registration keeps its     *)
(* promise for any number of VMs, ports and listeners.                     *)
THEOREM RegistryRefinesLease ==
    ASSUME OrderlyUse
    PROVE  Spec => ImplementsLease
<1>1. Init => Lease!Init
  BY DEF Init, Lease!Init, LeaseOf, Serving
<1>2. OrderlyInv /\ OrderlyInv' /\ [Next]_vars
         => [Lease!Next]_([u \in UUIDs |-> LeaseOf(u)])
  BY LeaseStep
<1> QED
  BY <1>1, <1>2, OrderlyInvariant, PTL DEF Spec, ImplementsLease, Lease!Spec
=============================================================================

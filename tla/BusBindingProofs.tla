-------------------------- MODULE BusBindingProofs --------------------------
(***************************************************************************)
(* Proofs about the generated D-Bus binding, in the system of Registration:*)
(* the property of the skeleton and its subscribers (BusBinding), for every*)
(* number of threads, proxies and server processes, every set of values and*)
(* every bound; then calls and replies (BusCalls), for any number of       *)
(* callers, calls and signals.                                             *)
(***************************************************************************)
EXTENDS Registration, SequenceTheorems, FiniteSetTheorems, TLAPS

(* The kinds of steps, as far as the binding is concerned.                 *)
SkeletonStep ==
    service = "skeleton" /\ SkeletonNext /\ UNCHANGED <<service, phase>>

SubscribeStep(c) ==
    /\ proxy_subscribe(c)
    /\ phase' = [phase EXCEPT ![c] = "connecting"]
    /\ UNCHANGED service

LoadStep(c) ==
    /\ phase[c] = "connecting"
    /\ \E v \in Loaded : proxy_load(c, v)
    /\ phase' = [phase EXCEPT ![c] = "checking"]
    /\ UNCHANGED service

DeliverStep(c) ==
    proxy_g_properties_changed(c) /\ UNCHANGED <<service, phase>>

OtherStep ==
    /\ UNCHANGED <<bindingVars, service>>
    /\ \/ UNCHANGED phase
       \/ \E c \in Clients, to \in {"checking", "called", "true", "false"} :
              phase' = [phase EXCEPT ![c] = to]

BindingStep ==
    \/ SkeletonStep
    \/ \E c \in Clients : SubscribeStep(c) \/ LoadStep(c) \/ DeliverStep(c)
    \/ OtherStep

(* Every step of the system is of one of these kinds.                      *)
LEMMA StepsOfBinding == Next \/ UNCHANGED vars => BindingStep
<1>1. CASE UNCHANGED vars
  BY <1>1 DEF vars, serviceVars, clientVars, BindingStep, OtherStep
<1>2. CASE ServerNext
  BY <1>2 DEF ServerNext, BindingStep, OtherStep, serviceVars, clientVars,
     process_options, main, on_bus_acquired, on_name_acquired, on_name_lost,
     handle_SIGINT, worker_destroyed, process_dies, bus_drops_name,
     on_method_call, no_such_object, send_reply
<1>3. CASE Service
  BY <1>3 DEF Service, BindingStep, SkeletonStep, serviceVars, clientVars
<1>4. CASE InterfaceCalls
  BY <1>4 DEF InterfaceCalls, BindingStep, OtherStep, clientVars
<1>5. ASSUME NEW x \in Calls,
             skeleton_handle_method_call(x) \/ complete_register(x)
      PROVE  BindingStep
  BY <1>5 DEF skeleton_handle_method_call, complete_register, BindingStep,
     OtherStep, serviceVars, clientVars
<1>6. ASSUME NEW c \in Clients,
             NEW obj \in {"obj", Null}, mux_get_socket_path(c, obj)
      PROVE  BindingStep
  BY <1>6 DEF mux_get_socket_path, Move, BindingStep, SubscribeStep, OtherStep,
     serviceVars
<1>7. ASSUME NEW c \in Clients, proxy_new_for_bus_sync(c)
      PROVE  BindingStep
  BY <1>7 DEF proxy_new_for_bus_sync, Move, BindingStep, LoadStep, OtherStep,
     serviceVars
<1>8. ASSUME NEW c \in Clients,
             \/ call_register_sync(c) \/ register_returns(c)
             \/ register_timeout(c)
      PROVE  BindingStep
  <2>1. OtherStep
    BY <1>8 DEF call_register_sync, register_returns, register_timeout, Move,
       OtherStep, serviceVars
  <2> QED
    BY <2>1 DEF BindingStep
<1>9. ASSUME NEW c \in Clients, Deliver(c)
      PROVE  BindingStep
  BY <1>9 DEF Deliver, BindingStep, DeliverStep, serviceVars, clientVars
<1> QED
  BY <1>1, <1>2, <1>3, <1>4, <1>5, <1>6, <1>7, <1>8, <1>9
  DEF Next, ClientSteps
-----------------------------------------------------------------------------
(* What ChangeAnnounced rests on: the main loop never sets the property,   *)
(* and an outstanding idle source is attached or its callback is running.  *)
SourceOutstanding ==
    /\ tpc \in [Runners -> {"idle", "thaw", "notify", "emit"}]
    /\ tpc["mainloop"] \in {"idle", "emit"}
    /\ idle_source # 0 =>
           sources # {} \/ \E t \in Runners : tpc[t] = "emit"

AnnouncedInv == SourceOutstanding /\ ChangeAnnounced

(* A step of the skeleton keeps a recorded change on its way.              *)
LEMMA SkeletonAnnounces ==
    AnnouncedInv /\ SkeletonNext => AnnouncedInv'
<1> SUFFICES ASSUME AnnouncedInv, SkeletonNext PROVE AnnouncedInv'
  OBVIOUS
<1> USE DEF AnnouncedInv, SourceOutstanding, ChangeAnnounced
<1>0. Threads \subseteq Runners /\ "mainloop" \in Runners
      /\ "mainloop" \notin Threads
  BY BindingAssumption DEF Runners
<1>1. CASE skeleton_export
  BY <1>1 DEF skeleton_export
<1>2. ASSUME NEW t \in Threads, NEW v \in Lists, skeleton_set_property(t, v)
      PROVE  AnnouncedInv'
  <2>1. /\ tpc[t] = "idle" /\ tpc' = [tpc EXCEPT ![t] = "thaw"]
        /\ UNCHANGED <<idle_source, sources>>
        /\ \/ UNCHANGED <<changed_properties, notify_queued>>
           \/ notify_queued' = TRUE
    BY <1>2 DEF skeleton_set_property
  <2> QED
    BY <1>0, <2>1
<1>3. ASSUME NEW t \in Threads, thaw_notify(t)
      PROVE  AnnouncedInv'
  <2>1. /\ tpc[t] = "thaw"
        /\ UNCHANGED <<changed_properties, idle_source, sources>>
    BY <1>3 DEF thaw_notify
  <2>2. CASE notify_queued /\ \A u \in Runners \ {t} : tpc[u] # "thaw"
    <3>1. tpc' = [tpc EXCEPT ![t] = "notify"]
      BY <1>3, <2>2 DEF thaw_notify
    <3> QED
      BY <1>0, <2>1, <3>1
  <2>3. CASE ~(notify_queued /\ \A u \in Runners \ {t} : tpc[u] # "thaw")
    <3>1. /\ tpc' = [tpc EXCEPT ![t] = "idle"]
          /\ notify_queued => notify_queued'
      BY <1>3, <2>3 DEF thaw_notify
    <3>2. notify_queued => \E u \in Threads : u # t /\ tpc[u] = "thaw"
      BY <1>0, <2>3 DEF Runners
    <3> QED
      BY <1>0, <2>1, <3>1, <3>2
  <2> QED
    BY <2>2, <2>3
<1>4. ASSUME NEW t \in Threads, skeleton_notify(t)
      PROVE  AnnouncedInv'
  <2>1. /\ tpc[t] = "notify" /\ tpc' = [tpc EXCEPT ![t] = "idle"]
        /\ UNCHANGED <<changed_properties, notify_queued>>
    BY <1>4 DEF skeleton_notify
  <2>2. \/ sources' # {}
        \/ UNCHANGED <<idle_source, sources>>
           /\ (changed_properties = {} \/ idle_source # 0)
    BY <1>4 DEF skeleton_notify
  <2> QED
    BY <1>0, <2>1, <2>2
<1>5. ASSUME NEW t \in Threads, skeleton_flush(t)
      PROVE  AnnouncedInv'
  BY <1>0, <1>5 DEF skeleton_flush
<1>6. CASE dispatch_source
  BY <1>0, <1>6 DEF dispatch_source
<1>7. ASSUME NEW t \in Runners, emit_changed(t)
      PROVE  AnnouncedInv'
  BY <1>0, <1>7 DEF emit_changed
<1> QED
  BY <1>1, <1>2, <1>3, <1>4, <1>5, <1>6, <1>7
  DEF SkeletonNext, SkeletonSteps

(* However many threads set the property and flush the skeleton, no        *)
(* recorded change is ever left without a source or a thread that will     *)
(* announce it.                                                            *)
THEOREM NoChangeForgotten == Spec => []ChangeAnnounced
<1>1. Init => AnnouncedInv
  BY DEF Init, skeleton_init, AnnouncedInv, SourceOutstanding,
     ChangeAnnounced, Runners
<1>2. AnnouncedInv /\ [Next]_vars => AnnouncedInv'
  <2> SUFFICES ASSUME AnnouncedInv, Next \/ UNCHANGED vars
               PROVE  AnnouncedInv'
    BY DEF vars
  <2>1. CASE SkeletonStep
    BY <2>1, SkeletonAnnounces DEF SkeletonStep
  <2>2. CASE UNCHANGED skeletonVars
    BY <2>2 DEF skeletonVars, AnnouncedInv, SourceOutstanding,
       ChangeAnnounced
  <2>3. SkeletonStep \/ UNCHANGED skeletonVars
    BY StepsOfBinding DEF BindingStep, SubscribeStep, LoadStep, DeliverStep,
       OtherStep, bindingVars, proxy_subscribe, proxy_load,
       proxy_g_properties_changed
  <2> QED
    BY <2>1, <2>2, <2>3
<1> QED
  BY <1>1, <1>2, PTL DEF Spec, AnnouncedInv
-----------------------------------------------------------------------------
(* The value the subscribers have been told, or will be by the signals on  *)
(* the way: the recorded one while a change is pending.                    *)
Announced ==
    ToVariant(IF changed_properties = {} THEN properties
              ELSE CHOOSE o \in changed_properties : TRUE)

BindingTypes ==
    /\ connection \in BOOLEAN
    /\ properties \in Lists \cup {Null}
    /\ \/ changed_properties = {}
       \/ \E o \in Lists \cup {Null} : changed_properties = {o}
    /\ subscribed \subseteq Clients /\ follows \subseteq subscribed
    /\ signals \in [Clients -> Seq(Seq(Nat))]
    /\ cache \in [Clients -> Seq(Nat) \cup {Null}]
    /\ phase \in [Clients -> {"idle", "connecting", "checking", "called",
                              "true", "false"}]

(* Nothing is recorded, sent or followed before the skeleton is exported.  *)
QuietBeforeExport ==
    /\ service # "skeleton" => ~connection
    /\ ~connection =>
           /\ changed_properties = {} /\ follows = {}
           /\ \A c \in Clients : signals[c] = <<>>

(* A proxy under construction has subscribed and does not follow yet; the  *)
(* last signal on the way to a proxy carries the announced value.          *)
Told ==
    \A c \in Clients :
        /\ phase[c] = "connecting" => c \in subscribed \ follows
        /\ signals[c] # <<>> =>
               c \in subscribed /\ signals[c][Len(signals[c])] = Announced
        /\ c \in follows /\ signals[c] = <<>> => cache[c] = Announced

FollowInv == BindingTypes /\ QuietBeforeExport /\ Told

(* A variant made of a value of the property is a list of versions.        *)
LEMMA VariantIsList == \A v \in Lists \cup {Null} : ToVariant(v) \in Seq(Nat)
BY BindingAssumption DEF ToVariant

(* A step of the skeleton changes what has been announced only by sending  *)
(* it to every subscriber.                                                 *)
LEMMA SkeletonFollows == FollowInv /\ SkeletonStep => FollowInv'
<1> SUFFICES ASSUME FollowInv, SkeletonStep PROVE FollowInv'
  OBVIOUS
<1> USE DEF FollowInv
<1>0. service = "skeleton" /\ UNCHANGED <<service, phase>> /\ SkeletonNext
  BY DEF SkeletonStep
<1>1. ASSUME /\ UNCHANGED <<connection, subscribed, signals, cache, follows>>
             /\ properties' \in Lists \cup {Null}
             /\ \/ changed_properties' = {}
                \/ \E o \in Lists \cup {Null} : changed_properties' = {o}
             /\ connection => Announced' = Announced
             /\ ~connection => changed_properties' = {}
      PROVE  FollowInv'
  <2>1. BindingTypes'
    BY <1>0, <1>1 DEF BindingTypes
  <2>2. QuietBeforeExport'
    BY <1>0, <1>1 DEF QuietBeforeExport
  <2>3. Told'
    <3>1. CASE connection
      BY <1>0, <1>1, <3>1 DEF Told
    <3>2. CASE ~connection
      BY <1>0, <1>1, <3>2 DEF Told, QuietBeforeExport
    <3> QED
      BY <3>1, <3>2
  <2> QED
    BY <2>1, <2>2, <2>3
<1>2. ASSUME UNCHANGED <<properties, changed_properties>>
      PROVE  Announced' = Announced
  BY <1>2 DEF Announced
<1>3. CASE skeleton_export
  BY <1>3, <1>0, <1>2 DEF skeleton_export, proxyVars, BindingTypes,
     QuietBeforeExport, Told
<1>4. ASSUME UNCHANGED <<connection, properties, changed_properties,
                         subscribed, signals, cache, follows>>
      PROVE  FollowInv'
  BY <1>0, <1>2, <1>4 DEF BindingTypes, QuietBeforeExport, Told
<1>5. ASSUME NEW t \in Threads, NEW v \in Lists, skeleton_set_property(t, v)
      PROVE  FollowInv'
  <2>1. UNCHANGED <<connection, subscribed, signals, cache, follows>>
    BY <1>5 DEF skeleton_set_property, proxyVars
  <2>2. properties' \in Lists \cup {Null}
    BY <1>5 DEF skeleton_set_property, BindingTypes
  <2>3. CASE UNCHANGED <<properties, changed_properties>>
    BY <1>4, <2>1, <2>3
  <2>4. CASE ~connection /\ UNCHANGED changed_properties
    BY <1>1, <2>1, <2>2, <2>4 DEF BindingTypes, QuietBeforeExport
  <2>5. CASE /\ connection /\ changed_properties = {}
             /\ changed_properties' = {properties}
    <3>1. Announced' = Announced
      <4>1. (CHOOSE o \in {properties} : TRUE) = properties
        OBVIOUS
      <4> QED
        BY <2>5, <4>1 DEF Announced
    <3> QED
      BY <1>1, <2>1, <2>2, <2>5, <3>1 DEF BindingTypes
  <2>6. CASE /\ connection /\ changed_properties # {}
             /\ UNCHANGED changed_properties
    <3>1. Announced' = Announced
      BY <2>6 DEF Announced
    <3> QED
      BY <1>1, <2>1, <2>2, <2>6, <3>1 DEF BindingTypes
  <2> QED
    BY <1>5, <2>3, <2>4, <2>5, <2>6
    DEF skeleton_set_property, schedule_emit_changed
<1>6. ASSUME \/ \E t \in Threads :
                   thaw_notify(t) \/ skeleton_notify(t) \/ skeleton_flush(t)
             \/ dispatch_source
      PROVE  FollowInv'
  <2>1. UNCHANGED <<connection, properties, changed_properties, subscribed,
                    signals, cache, follows>>
    BY <1>6 DEF thaw_notify, skeleton_notify, skeleton_flush, dispatch_source,
       proxyVars
  <2> QED
    BY <1>4, <2>1
<1>7. ASSUME NEW t \in Runners, emit_changed(t)
      PROVE  FollowInv'
  <2>1. /\ changed_properties' = {}
        /\ UNCHANGED <<connection, properties, subscribed, cache, follows>>
    BY <1>7 DEF emit_changed
  <2>2. Announced' = ToVariant(properties)
    BY <2>1 DEF Announced
  <2>3. CASE \E o \in changed_properties : ~_g_value_equal(properties, o)
    <3>1. connection
      BY <2>3 DEF QuietBeforeExport
    <3>2. signals' = [c \in Clients |->
                        IF c \in subscribed
                        THEN Append(signals[c], ToVariant(properties))
                        ELSE signals[c]]
      BY <1>7, <2>3 DEF emit_changed
    <3>3. ToVariant(properties) \in Seq(Nat)
      BY VariantIsList DEF BindingTypes
    <3>4. signals \in [Clients -> Seq(Seq(Nat))]
      BY DEF BindingTypes
    <3>5. signals' \in [Clients -> Seq(Seq(Nat))]
      BY <3>2, <3>3, <3>4
    <3>6. BindingTypes'
      BY <1>0, <2>1, <3>5 DEF BindingTypes
    <3>7. ASSUME NEW c \in subscribed
          PROVE  /\ signals'[c] # <<>>
                 /\ signals'[c][Len(signals'[c])] = ToVariant(properties)
      <4>1. c \in Clients
        BY DEF BindingTypes
      <4>2. signals'[c] = Append(signals[c], ToVariant(properties))
        BY <3>2, <4>1
      <4>3. signals[c] \in Seq(Seq(Nat))
        BY <3>4, <4>1
      <4> QED
        BY <3>3, <4>2, <4>3
    <3>8. \A c \in Clients \ subscribed : signals'[c] = signals[c]
      BY <3>2
    <3>9. Told'
      BY <1>0, <2>1, <2>2, <3>7, <3>8 DEF Told, BindingTypes
    <3> QED
      BY <1>0, <2>1, <3>1, <3>6, <3>9 DEF QuietBeforeExport
  <2>4. CASE \A o \in changed_properties : properties = o
    <3>1. UNCHANGED signals
      BY <1>7, <2>4 DEF emit_changed, _g_value_equal
    <3>2. Announced' = Announced
      BY <2>2, <2>4 DEF Announced
    <3> QED
      BY <1>1, <2>1, <3>1, <3>2 DEF BindingTypes
  <2> QED
    BY <2>3, <2>4 DEF _g_value_equal
<1> QED
  BY <1>0, <1>3, <1>5, <1>6, <1>7 DEF SkeletonNext, SkeletonSteps

(* A proxy is loaded with a list of versions, and by the skeleton with the *)
(* value of its property.                                                  *)
LEMMA LoadedFacts ==
    ASSUME BindingTypes, NEW v \in Loaded
    PROVE  /\ v \in Seq(Nat) \cup {Null}
           /\ service = "skeleton" /\ connection => v = ToVariant(properties)
<1>1. CASE service = "skeleton"
  BY <1>1, VariantIsList DEF Loaded, handle_get_property, BindingTypes
<1>2. CASE service # "skeleton"
  <2>1. \A p \in Serving : on_property_call(p) \in Seq(Nat)
    <3> SUFFICES ASSUME NEW p \in Serving
                 PROVE  on_property_call(p) \in Seq(Nat)
      OBVIOUS
    <3>1. p \in Procs
      BY DEF Serving
    <3>2. Version \in [Procs -> Nat]
      BY RegistrationAssumption
    <3>3. Version[p] \in Nat
      BY <3>1, <3>2
    <3> QED
      BY <3>3 DEF on_property_call
  <2>2. v = Null \/ \E p \in Serving : v = on_property_call(p)
    BY <1>2 DEF Loaded
  <2> QED
    BY <1>2, <2>1, <2>2
<1> QED
  BY <1>1, <1>2

(* So do the steps of the proxies.                                         *)
LEMMA ProxyFollows ==
    ASSUME FollowInv, NEW c \in Clients,
           SubscribeStep(c) \/ LoadStep(c) \/ DeliverStep(c)
    PROVE  FollowInv'
<1> USE DEF FollowInv
<1>1. UNCHANGED skeletonVars /\ UNCHANGED service
  BY DEF SubscribeStep, LoadStep, DeliverStep, proxy_subscribe, proxy_load,
     proxy_g_properties_changed
<1>2. UNCHANGED <<connection, properties, changed_properties>>
  BY <1>1 DEF skeletonVars
<1>3. Announced' = Announced
  BY <1>2 DEF Announced
<1>4. CASE SubscribeStep(c)
  <2>1. /\ subscribed' = subscribed \cup {c}
        /\ signals' = [signals EXCEPT ![c] = <<>>]
        /\ cache' = [cache EXCEPT ![c] = Null]
        /\ follows' = follows \ {c}
        /\ phase' = [phase EXCEPT ![c] = "connecting"]
    BY <1>4 DEF SubscribeStep, proxy_subscribe
  <2>2. BindingTypes'
    <3>1. /\ signals' \in [Clients -> Seq(Seq(Nat))]
          /\ cache' \in [Clients -> Seq(Nat) \cup {Null}]
      BY <2>1, EmptySeq DEF BindingTypes
    <3> QED
      BY <1>2, <2>1, <3>1 DEF BindingTypes
  <2>3. QuietBeforeExport'
    BY <1>1, <1>2, <2>1 DEF QuietBeforeExport, BindingTypes
  <2>4. Told'
    BY <1>3, <2>1 DEF Told, BindingTypes
  <2> QED
    BY <2>2, <2>3, <2>4
<1>5. CASE LoadStep(c)
  <2>1. PICK v \in Loaded : proxy_load(c, v)
    BY <1>5 DEF LoadStep
  <2>2. /\ v \in Seq(Nat) \cup {Null}
        /\ service = "skeleton" /\ connection => v = ToVariant(properties)
    BY LoadedFacts
  <2>3. /\ cache' = [cache EXCEPT ![c] = v]
        /\ UNCHANGED <<subscribed, signals>>
        /\ phase[c] = "connecting" /\ phase' = [phase EXCEPT ![c] = "checking"]
    BY <1>5, <2>1 DEF LoadStep, proxy_load
  <2>4. \/ follows' = follows
        \/ /\ follows' = follows \cup {c}
           /\ connection /\ changed_properties = {}
    BY <2>1 DEF proxy_load
  <2>5. c \in subscribed /\ c \notin follows
    BY <2>3 DEF Told
  <2>6. BindingTypes'
    BY <1>2, <2>2, <2>3, <2>4, <2>5 DEF BindingTypes
  <2>7. QuietBeforeExport'
    BY <1>1, <1>2, <2>3, <2>4 DEF QuietBeforeExport
  <2>8. connection /\ changed_properties = {} => v = Announced
    BY <2>2 DEF Announced, QuietBeforeExport
  <2>9. Told'
    BY <1>3, <2>3, <2>4, <2>5, <2>8 DEF Told, BindingTypes
  <2> QED
    BY <2>6, <2>7, <2>9
<1>6. CASE DeliverStep(c)
  <2>1. /\ signals[c] # <<>>
        /\ cache' = [cache EXCEPT ![c] = Head(signals[c])]
        /\ signals' = [signals EXCEPT ![c] = Tail(signals[c])]
        /\ UNCHANGED <<subscribed, follows, phase>>
    BY <1>6 DEF DeliverStep, proxy_g_properties_changed
  <2>2. signals[c] \in Seq(Seq(Nat))
    BY DEF BindingTypes
  <2>3. /\ Head(signals[c]) \in Seq(Nat) /\ Tail(signals[c]) \in Seq(Seq(Nat))
        /\ Tail(signals[c]) # <<>> =>
              Tail(signals[c])[Len(Tail(signals[c]))]
                  = signals[c][Len(signals[c])]
        /\ Tail(signals[c]) = <<>> =>
              Head(signals[c]) = signals[c][Len(signals[c])]
    <3>1. ASSUME NEW q \in Seq(Seq(Nat)), q # <<>>
          PROVE  /\ Head(q) \in Seq(Nat) /\ Tail(q) \in Seq(Seq(Nat))
                 /\ Tail(q) # <<>> => Tail(q)[Len(Tail(q))] = q[Len(q)]
                 /\ Tail(q) = <<>> => Head(q) = q[Len(q)]
      <4>1. /\ Len(q) \in Nat \ {0} /\ Head(q) = q[1]
            /\ Tail(q) \in Seq(Seq(Nat)) /\ Len(Tail(q)) = Len(q) - 1
            /\ \A i \in 1 .. Len(q) - 1 : Tail(q)[i] = q[i + 1]
        BY <3>1, HeadTailProperties, EmptySeq
      <4>2. Head(q) \in Seq(Nat)
        BY <3>1, <4>1
      <4>3. Tail(q) = <<>> => Len(q) = 1
        <5>1. Len(<<>>) = 0
          BY EmptySeq
        <5>2. Tail(q) = <<>> => Len(Tail(q)) = 0
          BY <5>1, Zenon
        <5> QED
          BY <4>1, <5>2
      <4>4. Tail(q) # <<>> => Len(q) - 1 \in 1 .. Len(q) - 1
        BY <4>1, EmptySeq
      <4> QED
        BY <4>1, <4>2, <4>3, <4>4
    <3> QED
      BY <2>1, <2>2, <3>1
  <2>4. BindingTypes'
    BY <1>2, <2>1, <2>3 DEF BindingTypes
  <2>5. QuietBeforeExport'
    BY <1>1, <1>2, <2>1 DEF QuietBeforeExport
  <2>6. Told'
    BY <1>3, <2>1, <2>3 DEF Told, BindingTypes
  <2> QED
    BY <2>4, <2>5, <2>6
<1> QED
  BY <1>4, <1>5, <1>6

(* FollowInv is inductive.                                                 *)
LEMMA FollowAlways == Spec => []FollowInv
<1>1. Init => FollowInv
  <2> SUFFICES ASSUME Init PROVE FollowInv
    OBVIOUS
  <2>1. /\ connection = FALSE /\ properties = Null /\ changed_properties = {}
        /\ subscribed = {} /\ follows = {}
        /\ signals = [c \in Clients |-> <<>>]
        /\ cache = [c \in Clients |-> Null]
        /\ phase = [c \in Clients |-> "idle"]
    BY DEF Init, skeleton_init, proxy_init
  <2>2. signals \in [Clients -> Seq(Seq(Nat))]
    BY <2>1, EmptySeq
  <2>3. BindingTypes
    BY <2>1, <2>2 DEF BindingTypes
  <2> QED
    BY <2>1, <2>3 DEF FollowInv, QuietBeforeExport, Told
<1>2. FollowInv /\ [Next]_vars => FollowInv'
  <2> SUFFICES ASSUME FollowInv, Next \/ UNCHANGED vars
               PROVE  FollowInv'
    BY DEF vars
  <2>1. CASE SkeletonStep
    BY <2>1, SkeletonFollows
  <2>2. ASSUME NEW c \in Clients,
               SubscribeStep(c) \/ LoadStep(c) \/ DeliverStep(c)
        PROVE  FollowInv'
    BY <2>2, ProxyFollows
  <2>3. CASE OtherStep
    BY <2>3 DEF OtherStep, bindingVars, skeletonVars, proxyVars, FollowInv,
       BindingTypes, QuietBeforeExport, Told, Announced
  <2> QED
    BY <2>1, <2>2, <2>3, StepsOfBinding DEF BindingStep
<1> QED
  BY <1>1, <1>2, PTL DEF Spec

(* For every number of threads, proxies and values: a proxy that loaded    *)
(* the property while no change was pending has, once the signals on their *)
(* way have arrived, the value announced last.                             *)
THEOREM SubscribersFollow == Spec => []SubscriberFollows
<1>1. FollowInv => SubscriberFollows
  BY DEF FollowInv, Told, SubscriberFollows, Announced, BindingTypes
<1> QED
  BY <1>1, FollowAlways, PTL
-----------------------------------------------------------------------------
(* Idle sources.                                                           *)

(* The threads that may still attach a source for the change they made.    *)
Changing == {t \in Threads : tpc[t] \in {"thaw", "notify"}}

(* Sources attached and sources still to be attached stem from different   *)
(* calls.  This is why there is always a number left for a new source.     *)
SourcesInv ==
    /\ notify_queued \in BOOLEAN
    /\ tpc \in [Runners -> {"idle", "thaw", "notify", "emit"}]
    /\ changes \in 0 .. MaxChanges
    /\ idle_source \in 0 .. MaxChanges
    /\ sources \subseteq 1 .. MaxChanges
    /\ Cardinality(sources) + Cardinality(Changing) <= changes

(* Both are finite sets.                                                   *)
LEMMA SourcesFinite ==
    ASSUME SourcesInv
    PROVE  /\ IsFiniteSet(sources) /\ Cardinality(sources) \in Nat
           /\ IsFiniteSet(Changing) /\ Cardinality(Changing) \in Nat
<1>1. IsFiniteSet(1 .. MaxChanges) /\ sources \in SUBSET (1 .. MaxChanges)
  <2>1. 1 \in Int /\ MaxChanges \in Int
    BY BindingAssumption
  <2>2. IsFiniteSet(1 .. MaxChanges)
    BY <2>1, FS_Interval
  <2>3. sources \in SUBSET (1 .. MaxChanges)
    BY DEF SourcesInv
  <2> QED
    BY <2>2, <2>3
<1>2. IsFiniteSet(Threads) /\ Changing \in SUBSET Threads
  BY BindingAssumption DEF Changing
<1>3. IsFiniteSet(sources) /\ IsFiniteSet(Changing)
  BY <1>1, <1>2, FS_Subset
<1> QED
  BY <1>3, FS_CardinalityType

(* A thread about to attach a source leaves a number for it.               *)
LEMMA NumberLeft ==
    ASSUME SourcesInv, NEW t \in Changing
    PROVE  \E i \in 1 .. MaxChanges : i \notin sources
<1> SUFFICES ASSUME 1 .. MaxChanges \subseteq sources PROVE FALSE
  OBVIOUS
<1>1. sources = 1 .. MaxChanges
  BY DEF SourcesInv
<1>2. Cardinality(1 .. MaxChanges) = MaxChanges
  BY FS_Interval, BindingAssumption
<1>3. Cardinality(Changing) # 0
  BY SourcesFinite, FS_EmptySet
<1>4. Cardinality(sources) = MaxChanges
  BY <1>1, <1>2
<1>5. Cardinality(Changing) \in Nat
  BY SourcesFinite
<1>6. /\ Cardinality(sources) + Cardinality(Changing) <= changes
      /\ changes \in 0 .. MaxChanges
  BY DEF SourcesInv
<1> QED
  BY <1>3, <1>4, <1>5, <1>6, BindingAssumption

(* A step of the skeleton.                                                 *)
LEMMA SkeletonCounts == ASSUME SourcesInv, SkeletonNext PROVE SourcesInv'
<1>0. /\ IsFiniteSet(sources) /\ Cardinality(sources) \in Nat
      /\ IsFiniteSet(Changing) /\ Cardinality(Changing) \in Nat
  BY SourcesFinite
<1>1. /\ notify_queued \in BOOLEAN
      /\ tpc \in [Runners -> {"idle", "thaw", "notify", "emit"}]
      /\ changes \in 0 .. MaxChanges /\ idle_source \in 0 .. MaxChanges
      /\ sources \subseteq 1 .. MaxChanges
      /\ Cardinality(sources) + Cardinality(Changing) <= changes
      /\ Threads \subseteq Runners /\ "mainloop" \in Runners
      /\ "mainloop" \notin Threads /\ MaxChanges \in Nat
  BY BindingAssumption DEF SourcesInv, Runners
<1>2. CASE skeleton_export
  <2>1. UNCHANGED <<notify_queued, tpc, changes, idle_source, sources>>
    BY <1>2 DEF skeleton_export
  <2> QED
    BY <1>1, <2>1 DEF SourcesInv, Changing
<1>3. ASSUME NEW t \in Threads, NEW v \in Lists, skeleton_set_property(t, v)
      PROVE  SourcesInv'
  <2>1. /\ tpc[t] = "idle" /\ tpc' = [tpc EXCEPT ![t] = "thaw"]
        /\ changes < MaxChanges /\ changes' = changes + 1
        /\ notify_queued' \in BOOLEAN
        /\ UNCHANGED <<idle_source, sources>>
    BY <1>1, <1>3 DEF skeleton_set_property
  <2>2. Changing' = Changing \cup {t} /\ t \notin Changing
    BY <1>1, <2>1 DEF Changing
  <2>3. Cardinality(Changing') = Cardinality(Changing) + 1
    BY <1>0, <2>2, FS_AddElement
  <2>4. Cardinality(sources') = Cardinality(sources)
    BY <2>1
  <2>5. Cardinality(sources') + Cardinality(Changing') <= changes'
    BY <1>0, <1>1, <2>1, <2>3, <2>4
  <2> QED
    BY <1>1, <2>1, <2>5 DEF SourcesInv
<1>4. ASSUME NEW t \in Threads, thaw_notify(t) PROVE SourcesInv'
  <2>1. /\ tpc[t] = "thaw" /\ notify_queued' \in BOOLEAN
        /\ \/ tpc' = [tpc EXCEPT ![t] = "notify"]
           \/ tpc' = [tpc EXCEPT ![t] = "idle"]
        /\ UNCHANGED <<changes, idle_source, sources>>
    BY <1>1, <1>4 DEF thaw_notify
  <2>2. Changing' = Changing \/ Changing' = Changing \ {t}
    BY <1>1, <2>1 DEF Changing
  <2>3. Cardinality(Changing') <= Cardinality(Changing)
        /\ Cardinality(Changing') \in Nat
    <3>1. CASE Changing' = Changing
      BY <1>0, <3>1
    <3>2. CASE Changing' = Changing \ {t}
      <4>1. Cardinality(Changing \ {t}) \in {Cardinality(Changing) - 1,
                                            Cardinality(Changing)}
        BY <1>0, FS_RemoveElement
      <4>2. Cardinality(Changing \ {t}) \in Nat
        BY <1>0, FS_RemoveElement, FS_CardinalityType
      <4> QED
        BY <1>0, <3>2, <4>1, <4>2
    <3> QED
      BY <2>2, <3>1, <3>2
  <2>4. Cardinality(sources') = Cardinality(sources)
    BY <2>1
  <2>5. Cardinality(sources') + Cardinality(Changing') <= changes'
    BY <1>0, <1>1, <2>1, <2>3, <2>4
  <2> QED
    BY <1>1, <2>1, <2>5 DEF SourcesInv
<1>5. ASSUME NEW t \in Threads, skeleton_notify(t) PROVE SourcesInv'
  <2>1. /\ tpc[t] = "notify" /\ tpc' = [tpc EXCEPT ![t] = "idle"]
        /\ UNCHANGED <<notify_queued, changes>>
    BY <1>5 DEF skeleton_notify
  <2>2. t \in Changing /\ Changing' = Changing \ {t}
    BY <1>1, <2>1 DEF Changing
  <2>3. Cardinality(Changing') = Cardinality(Changing) - 1
    BY <1>0, <2>2, FS_RemoveElement
  <2>4. CASE UNCHANGED <<idle_source, sources>>
    <3>1. Cardinality(sources') = Cardinality(sources)
      BY <2>4
    <3>2. Cardinality(sources') + Cardinality(Changing') <= changes'
      BY <1>0, <1>1, <2>1, <2>3, <3>1
    <3> QED
      BY <1>1, <2>1, <2>4, <3>2 DEF SourcesInv
  <2>5. CASE \E s \in 1 .. MaxChanges : /\ s \notin sources
                                      /\ idle_source' = s
                                      /\ sources' = sources \cup {s}
    <3>1. PICK s \in 1 .. MaxChanges :
             /\ s \notin sources /\ idle_source' = s
             /\ sources' = sources \cup {s}
      BY <2>5
    <3>2. Cardinality(sources') = Cardinality(sources) + 1
      BY <1>0, <3>1, FS_AddElement
    <3>3. Cardinality(sources') + Cardinality(Changing') <= changes'
      BY <1>0, <1>1, <2>1, <2>3, <3>2
    <3>4. /\ idle_source' \in 0 .. MaxChanges
          /\ sources' \subseteq 1 .. MaxChanges
      BY <1>1, <3>1
    <3> QED
      BY <1>1, <2>1, <3>3, <3>4 DEF SourcesInv
  <2> QED
    BY <1>5, <2>2, <2>4, <2>5, NumberLeft DEF skeleton_notify
<1>6. ASSUME NEW t \in Threads, skeleton_flush(t) PROVE SourcesInv'
  <2>1. /\ tpc[t] = "idle" /\ tpc' = [tpc EXCEPT ![t] = "emit"]
        /\ changes < MaxChanges /\ changes' = changes + 1
        /\ sources' = sources \ {idle_source} /\ idle_source' = 0
        /\ UNCHANGED notify_queued
    BY <1>6 DEF skeleton_flush
  <2>2. Changing' = Changing
    BY <1>1, <2>1 DEF Changing
  <2>3. Cardinality(sources') <= Cardinality(sources)
        /\ Cardinality(sources') \in Nat
    BY <1>0, <2>1, FS_RemoveElement, FS_CardinalityType
  <2>4. Cardinality(Changing') = Cardinality(Changing)
    BY <2>2
  <2>5. Cardinality(sources') + Cardinality(Changing') <= changes'
    BY <1>0, <1>1, <2>1, <2>3, <2>4
  <2> QED
    BY <1>1, <2>1, <2>5 DEF SourcesInv
<1>7. CASE dispatch_source
  <2>1. PICK s \in sources : sources' = sources \ {s}
    BY <1>7 DEF dispatch_source
  <2>2. /\ tpc' = [tpc EXCEPT !["mainloop"] = "emit"]
        /\ UNCHANGED <<notify_queued, changes, idle_source>>
    BY <1>7 DEF dispatch_source
  <2>3. Changing' = Changing
    BY <1>1, <2>2 DEF Changing
  <2>4. Cardinality(sources') = Cardinality(sources) - 1
    BY <1>0, <2>1, FS_RemoveElement
  <2>5. Cardinality(Changing') = Cardinality(Changing)
    BY <2>3
  <2>6. Cardinality(sources') + Cardinality(Changing') <= changes'
    BY <1>0, <1>1, <2>2, <2>4, <2>5
  <2> QED
    BY <1>1, <2>1, <2>2, <2>6 DEF SourcesInv
<1>8. ASSUME NEW t \in Runners, emit_changed(t) PROVE SourcesInv'
  <2>1. /\ tpc[t] = "emit" /\ tpc' = [tpc EXCEPT ![t] = "idle"]
        /\ idle_source' = 0 /\ UNCHANGED <<sources, notify_queued, changes>>
    BY <1>8 DEF emit_changed
  <2>2. Changing' = Changing
    BY <1>1, <2>1 DEF Changing
  <2>3. /\ Cardinality(sources') = Cardinality(sources)
        /\ Cardinality(Changing') = Cardinality(Changing)
    BY <2>1, <2>2
  <2>4. Cardinality(sources') + Cardinality(Changing') <= changes'
    BY <1>0, <1>1, <2>1, <2>3
  <2> QED
    BY <1>1, <2>1, <2>4 DEF SourcesInv
<1> QED
  BY <1>2, <1>3, <1>4, <1>5, <1>6, <1>7, <1>8
  DEF SkeletonNext, SkeletonSteps

(* SourcesInv is inductive.                                                *)
LEMMA SourcesAlways == Spec => []SourcesInv
<1>1. Init => SourcesInv
  <2> SUFFICES ASSUME Init PROVE SourcesInv
    OBVIOUS
  <2>1. /\ notify_queued = FALSE /\ tpc = [t \in Runners |-> "idle"]
        /\ changes = 0 /\ idle_source = 0 /\ sources = {}
    BY DEF Init, skeleton_init
  <2>2. Changing = {}
    BY <2>1 DEF Changing, Runners
  <2>3. Cardinality(sources) = 0 /\ Cardinality(Changing) = 0
    BY <2>1, <2>2, FS_EmptySet
  <2> QED
    <3>1. Cardinality(sources) + Cardinality(Changing) <= changes
      BY <2>1, <2>3
    <3>2. 0 \in 0 .. MaxChanges
      BY BindingAssumption
    <3> QED
      BY <2>1, <3>1, <3>2 DEF SourcesInv
<1>2. SourcesInv /\ [Next]_vars => SourcesInv'
  <2> SUFFICES ASSUME SourcesInv, Next \/ UNCHANGED vars
               PROVE  SourcesInv'
    BY DEF vars
  <2>1. CASE SkeletonStep
    BY <2>1, SkeletonCounts DEF SkeletonStep
  <2>2. CASE UNCHANGED skeletonVars
    BY <2>2 DEF skeletonVars, SourcesInv, Changing
  <2>3. SkeletonStep \/ UNCHANGED skeletonVars
    BY StepsOfBinding DEF BindingStep, SubscribeStep, LoadStep, DeliverStep,
       OtherStep, bindingVars, proxy_subscribe, proxy_load,
       proxy_g_properties_changed
  <2> QED
    BY <2>1, <2>2, <2>3
<1> QED
  BY <1>1, <1>2, PTL DEF Spec
-----------------------------------------------------------------------------
(* Signals.                                                                *)

Variants == Lists \cup {<<>>}

(* The signals on the way carry values that the property can have.         *)
SignalsInv ==
    /\ properties \in Lists \cup {Null}
    /\ signals \in [Clients -> Seq(Variants)]

(* SignalsInv is inductive.                                                *)
LEMMA SignalsAlways == Spec => []SignalsInv
<1>1. Init => SignalsInv
  <2>1. <<>> \in Seq(Variants)
    BY EmptySeq
  <2> QED
    BY <2>1 DEF Init, skeleton_init, proxy_init, SignalsInv
<1>2. SignalsInv /\ [Next]_vars => SignalsInv'
  <2> SUFFICES ASSUME SignalsInv, Next \/ UNCHANGED vars
               PROVE  SignalsInv'
    BY DEF vars
  <2>0. ToVariant(properties) \in Variants /\ <<>> \in Seq(Variants)
        /\ signals \in [Clients -> Seq(Variants)]
    BY EmptySeq DEF SignalsInv, Variants, ToVariant
  <2>1. ASSUME UNCHANGED signals, properties' \in Lists \cup {properties}
        PROVE  SignalsInv'
    BY <2>1 DEF SignalsInv
  <2>2. ASSUME NEW t \in Runners, emit_changed(t) PROVE SignalsInv'
    <3>1. UNCHANGED properties
          /\ \/ UNCHANGED signals
             \/ signals' = [c \in Clients |->
                     IF c \in subscribed
                     THEN Append(signals[c], ToVariant(properties))
                     ELSE signals[c]]
      BY <2>2 DEF emit_changed
    <3>2. signals' \in [Clients -> Seq(Variants)]
      <4>1. \A c \in Clients :
               Append(signals[c], ToVariant(properties)) \in Seq(Variants)
        BY <2>0, AppendProperties
      <4> QED
        BY <2>0, <3>1, <4>1
    <3> QED
      BY <3>1, <3>2 DEF SignalsInv
  <2>3. CASE SkeletonStep
    <3>1. SkeletonNext
      BY <2>3 DEF SkeletonStep
    <3>2. (UNCHANGED signals /\ properties' \in Lists \cup {properties})
          \/ \E t \in Runners : emit_changed(t)
      BY <3>1 DEF SkeletonNext, SkeletonSteps, skeleton_export, proxyVars,
         skeleton_set_property, thaw_notify, skeleton_notify, skeleton_flush,
         dispatch_source
    <3> QED
      BY <2>1, <2>2, <3>2
  <2>4. ASSUME NEW c \in Clients,
               SubscribeStep(c) \/ LoadStep(c) \/ DeliverStep(c)
        PROVE  SignalsInv'
    <3>1. UNCHANGED properties
      BY <2>4 DEF SubscribeStep, LoadStep, DeliverStep, proxy_subscribe,
         proxy_load, proxy_g_properties_changed, skeletonVars
    <3>2. CASE SubscribeStep(c)
      <4>1. signals' = [signals EXCEPT ![c] = <<>>]
        BY <3>2 DEF SubscribeStep, proxy_subscribe
      <4> QED
        BY <2>0, <3>1, <4>1 DEF SignalsInv
    <3>3. CASE LoadStep(c)
      BY <2>1, <3>1, <3>3 DEF LoadStep, proxy_load
    <3>4. CASE DeliverStep(c)
      <4>1. /\ signals[c] # <<>>
            /\ signals' = [signals EXCEPT ![c] = Tail(signals[c])]
        BY <3>4 DEF DeliverStep, proxy_g_properties_changed
      <4>2. Tail(signals[c]) \in Seq(Variants)
        BY <2>0, <4>1, HeadTailProperties
      <4> QED
        BY <2>0, <3>1, <4>1, <4>2 DEF SignalsInv
    <3> QED
      BY <2>4, <3>2, <3>3, <3>4
  <2>5. CASE OtherStep
    BY <2>1, <2>5 DEF OtherStep, bindingVars, skeletonVars, proxyVars
  <2> QED
    BY <2>3, <2>4, <2>5, StepsOfBinding DEF BindingStep
<1> QED
  BY <1>1, <1>2, PTL DEF Spec

(* The types of the binding: a change is recorded once at most, and a new  *)
(* idle source always gets a number.                                       *)
LEMMA BindingTyped == Spec => []BindingTypeOK
<1>1. FollowInv /\ SourcesInv /\ SignalsInv => BindingTypeOK
  <2> SUFFICES ASSUME FollowInv, SourcesInv, SignalsInv PROVE BindingTypeOK
    OBVIOUS
  <2>1. BindingTypes
    BY DEF FollowInv
  <2>2. /\ changed_properties \subseteq Lists \cup {Null}
        /\ Cardinality(changed_properties) <= 1
    <3>1. CASE changed_properties = {}
      <4>1. Cardinality(changed_properties) = 0
        BY <3>1, FS_EmptySet
      <4> QED
        BY <3>1, <4>1
    <3>2. ASSUME NEW o \in Lists \cup {Null}, changed_properties = {o}
          PROVE  /\ changed_properties \subseteq Lists \cup {Null}
                 /\ Cardinality(changed_properties) <= 1
      <4>1. Cardinality(changed_properties) = 1
        BY <3>2, FS_Singleton
      <4> QED
        BY <3>2, <4>1
    <3> QED
      BY <2>1, <3>1, <3>2 DEF BindingTypes
  <2>3. ASSUME NEW c \in Clients
        PROVE  /\ cache[c] = Null \/ cache[c] \in Seq(Nat)
               /\ \A i \in DOMAIN signals[c] : signals[c][i] \in Variants
    <3>1. signals[c] \in Seq(Variants)
      BY DEF SignalsInv
    <3>2. \A i \in DOMAIN signals[c] : signals[c][i] \in Variants
      BY <3>1, LenProperties
    <3> QED
      BY <2>1, <3>2 DEF BindingTypes
  <2> QED
    BY <2>1, <2>2, <2>3 DEF BindingTypeOK, BindingTypes, SourcesInv, Variants
<1> QED
  BY <1>1, FollowAlways, SourcesAlways, SignalsAlways, PTL
-----------------------------------------------------------------------------
(* Calls and replies match.                                                *)

(* The types on the bus.                                                   *)
BusTypes == {"s", "i", "q", "v", "as", "a{sv}"}
-----------------------------------------------------------------------------
(* The tables.                                                             *)

(* The types of a method agree in all places: the introspected interface   *)
(* and the function that completes an invocation have those of the         *)
(* caller's function, the GObject signal of the handler declares the       *)
(* GTypes that the arguments are converted to, and so do the three         *)
(* statements that the server keeps by hand.                               *)
Agrees(f) ==
    /\ f.args \in Seq(BusTypes) /\ f.ret \in Seq(BusTypes)
    /\ InterfaceInfo[f.iface][f.name].in = f.args
    /\ InterfaceInfo[f.iface][f.name].out = f.ret
    /\ Complete[f.iface][f.name] = f.ret
    /\ DOMAIN DefaultInit[f.iface][f.name] = DOMAIN f.args
    /\ \A k \in DOMAIN f.args :
           DefaultInit[f.iface][f.name][k] = GValueType(f.args[k])
    /\ f.iface = "RDPMux" =>
           /\ introspection_xml[f.name].in = f.args
           /\ introspection_xml[f.name].out = f.ret
           /\ server_variants[f.name] = f.args
           /\ server_result[f.name] = f.ret

(* The generated tables agree for each of the seven functions.             *)
LEMMA TablesAgree == \A f \in CallFunctions : Agrees(f)
<1>1. Agrees(call_get)
  <2>1. /\ call_get.iface = "Properties" /\ call_get.name = "Get"
        /\ call_get.args = <<"s", "s">>
        /\ call_get.ret = <<"v">>
    BY DEF call_get, Function
  <2>2. /\ InterfaceInfo["Properties"]["Get"].in = <<"s", "s">>
        /\ InterfaceInfo["Properties"]["Get"].out = <<"v">>
    BY DEF InterfaceInfo, properties_method_info, Method
  <2>3. Complete["Properties"]["Get"] = <<"v">>
    BY DEF Complete, properties_complete
  <2>4. DefaultInit["Properties"]["Get"]
           = <<"STRING", "STRING">>
    BY DEF DefaultInit, properties_default_init
  <2>5. <<"s", "s">> \in Seq(BusTypes) /\ <<"v">> \in Seq(BusTypes)
    BY DEF BusTypes
  <2>6. /\ DOMAIN <<"STRING", "STRING">> = DOMAIN <<"s", "s">>
        /\ \A k \in DOMAIN <<"s", "s">> :
              <<"STRING", "STRING">>[k]
                 = GValueType(<<"s", "s">>[k])
    BY DEF GValueType
  <2> QED
    BY <2>1, <2>2, <2>3, <2>4, <2>5, <2>6 DEF Agrees
<1>2. Agrees(call_get_all)
  <2>1. /\ call_get_all.iface = "Properties" /\ call_get_all.name = "GetAll"
        /\ call_get_all.args = <<"s">>
        /\ call_get_all.ret = <<"a{sv}">>
    BY DEF call_get_all, Function
  <2>2. /\ InterfaceInfo["Properties"]["GetAll"].in = <<"s">>
        /\ InterfaceInfo["Properties"]["GetAll"].out = <<"a{sv}">>
    BY DEF InterfaceInfo, properties_method_info, Method
  <2>3. Complete["Properties"]["GetAll"] = <<"a{sv}">>
    BY DEF Complete, properties_complete
  <2>4. DefaultInit["Properties"]["GetAll"]
           = <<"STRING">>
    BY DEF DefaultInit, properties_default_init
  <2>5. <<"s">> \in Seq(BusTypes) /\ <<"a{sv}">> \in Seq(BusTypes)
    BY DEF BusTypes
  <2>6. /\ DOMAIN <<"STRING">> = DOMAIN <<"s">>
        /\ \A k \in DOMAIN <<"s">> :
              <<"STRING">>[k]
                 = GValueType(<<"s">>[k])
    BY DEF GValueType
  <2> QED
    BY <2>1, <2>2, <2>3, <2>4, <2>5, <2>6 DEF Agrees
<1>3. Agrees(call_set)
  <2>1. /\ call_set.iface = "Properties" /\ call_set.name = "Set"
        /\ call_set.args = <<"s", "s", "v">>
        /\ call_set.ret = <<>>
    BY DEF call_set, Function
  <2>2. /\ InterfaceInfo["Properties"]["Set"].in = <<"s", "s", "v">>
        /\ InterfaceInfo["Properties"]["Set"].out = <<>>
    BY DEF InterfaceInfo, properties_method_info, Method
  <2>3. Complete["Properties"]["Set"] = <<>>
    BY DEF Complete, properties_complete
  <2>4. DefaultInit["Properties"]["Set"]
           = <<"STRING", "STRING", "VARIANT">>
    BY DEF DefaultInit, properties_default_init
  <2>5. <<"s", "s", "v">> \in Seq(BusTypes) /\ <<>> \in Seq(BusTypes)
    BY DEF BusTypes
  <2>6. /\ DOMAIN <<"STRING", "STRING", "VARIANT">> = DOMAIN <<"s", "s", "v">>
        /\ \A k \in DOMAIN <<"s", "s", "v">> :
              <<"STRING", "STRING", "VARIANT">>[k]
                 = GValueType(<<"s", "s", "v">>[k])
    BY DEF GValueType
  <2> QED
    BY <2>1, <2>2, <2>3, <2>4, <2>5, <2>6 DEF Agrees
<1>4. Agrees(call_introspect)
  <2>1. /\ call_introspect.iface = "Introspectable"
        /\ call_introspect.name = "Introspect"
        /\ call_introspect.args = <<>>
        /\ call_introspect.ret = <<"s">>
    BY DEF call_introspect, Function
  <2>2. /\ InterfaceInfo["Introspectable"]["Introspect"].in = <<>>
        /\ InterfaceInfo["Introspectable"]["Introspect"].out = <<"s">>
    BY DEF InterfaceInfo, introspectable_interface_info, Method
  <2>3. Complete["Introspectable"]["Introspect"] = <<"s">>
    BY DEF Complete, introspectable_complete
  <2>4. DefaultInit["Introspectable"]["Introspect"]
           = <<>>
    BY DEF DefaultInit, introspectable_default_init
  <2>5. <<>> \in Seq(BusTypes) /\ <<"s">> \in Seq(BusTypes)
    BY DEF BusTypes
  <2> QED
    BY <2>1, <2>2, <2>3, <2>4, <2>5 DEF Agrees
<1>5. Agrees(call_ping)
  <2>1. /\ call_ping.iface = "Peer" /\ call_ping.name = "Ping"
        /\ call_ping.args = <<>>
        /\ call_ping.ret = <<>>
    BY DEF call_ping, Function
  <2>2. /\ InterfaceInfo["Peer"]["Ping"].in = <<>>
        /\ InterfaceInfo["Peer"]["Ping"].out = <<>>
    BY DEF InterfaceInfo, peer_interface_info, Method
  <2>3. Complete["Peer"]["Ping"] = <<>>
    BY DEF Complete, peer_complete
  <2>4. DefaultInit["Peer"]["Ping"]
           = <<>>
    BY DEF DefaultInit, peer_default_init
  <2>5. <<>> \in Seq(BusTypes) /\ <<>> \in Seq(BusTypes)
    BY DEF BusTypes
  <2> QED
    BY <2>1, <2>2, <2>3, <2>4, <2>5 DEF Agrees
<1>6. Agrees(call_get_machine_id)
  <2>1. /\ call_get_machine_id.iface = "Peer"
        /\ call_get_machine_id.name = "GetMachineId"
        /\ call_get_machine_id.args = <<>>
        /\ call_get_machine_id.ret = <<"s">>
    BY DEF call_get_machine_id, Function
  <2>2. /\ InterfaceInfo["Peer"]["GetMachineId"].in = <<>>
        /\ InterfaceInfo["Peer"]["GetMachineId"].out = <<"s">>
    BY DEF InterfaceInfo, peer_interface_info, Method
  <2>3. Complete["Peer"]["GetMachineId"] = <<"s">>
    BY DEF Complete, peer_complete
  <2>4. DefaultInit["Peer"]["GetMachineId"]
           = <<>>
    BY DEF DefaultInit, peer_default_init
  <2>5. <<>> \in Seq(BusTypes) /\ <<"s">> \in Seq(BusTypes)
    BY DEF BusTypes
  <2> QED
    BY <2>1, <2>2, <2>3, <2>4, <2>5 DEF Agrees
<1>7. Agrees(call_register)
  <2>1. /\ call_register.iface = "RDPMux" /\ call_register.name = "Register"
        /\ call_register.args = <<"i", "i", "s", "q", "s">>
        /\ call_register.ret = <<"s">>
    BY DEF call_register, Function
  <2>2. /\ InterfaceInfo["RDPMux"]["Register"].in = <<"i", "i", "s", "q", "s">>
        /\ InterfaceInfo["RDPMux"]["Register"].out = <<"s">>
    BY DEF InterfaceInfo, rdpmux_interface_info, Method
  <2>3. Complete["RDPMux"]["Register"] = <<"s">>
    BY DEF Complete, rdpmux_complete
  <2>4. DefaultInit["RDPMux"]["Register"]
           = <<"INT", "INT", "STRING", "UINT", "STRING">>
    BY DEF DefaultInit, rdpmux_default_init
  <2>5. /\ <<"i", "i", "s", "q", "s">> \in Seq(BusTypes)
        /\ <<"s">> \in Seq(BusTypes)
    BY DEF BusTypes
  <2>6. /\ DOMAIN <<"INT", "INT", "STRING", "UINT", "STRING">>
              = DOMAIN <<"i", "i", "s", "q", "s">>
        /\ \A k \in DOMAIN <<"i", "i", "s", "q", "s">> :
              <<"INT", "INT", "STRING", "UINT", "STRING">>[k]
                 = GValueType(<<"i", "i", "s", "q", "s">>[k])
    BY DEF GValueType
  <2>7. /\ introspection_xml["Register"].in = <<"i", "i", "s", "q", "s">>
        /\ introspection_xml["Register"].out = <<"s">>
        /\ server_variants["Register"] = <<"i", "i", "s", "q", "s">>
        /\ server_result["Register"] = <<"s">>
    BY DEF introspection_xml, server_variants, server_result, Method
  <2> QED
    BY <2>1, <2>2, <2>3, <2>4, <2>5, <2>6, <2>7 DEF Agrees
<1> QED
  BY <1>1, <1>2, <1>3, <1>4, <1>5, <1>6, <1>7 DEF CallFunctions
-----------------------------------------------------------------------------
(* Tuples.                                                                 *)

(* A tuple has a child for each of its types, of that type.                *)
LEMMA TupleTypes ==
    ASSUME NEW types \in Seq(BusTypes), NEW who
    PROVE  /\ DOMAIN Tuple(types, who) = DOMAIN types
           /\ TypesOf(Tuple(types, who)) = types
           /\ \A k \in DOMAIN types : Tuple(types, who)[k].type = types[k]
           /\ \A k \in DOMAIN types : Tuple(types, who)[k].val = <<who, k>>
<1>1. PICK t : t = Tuple(types, who)
  OBVIOUS
<1>2. t = [k \in DOMAIN types |-> [type |-> types[k], val |-> <<who, k>>]]
  BY <1>1 DEF Tuple
<1>3. /\ DOMAIN t = DOMAIN types
      /\ \A k \in DOMAIN types : t[k].type = types[k]
      /\ \A k \in DOMAIN types : t[k].val = <<who, k>>
  BY <1>2
<1>4. TypesOf(t) = [k \in DOMAIN types |-> types[k]]
  BY <1>3 DEF TypesOf
<1>5. types = [k \in DOMAIN types |-> types[k]]
  BY LenProperties
<1> QED
  BY <1>1, <1>3, <1>4, <1>5

(* What the handlers get from the children of a tuple.                     *)
LEMMA TupleParameters ==
    ASSUME NEW types \in Seq(BusTypes), NEW who,
           NEW p, p = Parameters(Tuple(types, who))
    PROVE  /\ DOMAIN p = DOMAIN types
           /\ \A k \in DOMAIN types : p[k].type = GValueType(types[k])
           /\ \A k \in DOMAIN types : p[k].val = <<who, k>>
<1>1. PICK t : t = Tuple(types, who)
  OBVIOUS
<1>2. /\ DOMAIN t = DOMAIN types
      /\ \A k \in DOMAIN types : t[k].type = types[k]
      /\ \A k \in DOMAIN types : t[k].val = <<who, k>>
  BY <1>1, TupleTypes
<1>3. p = [k \in DOMAIN t |-> [type |-> GValueType(t[k].type),
                              val |-> t[k].val]]
  BY <1>1 DEF Parameters
<1>4. DOMAIN p = DOMAIN types
  BY <1>2, <1>3
<1>5. ASSUME NEW k \in DOMAIN types
      PROVE  p[k].type = GValueType(types[k]) /\ p[k].val = <<who, k>>
  <2>1. p[k] = [type |-> GValueType(t[k].type), val |-> t[k].val]
    BY <1>2, <1>3
  <2>2. t[k].type = types[k] /\ t[k].val = <<who, k>>
    BY <1>2
  <2> QED
    BY <2>1, <2>2
<1> QED
  BY <1>4, <1>5
-----------------------------------------------------------------------------
(* Sequences of whatever elements.                                         *)

IsSequence(s) == s \in Seq({s[i] : i \in DOMAIN s})

(* A sequence is one over any set that its elements are in.                *)
LEMMA SequenceOfItself ==
    ASSUME NEW S, NEW s \in Seq(S), NEW T, \A i \in DOMAIN s : s[i] \in T
    PROVE  s \in Seq(T)
<1>0. /\ Len(s) \in Nat /\ DOMAIN s = 1 .. Len(s)
      /\ s \in [1 .. Len(s) -> S]
  BY LenProperties
<1>1. PICK n \in Nat : n = Len(s) /\ s \in [1 .. n -> S] /\ DOMAIN s = 1 .. n
  BY <1>0
<1>2. PICK t : t = SubSeq(s, 1, n)
  OBVIOUS
<1>3. 1 \in Int /\ n \in Int /\ \A i \in 1 .. n : s[i] \in T
  BY <1>1
<1>4. /\ t \in Seq(T)
      /\ Len(t) = IF 1 <= n THEN n - 1 + 1 ELSE 0
      /\ \A i \in 1 .. n - 1 + 1 : t[i] = s[1 + i - 1]
  BY <1>2, <1>3, SubSeqProperties
<1>5. Len(t) = n /\ \A i \in 1 .. n : t[i] = s[i]
  BY <1>4
<1>6. t \in [1 .. n -> T]
  BY <1>4, <1>5, LenProperties
<1>7. t = s
  BY <1>1, <1>5, <1>6
<1> QED
  BY <1>4, <1>7

(* Its length, and the positions of its elements.                          *)
LEMMA IsSequenceFacts ==
    ASSUME NEW s, IsSequence(s)
    PROVE  Len(s) \in Nat /\ DOMAIN s = 1 .. Len(s)
BY LenProperties DEF IsSequence

(* A sequence over a set is a sequence.                                    *)
LEMMA SequenceIs ==
    ASSUME NEW S, NEW s \in Seq(S) PROVE IsSequence(s)
<1>1. \A i \in DOMAIN s : s[i] \in {s[j] : j \in DOMAIN s}
  OBVIOUS
<1> QED
  BY <1>1, SequenceOfItself DEF IsSequence

(* Appending adds one position, with the new element.                      *)
LEMMA IsSequenceAppend ==
    ASSUME NEW s, IsSequence(s), NEW e, NEW t, t = Append(s, e)
    PROVE  /\ IsSequence(t) /\ DOMAIN t = DOMAIN s \cup {Len(s) + 1}
           /\ Len(t) = Len(s) + 1
           /\ t[Len(s) + 1] = e /\ \A i \in DOMAIN s : t[i] = s[i]
<1>1. PICK S : S = {s[i] : i \in DOMAIN s} \cup {e}
  OBVIOUS
<1>2. s \in Seq({s[i] : i \in DOMAIN s})
  BY DEF IsSequence
<1>3. s \in Seq(S) /\ e \in S
  <2>1. \A i \in DOMAIN s : s[i] \in S
    BY <1>1
  <2> QED
    BY <1>1, <1>2, <2>1, SequenceOfItself
<1>4. /\ t \in Seq(S) /\ Len(t) = Len(s) + 1
      /\ \A i \in 1 .. Len(s) : t[i] = s[i]
      /\ t[Len(s) + 1] = e
  BY <1>3, AppendProperties
<1>5. Len(s) \in Nat /\ DOMAIN s = 1 .. Len(s) /\ DOMAIN t = 1 .. Len(s) + 1
  BY <1>3, <1>4, LenProperties
<1>6. DOMAIN t = DOMAIN s \cup {Len(s) + 1}
  BY <1>5
<1>7. IsSequence(t)
  BY <1>4, SequenceIs
<1> QED
  BY <1>4, <1>5, <1>6, <1>7

(* What was there before an element is appended stays where it was.        *)
LEMMA AppendKeeps ==
    ASSUME NEW s, IsSequence(s), NEW e, NEW t, t = Append(s, e),
           NEW i \in DOMAIN s
    PROVE  t[i] = s[i]
<1>1. i \in 1 .. Len(s)
  BY IsSequenceFacts
<1>2. s \in Seq({s[j] : j \in DOMAIN s}) /\ Len(s) \in Nat
  BY IsSequenceFacts DEF IsSequence
<1>3. PICK S : S = {s[j] : j \in DOMAIN s} \cup {e}
  OBVIOUS
<1>4. s \in Seq(S) /\ e \in S
  <2>1. \A j \in DOMAIN s : s[j] \in S
    BY <1>3
  <2> QED
    BY <1>2, <1>3, <2>1, SequenceOfItself
<1> QED
  BY <1>1, <1>4, AppendProperties

(* Replacing an element leaves the others.                                 *)
LEMMA IsSequenceExcept ==
    ASSUME NEW s, IsSequence(s), NEW n \in DOMAIN s, NEW e,
           NEW t, t = [s EXCEPT ![n] = e]
    PROVE  /\ IsSequence(t) /\ DOMAIN t = DOMAIN s
           /\ t[n] = e /\ \A i \in DOMAIN s : i # n => t[i] = s[i]
<1>1. PICK S : S = {s[i] : i \in DOMAIN s} \cup {e}
  OBVIOUS
<1>2. s \in Seq({s[i] : i \in DOMAIN s})
  BY DEF IsSequence
<1>3. s \in Seq(S) /\ e \in S
  <2>1. \A i \in DOMAIN s : s[i] \in S
    BY <1>1
  <2> QED
    BY <1>1, <1>2, <2>1, SequenceOfItself
<1>4. n \in 1 .. Len(s)
  BY IsSequenceFacts
<1>5. t \in Seq(S)
  BY <1>3, <1>4, ExceptSeq
<1>6. IsSequence(t)
  BY <1>5, SequenceIs
<1> QED
  BY <1>6
-----------------------------------------------------------------------------
(* The inductive invariant.                                                *)

(* The n-th call of function f carries the arguments of its caller; its    *)
(* handlers got them; its reply, once there, is made for it; and its       *)
(* caller knows that reply or nothing.                                     *)
Coherent(inv, n) ==
    LET f == inv.function
        reply == Tuple(f.ret, <<"handler", n>>)
    IN  /\ DOMAIN inv = {"state", "function", "body", "params", "reply",
                         "result"}
        /\ inv.state \in {"sent", "handled", "replied", "error"}
        /\ f \in CallFunctions
        /\ inv.body = Tuple(f.args, <<"caller", n>>)
        /\ inv.state \in {"handled", "replied"} =>
              inv.params = Parameters(inv.body)
        /\ inv.reply = IF inv.state = "replied" THEN reply ELSE <<>>
        /\ inv.result \in {Pending, [ok |-> TRUE, out |-> reply]}

(* The signals on the way to a proxy.                                      *)
PropertiesSignal ==
    {Tuple(<<"s", "a{sv}", "as">>, <<"signal", n>>) : n \in 1 .. MaxSignals}

CallsInv ==
    /\ proxies \in [Callers -> [phase : {"none", "new", "ready", "waiting"},
                                iface : Interfaces \cup {"none"}, of : Nat]]
    /\ IsSequence(invocations)
    /\ \A n \in DOMAIN invocations : Coherent(invocations[n], n)
    /\ \A c \in Callers :
           proxies[c].phase = "waiting" => proxies[c].of \in DOMAIN invocations
    /\ emitted \in 0 .. MaxSignals
    /\ routed \in [Callers -> Seq(PropertiesSignal)]
    /\ heard \in [Callers -> {<<>>}
                            \cup {Parameters(t) : t \in PropertiesSignal}]

(* A step that changes the n-th invocation alone.                          *)
LEMMA OneInvocation ==
    ASSUME CallsInv, NEW n \in DOMAIN invocations, NEW inv, Coherent(inv, n),
           invocations' = [invocations EXCEPT ![n] = inv],
           proxies' \in [Callers -> [phase : {"none", "new", "ready",
                                              "waiting"},
                                     iface : Interfaces \cup {"none"},
                                     of : Nat]],
           \A c \in Callers :
               proxies'[c].phase = "waiting" => proxies'[c] = proxies[c],
           UNCHANGED <<emitted, routed, heard>>
    PROVE  CallsInv'
<1>1. IsSequence(invocations)
  BY DEF CallsInv
<1>2. PICK t : t = invocations'
  OBVIOUS
<1>3. /\ IsSequence(t) /\ DOMAIN t = DOMAIN invocations
      /\ t[n] = inv
      /\ \A i \in DOMAIN invocations : i # n => t[i] = invocations[i]
  BY <1>1, <1>2, IsSequenceExcept
<1>4. \A i \in DOMAIN t : Coherent(t[i], i)
  BY <1>3 DEF CallsInv
<1>5. \A c \in Callers :
         proxies'[c].phase = "waiting" => proxies'[c].of \in DOMAIN t
  BY <1>3 DEF CallsInv
<1> QED
  BY <1>2, <1>3, <1>4, <1>5 DEF CallsInv

(* A step that changes proxies alone.                                      *)
LEMMA OneProxy ==
    ASSUME CallsInv,
           proxies' \in [Callers -> [phase : {"none", "new", "ready",
                                              "waiting"},
                                     iface : Interfaces \cup {"none"},
                                     of : Nat]],
           \A c \in Callers :
               proxies'[c].phase = "waiting" => proxies'[c] = proxies[c],
           UNCHANGED <<invocations, emitted, routed, heard>>
    PROVE  CallsInv'
BY DEF CallsInv

(* A step that changes the phase of a proxy keeps the proxies typed.       *)
LEMMA PhaseTypes ==
    ASSUME CallsInv, NEW c \in Callers, NEW p \in {"none", "new", "ready"},
           SetPhase(c, p)
    PROVE  /\ proxies' \in [Callers -> [phase : {"none", "new", "ready",
                                                 "waiting"},
                                        iface : Interfaces \cup {"none"},
                                        of : Nat]]
           /\ \A d \in Callers :
                 proxies'[d].phase = "waiting" => proxies'[d] = proxies[d]
BY DEF CallsInv, SetPhase

(* A step that makes or drops a proxy.                                     *)
LEMMA ProxyTypes ==
    ASSUME CallsInv, NEW c \in Callers, NEW p \in {"none", "new", "ready"},
           NEW i \in Interfaces \cup {"none"},
           proxies' = [proxies EXCEPT
                          ![c] = [phase |-> p, iface |-> i, of |-> 0]],
           UNCHANGED <<invocations, emitted, routed, heard>>
    PROVE  CallsInv'
<1>1. /\ proxies' \in [Callers -> [phase : {"none", "new", "ready", "waiting"},
                                   iface : Interfaces \cup {"none"},
                                   of : Nat]]
      /\ \A d \in Callers :
            proxies'[d].phase = "waiting" => proxies'[d] = proxies[d]
  BY DEF CallsInv
<1> QED
  BY <1>1, OneProxy

(* A call is appended with the arguments of its caller.                    *)
LEMMA CallStep ==
    ASSUME CallsInv, NEW c \in Callers, NEW f \in CallFunctions,
           proxy_call(c, f)
    PROVE  CallsInv'
<1>1. PICK n : n = Len(invocations) + 1
  OBVIOUS
<1>2. PICK inv :
         inv = [state |-> "sent", function |-> f,
                body |-> Tuple(f.args, <<"caller", n>>),
                params |-> <<>>, reply |-> <<>>, result |-> Pending]
  OBVIOUS
<1>3. /\ proxies' = [proxies EXCEPT ![c].phase = "waiting", ![c].of = n]
      /\ invocations' = Append(invocations, inv)
      /\ UNCHANGED <<emitted, routed, heard>>
  BY <1>1, <1>2 DEF proxy_call
<1>4. IsSequence(invocations) /\ Len(invocations) \in Nat
  BY IsSequenceFacts DEF CallsInv
<1>5. PICK t : t = invocations'
  OBVIOUS
<1>6. /\ IsSequence(t) /\ DOMAIN t = DOMAIN invocations \cup {n}
      /\ t[n] = inv /\ \A i \in DOMAIN invocations : t[i] = invocations[i]
  <2>1. /\ IsSequence(t)
        /\ DOMAIN t = DOMAIN invocations \cup {Len(invocations) + 1}
        /\ t[Len(invocations) + 1] = inv
        /\ \A i \in DOMAIN invocations : t[i] = invocations[i]
    <3>1. t = Append(invocations, inv)
      BY <1>3, <1>5, Zenon
    <3>2. IsSequence(invocations)
      BY <1>4, Zenon
    <3>3. IsSequence(t)
      BY <3>1, <3>2, IsSequenceAppend, Zenon
    <3>4. DOMAIN t = DOMAIN invocations \cup {Len(invocations) + 1}
      BY <3>1, <3>2, IsSequenceAppend, Zenon
    <3>5. t[Len(invocations) + 1] = inv
      BY <3>1, <3>2, IsSequenceAppend, Zenon
    <3>6. ASSUME NEW i \in DOMAIN invocations PROVE t[i] = invocations[i]
      BY <3>1, <3>2, AppendKeeps, Zenon
    <3> QED
      BY <3>3, <3>4, <3>5, <3>6, Zenon
  <2> QED
    BY <1>1, <2>1, Zenon
<1>7. Coherent(inv, n)
  BY <1>2 DEF Coherent
<1>8. \A i \in DOMAIN t : Coherent(t[i], i)
  BY <1>6, <1>7 DEF CallsInv
<1>9. /\ proxies' \in [Callers -> [phase : {"none", "new", "ready", "waiting"},
                                   iface : Interfaces \cup {"none"},
                                   of : Nat]]
      /\ proxies'[c].of = n
      /\ \A d \in Callers : d # c => proxies'[d] = proxies[d]
  <2>1. n \in Nat
    BY <1>1, <1>4
  <2> QED
    BY <1>3, <2>1 DEF CallsInv
<1>10. \A d \in Callers :
          proxies'[d].phase = "waiting" => proxies'[d].of \in DOMAIN t
  BY <1>6, <1>9 DEF CallsInv
<1> QED
  BY <1>3, <1>5, <1>6, <1>8, <1>9, <1>10 DEF CallsInv

(* The handlers get the arguments; GDBus has no reason to refuse them.     *)
LEMMA HandleStep ==
    ASSUME CallsInv, NEW n \in DOMAIN invocations, handle_method_call(n)
    PROVE  CallsInv'
<1>1. PICK inv : inv = invocations[n]
  OBVIOUS
<1>2. Coherent(inv, n) /\ IsSequence(invocations)
  BY <1>1 DEF CallsInv
<1>3. PICK f \in CallFunctions : f = inv.function
  BY <1>2 DEF Coherent
<1>4. /\ DOMAIN inv = {"state", "function", "body", "params", "reply",
                      "result"}
      /\ inv.body = Tuple(f.args, <<"caller", n>>)
      /\ inv.result \in {Pending, [ok |-> TRUE,
                                   out |-> Tuple(f.ret, <<"handler", n>>)]}
      /\ inv.state = "sent" /\ inv.reply = <<>>
  BY <1>1, <1>2, <1>3 DEF Coherent, handle_method_call
<1>5. TypesOf(inv.body) = InterfaceInfo[f.iface][f.name].in
  BY <1>4, TablesAgree, TupleTypes DEF Agrees
<1>6. PICK s \in {"handled", "error"} :
         invocations' = [invocations EXCEPT
            ![n].state = s, ![n].params = Parameters(inv.body)]
  BY <1>1, <1>3, <1>5 DEF handle_method_call
<1>7. PICK new : new = [inv EXCEPT !.state = s,
                                    !.params = Parameters(inv.body)]
  OBVIOUS
<1>8. invocations' = [invocations EXCEPT ![n] = new]
  BY <1>1, <1>6, <1>7
<1>9. /\ DOMAIN new = DOMAIN inv /\ new.state = s
      /\ new.params = Parameters(inv.body) /\ new.function = inv.function
      /\ new.body = inv.body /\ new.reply = inv.reply
      /\ new.result = inv.result
  BY <1>4, <1>7
<1>10. Coherent(new, n)
  BY <1>3, <1>4, <1>9 DEF Coherent
<1> QED
  BY <1>8, <1>10, OneInvocation DEF handle_method_call, CallsInv

(* A handler completes its invocation with a reply of its own.             *)
LEMMA CompleteStep ==
    ASSUME CallsInv, NEW n \in DOMAIN invocations, complete(n)
    PROVE  CallsInv'
<1>1. PICK inv : inv = invocations[n]
  OBVIOUS
<1>2. Coherent(inv, n) /\ IsSequence(invocations)
  BY <1>1 DEF CallsInv
<1>3. PICK f \in CallFunctions : f = inv.function
  BY <1>2 DEF Coherent
<1>4. /\ DOMAIN inv = {"state", "function", "body", "params", "reply",
                      "result"}
      /\ inv.body = Tuple(f.args, <<"caller", n>>)
      /\ inv.params = Parameters(inv.body)
      /\ inv.result \in {Pending, [ok |-> TRUE,
                                   out |-> Tuple(f.ret, <<"handler", n>>)]}
      /\ inv.state = "handled" /\ inv.reply = <<>>
  BY <1>1, <1>2, <1>3 DEF Coherent, complete
<1>5. /\ Complete[f.iface][f.name] = f.ret
      /\ InterfaceInfo[f.iface][f.name].out = f.ret
  BY TablesAgree DEF Agrees
<1>6. \/ invocations' = [invocations EXCEPT
            ![n].state = "replied",
            ![n].reply = Tuple(f.ret, <<"handler", n>>)]
      \/ invocations' = [invocations EXCEPT ![n]["state"] = "error"]
  BY <1>1, <1>3, <1>5 DEF complete, Set
<1>7. CASE invocations' = [invocations EXCEPT
              ![n].state = "replied",
              ![n].reply = Tuple(f.ret, <<"handler", n>>)]
  <2>1. PICK new : new = [inv EXCEPT !.state = "replied",
                             !.reply = Tuple(f.ret, <<"handler", n>>)]
    OBVIOUS
  <2>2. invocations' = [invocations EXCEPT ![n] = new]
    BY <1>1, <1>7, <2>1
  <2>3. /\ DOMAIN new = DOMAIN inv /\ new.state = "replied"
        /\ new.reply = Tuple(f.ret, <<"handler", n>>)
        /\ new.function = inv.function /\ new.body = inv.body
        /\ new.params = inv.params /\ new.result = inv.result
    BY <1>4, <2>1
  <2>4. Coherent(new, n)
    BY <1>3, <1>4, <2>3 DEF Coherent
  <2> QED
    BY <2>2, <2>4, OneInvocation DEF complete, CallsInv
<1>8. CASE invocations' = [invocations EXCEPT ![n]["state"] = "error"]
  <2>1. PICK new : new = [inv EXCEPT !["state"] = "error"]
    OBVIOUS
  <2>2. invocations' = [invocations EXCEPT ![n] = new]
    BY <1>1, <1>8, <2>1
  <2>3. /\ DOMAIN new = DOMAIN inv /\ new.state = "error"
        /\ new.reply = inv.reply
        /\ new.function = inv.function /\ new.body = inv.body
        /\ new.params = inv.params /\ new.result = inv.result
    BY <1>4, <2>1
  <2>4. Coherent(new, n)
    BY <1>3, <1>4, <2>3 DEF Coherent
  <2> QED
    BY <2>2, <2>4, OneInvocation DEF complete, CallsInv
<1> QED
  BY <1>6, <1>7, <1>8

(* The server finds the arguments it declares, and returns its reply.      *)
LEMMA ServerStep ==
    ASSUME CallsInv, NEW n \in DOMAIN invocations, server_method_call(n)
    PROVE  CallsInv'
<1>1. PICK inv : inv = invocations[n]
  OBVIOUS
<1>2. Coherent(inv, n) /\ IsSequence(invocations)
  BY <1>1 DEF CallsInv
<1>3. PICK f \in CallFunctions : f = inv.function
  BY <1>2 DEF Coherent
<1>4. /\ DOMAIN inv = {"state", "function", "body", "params", "reply",
                      "result"}
      /\ inv.body = Tuple(f.args, <<"caller", n>>)
      /\ inv.result \in {Pending, [ok |-> TRUE,
                                   out |-> Tuple(f.ret, <<"handler", n>>)]}
      /\ f.iface = "RDPMux"
  BY <1>1, <1>2, <1>3 DEF Coherent, server_method_call
<1>5. /\ introspection_xml[f.name].in = f.args
      /\ introspection_xml[f.name].out = f.ret
      /\ server_variants[f.name] = f.args
      /\ server_result[f.name] = f.ret
      /\ f.args \in Seq(BusTypes)
  BY <1>4, TablesAgree DEF Agrees
<1>6. TypesOf(inv.body) = f.args
  BY <1>4, <1>5, TupleTypes
<1>7. PICK p, r : p = Parameters(inv.body)
                  /\ r = Tuple(f.ret, <<"handler", n>>)
  OBVIOUS
<1>8. invocations' = [invocations EXCEPT
         ![n].state = "replied", ![n].params = p, ![n].reply = r]
  BY <1>1, <1>3, <1>5, <1>6, <1>7 DEF server_method_call
<1>9. PICK new : new = [inv EXCEPT !.state = "replied", !.params = p,
                                    !.reply = r]
  OBVIOUS
<1>10. invocations' = [invocations EXCEPT ![n] = new]
  BY <1>1, <1>8, <1>9
<1>11. /\ DOMAIN new = DOMAIN inv /\ new.state = "replied"
       /\ new.params = p /\ new.reply = r
       /\ new.function = inv.function /\ new.body = inv.body
       /\ new.result = inv.result
  BY <1>4, <1>9
<1>12. Coherent(new, n)
  BY <1>3, <1>4, <1>7, <1>11 DEF Coherent
<1> QED
  BY <1>10, <1>12, OneInvocation DEF server_method_call, CallsInv

(* The reply is taken apart by the format it was made by.                  *)
LEMMA FinishStep ==
    ASSUME CallsInv, NEW c \in Callers, call_finish(c)
    PROVE  CallsInv'
<1>1. PICK n : n = proxies[c].of
  OBVIOUS
<1>2. n \in DOMAIN invocations
  BY <1>1 DEF call_finish, CallsInv
<1>3. PICK inv : inv = invocations[n]
  OBVIOUS
<1>4. Coherent(inv, n) /\ IsSequence(invocations)
  BY <1>2, <1>3 DEF CallsInv
<1>5. PICK f \in CallFunctions : f = inv.function
  BY <1>4 DEF Coherent
<1>6. PICK reply : reply = Tuple(f.ret, <<"handler", n>>)
  OBVIOUS
<1>7. /\ DOMAIN inv = {"state", "function", "body", "params", "reply",
                      "result"}
      /\ inv.state \in {"sent", "handled", "replied", "error"}
      /\ inv.body = Tuple(f.args, <<"caller", n>>)
      /\ inv.state \in {"handled", "replied"} =>
            inv.params = Parameters(inv.body)
      /\ inv.reply = IF inv.state = "replied" THEN reply ELSE <<>>
  BY <1>4, <1>5, <1>6 DEF Coherent
<1>8. TypesOf(reply) = f.ret
  BY <1>6, TablesAgree, TupleTypes DEF Agrees
<1>9. PICK res : res = [ok |-> inv.state = "replied",
                        out |-> IF TypesOf(inv.reply) = f.ret THEN inv.reply
                                ELSE <<>>]
  OBVIOUS
<1>10. res \in {Pending, [ok |-> TRUE, out |-> reply]}
  <2>1. CASE inv.state = "replied"
    BY <1>7, <1>8, <1>9, <2>1
  <2>2. CASE inv.state # "replied"
    <3>1. inv.reply = <<>>
      BY <1>7, <2>2
    <3>2. res = [ok |-> FALSE, out |-> <<>>]
      BY <1>9, <2>2, <3>1
    <3> QED
      BY <3>2 DEF Pending
  <2> QED
    BY <2>1, <2>2
<1>11. invocations' = [invocations EXCEPT ![n]["result"] = res]
  BY <1>1, <1>3, <1>5, <1>9 DEF call_finish, Set
<1>12. PICK new : new = [inv EXCEPT !["result"] = res]
  OBVIOUS
<1>13. invocations' = [invocations EXCEPT ![n] = new]
  BY <1>3, <1>11, <1>12
<1>14. /\ DOMAIN new = DOMAIN inv /\ new.state = inv.state
       /\ new.reply = inv.reply
       /\ new.function = inv.function /\ new.body = inv.body
       /\ new.params = inv.params /\ new.result = res
  BY <1>7, <1>12
<1>15. Coherent(new, n)
  BY <1>5, <1>6, <1>7, <1>10, <1>14 DEF Coherent
<1>16. SetPhase(c, "ready") /\ UNCHANGED <<emitted, routed, heard>>
  BY DEF call_finish
<1> QED
  BY <1>2, <1>13, <1>15, <1>16, OneInvocation, PhaseTypes

(* A signal is routed to the proxies that subscribed to it.                *)
LEMMA SignalStep ==
    ASSUME CallsInv, on_signal_properties_changed PROVE CallsInv'
<1>1. PICK k : k = emitted'
  OBVIOUS
<1>2. k \in 1 .. MaxSignals
  <2>1. emitted \in 0 .. MaxSignals
    BY Zenon DEF CallsInv
  <2>2. emitted < MaxSignals /\ k = emitted + 1
    BY <1>1, Zenon DEF on_signal_properties_changed
  <2> QED
    BY <2>1, <2>2, CallsAssumption
<1>3. PICK t : t = Tuple(<<"s", "a{sv}", "as">>, <<"signal", k>>)
  OBVIOUS
<1>4. t \in PropertiesSignal
  BY <1>2, <1>3 DEF PropertiesSignal
<1>5. routed' = [c \in Callers |->
                    IF proxies[c].phase \notin {"none", "new"}
                       /\ proxies[c].iface = "Properties"
                    THEN Append(routed[c], t) ELSE routed[c]]
  BY <1>1, <1>3 DEF on_signal_properties_changed
<1>6. routed' \in [Callers -> Seq(PropertiesSignal)]
  <2>1. \A c \in Callers : routed[c] \in Seq(PropertiesSignal)
    BY DEF CallsInv
  <2>2. \A c \in Callers : Append(routed[c], t) \in Seq(PropertiesSignal)
    BY <1>4, <2>1, AppendProperties
  <2> QED
    BY <1>5, <2>1, <2>2
<1>7. emitted' \in 0 .. MaxSignals
  BY <1>1, <1>2
<1> QED
  BY <1>6, <1>7 DEF CallsInv, on_signal_properties_changed

(* A proxy takes the next signal apart.                                    *)
LEMMA HearStep ==
    ASSUME CallsInv, NEW c \in Callers, proxy_g_signal(c) PROVE CallsInv'
<1>1. routed[c] \in Seq(PropertiesSignal) /\ routed[c] # <<>>
  BY DEF CallsInv, proxy_g_signal
<1>2. /\ Head(routed[c]) \in PropertiesSignal
      /\ Tail(routed[c]) \in Seq(PropertiesSignal)
  BY <1>1, HeadTailProperties
<1>3. PICK h, t : h = Head(routed[c]) /\ t = Tail(routed[c])
  OBVIOUS
<1>4. /\ heard' = [heard EXCEPT ![c] = Parameters(h)]
      /\ routed' = [routed EXCEPT ![c] = t]
  BY <1>3 DEF proxy_g_signal
<1>5. routed' \in [Callers -> Seq(PropertiesSignal)]
  BY <1>2, <1>3, <1>4 DEF CallsInv
<1>6. heard' \in [Callers -> {<<>>}
                             \cup {Parameters(u) : u \in PropertiesSignal}]
  BY <1>2, <1>3, <1>4 DEF CallsInv
<1> QED
  BY <1>5, <1>6 DEF CallsInv, proxy_g_signal

(* Only the steps of BusCalls change what belongs to it.                   *)
LEMMA StepsOfCalls ==
    ASSUME [Next]_vars PROVE CallsNext \/ UNCHANGED callsVars
<1>1. ASSUME ServerNext PROVE UNCHANGED callsVars
  BY <1>1 DEF ServerNext, process_options, main, on_bus_acquired,
     on_name_acquired, on_name_lost, handle_SIGINT, worker_destroyed,
     process_dies, bus_drops_name, on_method_call, no_such_object,
     send_reply, serviceVars
<1>2. ASSUME Service PROVE UNCHANGED callsVars
  BY <1>2 DEF Service, serviceVars
<1>3. ASSUME NEW x \in Calls,
             skeleton_handle_method_call(x) \/ complete_register(x)
      PROVE  UNCHANGED callsVars
  BY <1>3 DEF skeleton_handle_method_call, complete_register, serviceVars
<1>4. ASSUME NEW c \in Clients,
             \/ \E obj \in {"obj", Null} : mux_get_socket_path(c, obj)
             \/ ClientSteps(c) \/ Deliver(c)
      PROVE  UNCHANGED callsVars
  BY <1>4 DEF mux_get_socket_path, ClientSteps, proxy_new_for_bus_sync,
     call_register_sync, register_returns, register_timeout, Deliver,
     serviceVars
<1>5. CASE UNCHANGED vars
  BY <1>5 DEF vars, serviceVars
<1>6. CASE InterfaceCalls
  BY <1>6 DEF InterfaceCalls
<1> QED
  BY <1>1, <1>2, <1>3, <1>4, <1>5, <1>6 DEF Next

(* CallsInv is inductive: one step per operation.                          *)
LEMMA CallsAlways == Spec => []CallsInv
<1>1. Init => CallsInv
  <2> SUFFICES ASSUME CallsInit PROVE CallsInv
    BY DEF Init
  <2>1. /\ proxies = [c \in Callers |-> NoProxy] /\ invocations = <<>>
        /\ emitted = 0 /\ routed = [c \in Callers |-> <<>>]
        /\ heard = [c \in Callers |-> <<>>]
    BY DEF CallsInit
  <2>2. <<>> \in Seq({}) /\ <<>> \in Seq(PropertiesSignal)
    BY EmptySeq
  <2>3. IsSequence(invocations) /\ DOMAIN invocations = {}
    <3>1. invocations \in Seq({})
      BY <2>1, <2>2, Zenon
    <3>2. IsSequence(invocations)
      BY <3>1, SequenceIs, Zenon
    <3>3. DOMAIN invocations = {}
      BY <2>1
    <3> QED
      BY <3>2, <3>3
  <2>4. /\ proxies \in [Callers -> [phase : {"none", "new", "ready",
                                             "waiting"},
                                    iface : Interfaces \cup {"none"},
                                    of : Nat]]
        /\ \A c \in Callers : proxies[c].phase = "none"
    BY <2>1 DEF NoProxy
  <2>5. emitted \in 0 .. MaxSignals
    BY <2>1, CallsAssumption
  <2> QED
    BY <2>1, <2>2, <2>3, <2>4, <2>5 DEF CallsInv
<1>2. CallsInv /\ [Next]_vars => CallsInv'
  <2> SUFFICES ASSUME CallsInv, [Next]_vars PROVE CallsInv'
    OBVIOUS
  <2>1. ASSUME CallsNext PROVE CallsInv'
    <3>1. ASSUME NEW c \in Callers, NEW i \in Interfaces,
                 proxy_new(c, i) \/ proxy_new_sync(c, i)
          PROVE  CallsInv'
      BY <3>1, ProxyTypes DEF proxy_new, proxy_new_sync
    <3>2. ASSUME NEW c \in Callers, NEW f \in CallFunctions, proxy_call(c, f)
          PROVE  CallsInv'
      BY <3>2, CallStep
    <3>3. ASSUME NEW c \in Callers, proxy_new_finish(c) PROVE CallsInv'
      <4>1. CASE SetPhase(c, "ready")
        BY <3>3, <4>1, PhaseTypes, OneProxy DEF proxy_new_finish
      <4>2. CASE proxies' = [proxies EXCEPT ![c] = NoProxy]
        BY <3>3, <4>2, ProxyTypes DEF proxy_new_finish, NoProxy
      <4> QED
        BY <3>3, <4>1, <4>2 DEF proxy_new_finish
    <3>4. ASSUME NEW c \in Callers, call_finish(c) PROVE CallsInv'
      BY <3>4, FinishStep
    <3>5. ASSUME NEW c \in Callers, call_timeout(c) PROVE CallsInv'
      BY <3>5, PhaseTypes, OneProxy DEF call_timeout
    <3>6. ASSUME NEW c \in Callers, proxy_g_signal(c) PROVE CallsInv'
      BY <3>6, HearStep
    <3>7. ASSUME NEW n \in DOMAIN invocations,
                 \/ handle_method_call(n) \/ complete(n)
                 \/ server_method_call(n)
          PROVE  CallsInv'
      BY <3>7, HandleStep, CompleteStep, ServerStep
    <3>8. CASE on_signal_properties_changed
      BY <3>8, SignalStep
    <3> QED
      BY <2>1, <3>1, <3>2, <3>3, <3>4, <3>5, <3>6, <3>7, <3>8
      DEF CallsNext, CallerSteps
  <2>2. CASE UNCHANGED callsVars
    BY <2>2 DEF callsVars, CallsInv
  <2> QED
    BY <2>1, <2>2, StepsOfCalls
<1> QED
  BY <1>1, <1>2, PTL DEF Spec

(* For any number of callers and calls, served by main.cpp or through the  *)
(* generated skeleton: no call or reply is refused for its types, a        *)
(* handler and the server get the arguments in their places, each of the   *)
(* declared type, and a caller that is told of success has every result    *)
(* that the interface declares.                                            *)
THEOREM CallsAndRepliesMatch == Spec => []CallsMatch
<1>1. CallsInv => CallsMatch
  <2> SUFFICES ASSUME CallsInv PROVE CallsMatch
    OBVIOUS
  <2>1. ASSUME NEW n \in DOMAIN invocations, NEW inv, inv = invocations[n],
               NEW f, f = inv.function
        PROVE  /\ inv.state # "refused"
               /\ inv.state \in {"handled", "replied"} =>
                     /\ Declared(inv.params, DefaultInit[f.iface][f.name])
                     /\ \A k \in DOMAIN f.args :
                           inv.params[k].val = <<<<"caller", n>>, k>>
               /\ TypesOf(inv.result.out) =
                     IF inv.result.ok
                     THEN InterfaceInfo[f.iface][f.name].out ELSE <<>>
    <3>1. Coherent(inv, n)
      BY <2>1 DEF CallsInv
    <3>2. f \in CallFunctions /\ inv.state # "refused"
      BY <2>1, <3>1 DEF Coherent
    <3>3. Agrees(f)
      BY <3>2, TablesAgree
    <3>4. ASSUME inv.state \in {"handled", "replied"}
          PROVE  /\ Declared(inv.params, DefaultInit[f.iface][f.name])
                 /\ \A k \in DOMAIN f.args :
                       inv.params[k].val = <<<<"caller", n>>, k>>
      <4>1. PICK p : p = inv.params
        OBVIOUS
      <4>2. p = Parameters(Tuple(f.args, <<"caller", n>>))
        BY <2>1, <3>1, <3>4, <4>1 DEF Coherent
      <4>3. f.args \in Seq(BusTypes)
        BY <3>3 DEF Agrees
      <4>4. /\ DOMAIN p = DOMAIN f.args
            /\ \A k \in DOMAIN f.args : p[k].type = GValueType(f.args[k])
            /\ \A k \in DOMAIN f.args : p[k].val = <<<<"caller", n>>, k>>
        BY <4>2, <4>3, TupleParameters
      <4> QED
        BY <3>3, <4>1, <4>4 DEF Agrees, Declared
    <3>5. TypesOf(inv.result.out) =
             IF inv.result.ok
             THEN InterfaceInfo[f.iface][f.name].out ELSE <<>>
      <4>1. PICK reply : reply = Tuple(f.ret, <<"handler", n>>)
        OBVIOUS
      <4>2. inv.result \in {[ok |-> FALSE, out |-> <<>>],
                            [ok |-> TRUE, out |-> reply]}
        BY <2>1, <3>1, <4>1 DEF Coherent, Pending
      <4>3. TypesOf(reply) = InterfaceInfo[f.iface][f.name].out
        BY <3>3, <4>1, TupleTypes DEF Agrees
      <4>4. CASE inv.result = [ok |-> FALSE, out |-> <<>>]
        <5>1. ~inv.result.ok /\ inv.result.out = <<>>
          BY <4>4
        <5>2. TypesOf(<<>>) = <<>>
          BY DEF TypesOf
        <5> QED
          BY <5>1, <5>2
      <4>5. CASE inv.result = [ok |-> TRUE, out |-> reply]
        <5>1. inv.result.ok /\ inv.result.out = reply
          BY <4>5
        <5> QED
          BY <4>3, <5>1
      <4> QED
        BY <4>2, <4>4, <4>5
    <3> QED
      BY <3>2, <3>4, <3>5
  <2>2. ASSUME NEW c \in Callers, heard[c] # <<>>
        PROVE  Declared(heard[c],
                        properties_default_init["PropertiesChanged"])
    <3>1. PICK types : types = <<"s", "a{sv}", "as">>
      OBVIOUS
    <3>2. PICK who : heard[c] = Parameters(Tuple(types, who))
      <4>1. PICK u \in PropertiesSignal : heard[c] = Parameters(u)
        <5>1. heard[c] \in {<<>>} \cup {Parameters(u) : u \in PropertiesSignal}
          BY <2>2 DEF CallsInv
        <5> QED
          BY <2>2, <5>1
      <4>2. PICK k \in 1 .. MaxSignals : u = Tuple(types, <<"signal", k>>)
        BY <3>1 DEF PropertiesSignal
      <4> QED
        BY <4>1, <4>2, Zenon
    <3>3. types \in Seq(BusTypes) /\ DOMAIN types = 1 .. 3
          /\ types[1] = "s" /\ types[2] = "a{sv}" /\ types[3] = "as"
      <4>2. <<"s", "a{sv}", "as">> \in Seq(BusTypes)
        BY DEF BusTypes
      <4>3. DOMAIN <<"s", "a{sv}", "as">> = 1 .. 3
        OBVIOUS
      <4> QED
        BY <3>1, <4>2, <4>3
    <3>a. PICK p : p = heard[c]
      OBVIOUS
    <3>b. p = Parameters(Tuple(types, who))
      BY <3>2, <3>a, Zenon
    <3>4. /\ DOMAIN p = DOMAIN types
          /\ \A j \in DOMAIN types : p[j].type = GValueType(types[j])
      BY <3>b, <3>3, TupleParameters
    <3>5. /\ GValueType("s") = "STRING" /\ GValueType("a{sv}") = "VARIANT"
          /\ GValueType("as") = "STRV"
      BY DEF GValueType
    <3>6. PICK d : d = <<"STRING", "VARIANT", "STRV">>
      OBVIOUS
    <3>7. properties_default_init["PropertiesChanged"] = d
      BY <3>6 DEF properties_default_init
    <3>8. /\ DOMAIN d = 1 .. 3
          /\ d[1] = "STRING" /\ d[2] = "VARIANT" /\ d[3] = "STRV"
      BY <3>6
    <3>9. \A j \in 1 .. 3 : p[j].type = d[j]
      <4>1. \A j \in 1 .. 3 : j = 1 \/ j = 2 \/ j = 3
        OBVIOUS
      <4> QED
        BY <3>3, <3>4, <3>5, <3>8, <4>1
    <3> QED
      BY <3>a, <3>3, <3>4, <3>7, <3>8, <3>9 DEF Declared
  <2> QED
    BY <2>1, <2>2 DEF CallsMatch
<1> QED
  BY <1>1, CallsAlways, PTL
-----------------------------------------------------------------------------
(* Serial numbers.                                                         *)

(* There is no call beyond the bound, and a proxy only knows of calls that *)
(* were made.                                                              *)
CallsCounted ==
    /\ Len(invocations) <= MaxCalls
    /\ \A c \in Callers : proxies[c].of \in 0 .. Len(invocations)

(* Sequences with the same positions have the same length.                 *)
LEMMA SameLength ==
    ASSUME NEW m \in Nat, NEW n \in Nat, 1 .. m = 1 .. n PROVE m = n
<1>1. ~(m < n)
  <2> SUFFICES ASSUME m < n PROVE FALSE
    OBVIOUS
  <2>1. n \in 1 .. n /\ n \notin 1 .. m
    OBVIOUS
  <2> QED
    BY <2>1
<1>2. ~(n < m)
  <2> SUFFICES ASSUME n < m PROVE FALSE
    OBVIOUS
  <2>1. m \in 1 .. m /\ m \notin 1 .. n
    OBVIOUS
  <2> QED
    BY <2>1
<1> QED
  BY <1>1, <1>2

(* No step but a call adds an invocation.                                  *)
LEMMA CountStep ==
    ASSUME CallsInv, CallsInv', CallsCounted, CallsNext
    PROVE  CallsCounted'
<1>1. /\ Len(invocations) \in Nat /\ DOMAIN invocations = 1 .. Len(invocations)
      /\ proxies \in [Callers -> [phase : {"none", "new", "ready", "waiting"},
                                  iface : Interfaces \cup {"none"}, of : Nat]]
  BY IsSequenceFacts DEF CallsInv
<1>2. IsSequence(invocations')
  BY DEF CallsInv
<1>3. PICK t : t = invocations'
  OBVIOUS
<1>4. Len(t) \in Nat /\ DOMAIN t = 1 .. Len(t)
  BY <1>2, <1>3, IsSequenceFacts
<1>5. ASSUME DOMAIN invocations' = DOMAIN invocations,
             \A c \in Callers : proxies'[c].of \in {0, proxies[c].of}
      PROVE  CallsCounted'
  <2>1. 1 .. Len(t) = 1 .. Len(invocations)
    BY <1>1, <1>3, <1>4, <1>5
  <2>2. Len(t) = Len(invocations)
    BY <1>1, <1>4, <2>1, SameLength
  <2>3. Len(invocations') = Len(invocations)
    BY <1>3, <2>2
  <2> QED
    BY <1>1, <1>5, <2>3 DEF CallsCounted
<1>6. ASSUME NEW c \in Callers, NEW i \in Interfaces,
             proxy_new(c, i) \/ proxy_new_sync(c, i)
      PROVE  CallsCounted'
  <2>1. UNCHANGED invocations
    BY <1>6 DEF proxy_new, proxy_new_sync
  <2>2. \A d \in Callers : proxies'[d].of \in {0, proxies[d].of}
    BY <1>1, <1>6 DEF proxy_new, proxy_new_sync
  <2> QED
    BY <1>5, <2>1, <2>2
<1>7. ASSUME NEW c \in Callers, NEW f \in CallFunctions, proxy_call(c, f)
      PROVE  CallsCounted'
  <2>1. PICK n : n = Len(invocations) + 1
    OBVIOUS
  <2>2. PICK inv : invocations' = Append(invocations, inv)
    BY <1>7 DEF proxy_call
  <2>3. /\ n <= MaxCalls
        /\ proxies' = [proxies EXCEPT ![c].phase = "waiting", ![c].of = n]
    BY <1>7, <2>1 DEF proxy_call
  <2>4. IsSequence(invocations) /\ t = Append(invocations, inv)
    BY <1>3, <2>2, Zenon DEF CallsInv
  <2>5. Len(t) = Len(invocations) + 1
    BY <2>4, IsSequenceAppend, Zenon
  <2>6. Len(invocations') = n
    BY <1>3, <2>1, <2>5
  <2>7. \A d \in Callers : proxies'[d].of \in {n, proxies[d].of}
    BY <1>1, <2>3
  <2>8. \A d \in Callers : proxies'[d].of \in 0 .. n
    BY <1>1, <2>1, <2>7 DEF CallsCounted
  <2> QED
    BY <2>3, <2>6, <2>8 DEF CallsCounted
<1>8. ASSUME NEW c \in Callers, NEW p \in {"ready"}, SetPhase(c, p)
      PROVE  \A d \in Callers : proxies'[d].of \in {0, proxies[d].of}
  BY <1>1, <1>8 DEF SetPhase
<1>9. ASSUME NEW c \in Callers, CallerSteps(c) PROVE CallsCounted'
  <2>1. DOMAIN invocations' = DOMAIN invocations
    BY <1>9 DEF CallerSteps, proxy_new_finish, call_finish, call_timeout, Set
  <2>2. SetPhase(c, "ready") \/ proxies' = [proxies EXCEPT ![c] = NoProxy]
    BY <1>9 DEF CallerSteps, proxy_new_finish, call_finish, call_timeout
  <2>3. \A d \in Callers : proxies'[d].of \in {0, proxies[d].of}
    BY <1>1, <1>8, <2>2 DEF NoProxy
  <2> QED
    BY <1>5, <2>1, <2>3
<1>10. ASSUME UNCHANGED proxies, DOMAIN invocations' = DOMAIN invocations
       PROVE  CallsCounted'
  BY <1>5, <1>10
<1>11. ASSUME NEW c \in Callers, proxy_g_signal(c) PROVE CallsCounted'
  BY <1>10, <1>11 DEF proxy_g_signal
<1>12. CASE on_signal_properties_changed
  BY <1>10, <1>12 DEF on_signal_properties_changed
<1>13. ASSUME NEW n \in DOMAIN invocations,
              \/ handle_method_call(n) \/ complete(n)
              \/ server_method_call(n)
       PROVE  CallsCounted'
  <2>1. DOMAIN invocations' = DOMAIN invocations
    BY <1>13 DEF handle_method_call, complete, server_method_call, Set
  <2> QED
    BY <1>10, <1>13, <2>1
    DEF handle_method_call, complete, server_method_call
<1> QED
  BY <1>6, <1>7, <1>9, <1>11, <1>12, <1>13 DEF CallsNext

(* The types of the calls.                                                 *)
LEMMA CallsTyped == Spec => []CallsTypeOK
<1>1. Init => CallsCounted
  <2> SUFFICES ASSUME CallsInit PROVE CallsCounted
    BY DEF Init
  <2>1. Len(invocations) = 0 /\ \A c \in Callers : proxies[c].of = 0
    BY EmptySeq DEF CallsInit, NoProxy
  <2> QED
    BY <2>1, CallsAssumption DEF CallsCounted
<1>2. CallsInv /\ CallsInv' /\ CallsCounted /\ [Next]_vars => CallsCounted'
  <2> SUFFICES ASSUME CallsInv, CallsInv', CallsCounted, [Next]_vars
               PROVE  CallsCounted'
    OBVIOUS
  <2>1. CASE UNCHANGED callsVars
    BY <2>1 DEF callsVars, CallsCounted
  <2> QED
    BY <2>1, StepsOfCalls, CountStep
<1>3. CallsInv /\ CallsCounted => CallsTypeOK
  <2> SUFFICES ASSUME CallsInv, CallsCounted PROVE CallsTypeOK
    OBVIOUS
  <2>1. ASSUME NEW n \in DOMAIN invocations
        PROVE  invocations[n].state \in {"sent", "handled"} \cup Answered
    BY DEF CallsInv, Coherent, Answered
  <2> QED
    BY <2>1 DEF CallsInv, CallsCounted, CallsTypeOK
<1> QED
  BY <1>1, <1>2, <1>3, CallsAlways, PTL DEF Spec
=============================================================================

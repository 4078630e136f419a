----------------------------- MODULE BusBinding -----------------------------
(***************************************************************************)
(* The generated D-Bus binding of interface org.RDPMux.RDPMux              *)
(* (lib/src/lib/connector.c): the skeleton that publishes the property     *)
(* SupportedProtocolVersions and announces its changes, and the proxies    *)
(* that keep a copy of it.                                                 *)
(*                                                                         *)
(* Any thread of the service may set the property or flush the skeleton.   *)
(* Each critical section of the skeleton's mutex is one step; between two  *)
(* of them other threads run.  A change is recorded with the value from    *)
(* before it, and an idle source of the main loop announces the value the  *)
(* property has by then, or nothing if it is back at the recorded value.   *)
(*                                                                         *)
(* GObject's notify queue, GLib's main loop and the bus are external: they *)
(* are modelled from how the generated code uses them.                     *)
(***************************************************************************)
EXTENDS Integers, Sequences, FiniteSets

CONSTANTS
    Clients,        \* hypervisors, each with a proxy
    Threads,        \* threads of a service that sets the property
    Lists,          \* values of the property: sequences of versions
    MaxChanges,     \* bound on the calls that set the property or flush
    Null            \* NULL

ASSUME BindingAssumption ==
    /\ MaxChanges \in Nat
    /\ IsFiniteSet(Threads)
    /\ \A l \in Lists : l \in Seq(Nat)
    /\ "mainloop" \notin Threads
    /\ Null \notin Lists

VARIABLES
    connection,             \* the skeleton is exported on a connection
    properties,             \* the skeleton's value of the property, or Null
    changed_properties,     \* the recorded old value: a list of at most one
    idle_source,            \* changed_properties_idle_source, 0 for NULL
    sources,                \* idle sources attached to the main loop
    notify_queued,          \* GObject holds a notification while frozen
    tpc,                    \* position of each thread of the service
    changes,                \* calls made so far
    subscribed,             \* proxies whose signals the bus routes
    signals,                \* PropertiesChanged on the way to each proxy
    cache,                  \* the value a proxy has cached, or Null
    follows                 \* proxies loaded while no change was pending

skeletonVars == <<connection, properties, changed_properties, idle_source,
                  sources, notify_queued, tpc, changes>>
proxyVars == <<subscribed, signals, cache, follows>>
bindingVars == <<skeletonVars, proxyVars>>

Runners == Threads \cup {"mainloop"}

(* skeleton_init leaves the value of type variant at NULL.                 *)
skeleton_init ==
    /\ connection = FALSE
    /\ properties = Null
    /\ changed_properties = {}
    /\ idle_source = 0 /\ sources = {}
    /\ notify_queued = FALSE
    /\ tpc = [t \in Runners |-> "idle"]
    /\ changes = 0

proxy_init ==
    /\ subscribed = {}
    /\ signals = [c \in Clients |-> <<>>]
    /\ cache = [c \in Clients |-> Null]
    /\ follows = {}

(* g_dbus_gvalue_to_gvariant makes an empty array of a NULL variant.       *)
ToVariant(v) == IF v = Null THEN <<>> ELSE v

(* _g_variant_equal0: NULL equals NULL only.                               *)
_g_value_equal(a, b) == a = b
-----------------------------------------------------------------------------
(* The skeleton.                                                           *)

(* g_dbus_interface_skeleton_export, called by the service.                *)
skeleton_export ==
    /\ ~connection
    /\ connection' = TRUE
    /\ UNCHANGED <<properties, changed_properties, idle_source, sources,
                   notify_queued, tpc, changes, proxyVars>>

(* Mutant: the list is not searched for a change recorded before.          *)
schedule_emit_changed_again(list, orig_value) == list \cup {orig_value}

(* Only the first change since the last announcement is recorded.          *)
schedule_emit_changed(list, orig_value) ==
    IF list = {} THEN {orig_value} ELSE list

(* Mutant: the new value is stored before the old one is recorded.         *)
skeleton_set_property_stored(t, v) ==
    /\ tpc[t] = "idle" /\ changes < MaxChanges
    /\ changes' = changes + 1
    /\ tpc' = [tpc EXCEPT ![t] = "thaw"]
    /\ IF _g_value_equal(v, properties)
       THEN UNCHANGED <<properties, changed_properties, notify_queued>>
       ELSE /\ changed_properties' =
                   IF connection
                   THEN schedule_emit_changed(changed_properties, v)
                   ELSE changed_properties
            /\ properties' = v
            /\ notify_queued' = TRUE
    /\ UNCHANGED <<connection, idle_source, sources, proxyVars>>

(* The critical section of set_property.  Notifications are frozen from    *)
(* here to the thaw that follows the unlock.                               *)
skeleton_set_property(t, v) ==
    /\ tpc[t] = "idle" /\ changes < MaxChanges
    /\ changes' = changes + 1
    /\ tpc' = [tpc EXCEPT ![t] = "thaw"]
    /\ IF _g_value_equal(v, properties)
       THEN UNCHANGED <<properties, changed_properties, notify_queued>>
       ELSE /\ changed_properties' =
                   IF connection
                   THEN schedule_emit_changed(changed_properties, properties)
                   ELSE changed_properties
            /\ properties' = v
            /\ notify_queued' = TRUE
    /\ UNCHANGED <<connection, idle_source, sources, proxyVars>>

(* g_object_thaw_notify: the thread that thaws last dispatches what any of *)
(* them has queued.                                                        *)
thaw_notify(t) ==
    LET last == \A u \in Runners \ {t} : tpc[u] # "thaw"
        dispatch == last /\ notify_queued
    IN  /\ tpc[t] = "thaw"
        /\ tpc' = [tpc EXCEPT ![t] = IF dispatch THEN "notify" ELSE "idle"]
        /\ notify_queued' = (notify_queued /\ ~dispatch)
        /\ UNCHANGED <<connection, properties, changed_properties,
                       idle_source, sources, changes, proxyVars>>

(* The notify handler attaches an idle source unless one is outstanding.   *)
skeleton_notify(t) ==
    /\ tpc[t] = "notify"
    /\ tpc' = [tpc EXCEPT ![t] = "idle"]
    /\ IF changed_properties # {} /\ idle_source = 0
       THEN LET s == CHOOSE i \in 1 .. MaxChanges : i \notin sources
            IN  idle_source' = s /\ sources' = sources \cup {s}
       ELSE UNCHANGED <<idle_source, sources>>
    /\ UNCHANGED <<connection, properties, changed_properties,
                   notify_queued, changes, proxyVars>>

(* Mutant: flush gives the source up and forgets to announce.              *)
skeleton_flush_silent(t) ==
    /\ tpc[t] = "idle" /\ changes < MaxChanges
    /\ idle_source # 0
    /\ changes' = changes + 1
    /\ sources' = sources \ {idle_source}
    /\ idle_source' = 0
    /\ UNCHANGED <<connection, properties, changed_properties,
                   notify_queued, tpc, proxyVars>>

(* flush takes the outstanding source over and announces by itself, after  *)
(* it has released the mutex.                                              *)
skeleton_flush(t) ==
    /\ tpc[t] = "idle" /\ changes < MaxChanges
    /\ idle_source # 0
    /\ changes' = changes + 1
    /\ sources' = sources \ {idle_source}
    /\ idle_source' = 0
    /\ tpc' = [tpc EXCEPT ![t] = "emit"]
    /\ UNCHANGED <<connection, properties, changed_properties,
                   notify_queued, proxyVars>>

(* The main loop takes an attached source to run its callback.             *)
dispatch_source ==
    /\ tpc["mainloop"] = "idle"
    /\ \E s \in sources : sources' = sources \ {s}
    /\ tpc' = [tpc EXCEPT !["mainloop"] = "emit"]
    /\ UNCHANGED <<connection, properties, changed_properties, idle_source,
                   notify_queued, changes, proxyVars>>

(* The announcement: the current value to every subscriber if it differs   *)
(* from the recorded one.                                                  *)
emit_changed(t) ==
    /\ tpc[t] = "emit"
    /\ tpc' = [tpc EXCEPT ![t] = "idle"]
    /\ IF \E o \in changed_properties : ~_g_value_equal(properties, o)
       THEN signals' = [c \in Clients |->
                           IF c \in subscribed
                           THEN Append(signals[c], ToVariant(properties))
                           ELSE signals[c]]
       ELSE UNCHANGED signals
    /\ changed_properties' = {}
    /\ idle_source' = 0
    /\ UNCHANGED <<connection, properties, sources, notify_queued, changes,
                   subscribed, cache, follows>>

SkeletonSteps ==
    \/ \E t \in Threads :
           \/ thaw_notify(t)
           \/ skeleton_notify(t)
    \/ dispatch_source
    \/ \E t \in Runners : emit_changed(t)

SkeletonNext ==
    \/ skeleton_export
    \/ \E t \in Threads :
           \/ \E v \in Lists : skeleton_set_property(t, v)
           \/ skeleton_flush(t)
    \/ SkeletonSteps
-----------------------------------------------------------------------------
(* Proxies.                                                                *)

(* What the skeleton's handle_get_property answers to GetAll; an object    *)
(* that is not there answers with an error, which the proxy ignores.       *)
handle_get_property == IF connection THEN ToVariant(properties) ELSE Null

(* A new proxy has the bus route signals to it before it asks for the      *)
(* properties; one that was there before is left behind.                   *)
proxy_subscribe(c) ==
    /\ subscribed' = subscribed \cup {c}
    /\ signals' = [signals EXCEPT ![c] = <<>>]
    /\ cache' = [cache EXCEPT ![c] = Null]
    /\ follows' = follows \ {c}
    /\ UNCHANGED skeletonVars

(* The answer to GetAll, v, becomes the proxy's copy.                      *)
proxy_load(c, v) ==
    /\ cache' = [cache EXCEPT ![c] = v]
    /\ follows' = IF connection /\ changed_properties = {}
                  THEN follows \cup {c} ELSE follows
    /\ UNCHANGED <<skeletonVars, subscribed, signals>>

(* The proxy's copy is replaced by the value of the next signal.           *)
proxy_g_properties_changed(c) ==
    /\ signals[c] # <<>>
    /\ cache' = [cache EXCEPT ![c] = Head(signals[c])]
    /\ signals' = [signals EXCEPT ![c] = Tail(@)]
    /\ UNCHANGED <<skeletonVars, subscribed, follows>>

(* The getter of the proxy.                                                *)
proxy_get_supported_protocol_versions(c) == cache[c]
-----------------------------------------------------------------------------
BindingTypeOK ==
    /\ connection \in BOOLEAN /\ notify_queued \in BOOLEAN
    /\ properties \in Lists \cup {Null}
    /\ changed_properties \subseteq Lists \cup {Null}
    /\ Cardinality(changed_properties) <= 1
    /\ idle_source \in 0 .. MaxChanges
    /\ sources \subseteq 1 .. MaxChanges
    /\ tpc \in [Runners -> {"idle", "thaw", "notify", "emit"}]
    /\ changes \in 0 .. MaxChanges
    /\ subscribed \subseteq Clients /\ follows \subseteq subscribed
    /\ \A c \in Clients :
           /\ cache[c] = Null \/ cache[c] \in Seq(Nat)
           /\ \A i \in DOMAIN signals[c] : signals[c][i] \in Lists \cup {<<>>}

(* A recorded change is never forgotten, whatever threads set the property *)
(* and flush at the same time: an idle source is attached for it, or some  *)
(* thread is on its way to attach one or to announce the change itself.    *)
ChangeAnnounced ==
    changed_properties # {} =>
        \/ sources # {}
        \/ notify_queued /\ \E t \in Threads : tpc[t] = "thaw"
        \/ \E t \in Runners : tpc[t] \in {"notify", "emit"}

(* A subscriber that loaded the property while no change was pending has,  *)
(* once the signals on the way to it have arrived, the value the skeleton  *)
(* announced last: the current one unless a change is still recorded.      *)
SubscriberFollows ==
    \A c \in follows :
        LET latest == IF signals[c] = <<>> THEN cache[c]
                      ELSE signals[c][Len(signals[c])]
        IN  latest = ToVariant(IF changed_properties = {} THEN properties
                               ELSE CHOOSE o \in changed_properties : TRUE)
=============================================================================

------------------------------ MODULE BusCalls ------------------------------
(***************************************************************************)
(* Typed method calls and signals through the generated binding            *)
(* (lib/src/lib/connector.c), for all of its interfaces.                   *)
(*                                                                         *)
(* The types of a method are written down in five places: the introspected *)
(* interface, the parameters of the caller's function, the GObject signal  *)
(* of the handler, the function that completes an invocation, and the one  *)
(* that takes the reply apart.  The server, which does not use the         *)
(* generated skeleton, keeps those of Register by hand in three places of  *)
(* its own (main.cpp).  GDBus (external) refuses a call or a reply that    *)
(* does not fit the introspected interface; nothing checks the rest.       *)
(*                                                                         *)
(* Several callers wait for replies at the same time, give up and call     *)
(* again; handlers complete the invocations in any order, later or never.  *)
(***************************************************************************)
EXTENDS BusBinding

CONSTANTS
    Callers,        \* users of proxies
    MaxCalls,       \* bound on the calls made
    MaxSignals      \* bound on the signals emitted

ASSUME CallsAssumption == MaxCalls \in Nat /\ MaxSignals \in Nat

VARIABLES
    proxies,        \* each caller's proxy: phase, interface, call it awaits
    invocations,    \* the calls made: the n-th has serial number n
    emitted,        \* signals emitted so far
    routed,         \* signals on the way to each proxy
    heard           \* parameters of the last GObject signal of each proxy

callsVars == <<proxies, invocations, emitted, routed, heard>>
-----------------------------------------------------------------------------
(* The introspected interfaces.                                            *)

Method(in, out) == [in |-> in, out |-> out]

properties_method_info ==
    [Get |-> Method(<<"s", "s">>, <<"v">>),
     GetAll |-> Method(<<"s">>, <<"a{sv}">>),
     Set |-> Method(<<"s", "s", "v">>, <<>>)]
properties_signal_info ==
    [PropertiesChanged |-> <<"s", "a{sv}", "as">>]
introspectable_interface_info == [Introspect |-> Method(<<>>, <<"s">>)]
peer_interface_info ==
    [Ping |-> Method(<<>>, <<>>), GetMachineId |-> Method(<<>>, <<"s">>)]
rdpmux_interface_info ==
    [Register |-> Method(<<"i", "i", "s", "q", "s">>, <<"s">>)]

InterfaceInfo ==
    [Properties |-> properties_method_info,
     Introspectable |-> introspectable_interface_info,
     Peer |-> peer_interface_info,
     RDPMux |-> rdpmux_interface_info]

Interfaces == DOMAIN InterfaceInfo

(* The parameters of the GObject signals, after the invocation.            *)
properties_default_init ==
    [Get |-> <<"STRING", "STRING">>, GetAll |-> <<"STRING">>,
     Set |-> <<"STRING", "STRING", "VARIANT">>,
     PropertiesChanged |-> <<"STRING", "VARIANT", "STRV">>]
introspectable_default_init == [Introspect |-> <<>>]
peer_default_init == [Ping |-> <<>>, GetMachineId |-> <<>>]
rdpmux_default_init ==
    [Register |-> <<"INT", "INT", "STRING", "UINT", "STRING">>]

DefaultInit ==
    [Properties |-> properties_default_init,
     Introspectable |-> introspectable_default_init,
     Peer |-> peer_default_init,
     RDPMux |-> rdpmux_default_init]

(* The call_* functions with their _sync and _finish forms: the method,    *)
(* the format of the parameters, and the format of the reply.              *)
Function(i, name, args, ret) ==
    [iface |-> i, name |-> name, args |-> args, ret |-> ret]

call_get == Function("Properties", "Get", <<"s", "s">>, <<"v">>)
call_get_all == Function("Properties", "GetAll", <<"s">>, <<"a{sv}">>)

call_set == Function("Properties", "Set", <<"s", "s", "v">>, <<>>)
call_introspect == Function("Introspectable", "Introspect", <<>>, <<"s">>)
call_ping == Function("Peer", "Ping", <<>>, <<>>)
call_get_machine_id == Function("Peer", "GetMachineId", <<>>, <<"s">>)
call_register ==
    Function("RDPMux", "Register", <<"i", "i", "s", "q", "s">>, <<"s">>)

CallFunctions ==
    {call_get, call_get_all, call_set, call_introspect, call_ping,
     call_get_machine_id, call_register}

(* What the complete_* functions return.                                   *)
properties_complete ==
    [Get |-> <<"v">>, GetAll |-> <<"a{sv}">>, Set |-> <<>>]
introspectable_complete == [Introspect |-> <<"s">>]
peer_complete == [Ping |-> <<>>, GetMachineId |-> <<"s">>]
rdpmux_complete == [Register |-> <<"s">>]

Complete ==
    [Properties |-> properties_complete,
     Introspectable |-> introspectable_complete,
     Peer |-> peer_complete,
     RDPMux |-> rdpmux_complete]

(* Mutant: the server declares the port as an int.                         *)
introspection_xml_wide ==
    [Register |-> Method(<<"i", "i", "s", "i", "s">>, <<"s">>)]

(* What the server declares, extracts and returns, by hand.                *)
introspection_xml ==
    [Register |-> Method(<<"i", "i", "s", "q", "s">>, <<"s">>)]
server_variants == [Register |-> <<"i", "i", "s", "q", "s">>]
server_result == [Register |-> <<"s">>]
-----------------------------------------------------------------------------
(* A tuple of values, each known by who made it and its place.             *)
Tuple(types, who) ==
    [k \in DOMAIN types |-> [type |-> types[k], val |-> <<who, k>>]]

TypesOf(tuple) == [k \in DOMAIN tuple |-> tuple[k].type]

(* g_dbus_gvariant_to_gvalue.                                              *)
GValueType(t) ==
    CASE t = "s" -> "STRING" [] t = "i" -> "INT" [] t = "q" -> "UINT"
      [] t = "as" -> "STRV" [] OTHER -> "VARIANT"

(* The parameters of a GObject signal, from the children of a tuple.       *)
Parameters(tuple) ==
    [k \in DOMAIN tuple |-> [type |-> GValueType(tuple[k].type),
                             val |-> tuple[k].val]]

NoProxy == [phase |-> "none", iface |-> "none", of |-> 0]
Pending == [ok |-> FALSE, out |-> <<>>]

CallsInit ==
    /\ proxies = [c \in Callers |-> NoProxy]
    /\ invocations = <<>>
    /\ emitted = 0
    /\ routed = [c \in Callers |-> <<>>]
    /\ heard = [c \in Callers |-> <<>>]
-----------------------------------------------------------------------------
(* Proxies.                                                                *)

SetPhase(c, p) == proxies' = [proxies EXCEPT ![c].phase = p]

(* proxy_new and proxy_new_for_bus.                                        *)
proxy_new(c, i) ==
    /\ proxies[c].phase = "none"
    /\ proxies' = [proxies EXCEPT
                      ![c] = [phase |-> "new", iface |-> i, of |-> 0]]
    /\ UNCHANGED <<invocations, emitted, routed, heard>>

(* The _finish of both: a proxy, or NULL.                                  *)
proxy_new_finish(c) ==
    /\ proxies[c].phase = "new"
    /\ \/ SetPhase(c, "ready")
       \/ proxies' = [proxies EXCEPT ![c] = NoProxy]
    /\ UNCHANGED <<invocations, emitted, routed, heard>>

(* proxy_new_sync and proxy_new_for_bus_sync, when they return a proxy.    *)
proxy_new_sync(c, i) ==
    /\ proxies[c].phase = "none"
    /\ proxies' = [proxies EXCEPT
                      ![c] = [phase |-> "ready", iface |-> i, of |-> 0]]
    /\ UNCHANGED <<invocations, emitted, routed, heard>>

(* A call_* function sends its parameters; the caller waits in the _sync   *)
(* form or for the callback.                                               *)
proxy_call(c, f) ==
    LET n == Len(invocations) + 1
    IN  /\ proxies[c].phase = "ready" /\ proxies[c].iface = f.iface
        /\ n <= MaxCalls
        /\ proxies' = [proxies EXCEPT ![c].phase = "waiting", ![c].of = n]
        /\ invocations' = Append(invocations,
              [state |-> "sent", function |-> f,
               body |-> Tuple(f.args, <<"caller", n>>),
               params |-> <<>>, reply |-> <<>>, result |-> Pending])
        /\ UNCHANGED <<emitted, routed, heard>>

Set(n, field, v) == invocations' = [invocations EXCEPT ![n][field] = v]

(* handle_method_call hands the parameters to the handlers; if none takes  *)
(* the invocation the reply is an error.                                   *)
handle_method_call(n) ==
    LET inv == invocations[n]
        f == inv.function
    IN  /\ inv.state = "sent"
        /\ IF TypesOf(inv.body) = InterfaceInfo[f.iface][f.name].in
           THEN \E s \in {"handled", "error"} :
                   invocations' = [invocations EXCEPT
                      ![n].state = s, ![n].params = Parameters(inv.body)]
           ELSE Set(n, "state", "refused")
        /\ UNCHANGED <<proxies, emitted, routed, heard>>

(* The handler completes its invocation, or returns an error.              *)
complete(n) ==
    LET inv == invocations[n]
        f == inv.function
        types == Complete[f.iface][f.name]
    IN  /\ inv.state = "handled"
        /\ IF types = InterfaceInfo[f.iface][f.name].out
           THEN \/ invocations' = [invocations EXCEPT
                      ![n].state = "replied",
                      ![n].reply = Tuple(types, <<"handler", n>>)]
                \/ Set(n, "state", "error")
           ELSE Set(n, "state", "refused")
        /\ UNCHANGED <<proxies, emitted, routed, heard>>

(* The server answers Register itself: on_method_call extracts the values  *)
(* by their places and types, and always returns a path.                   *)
server_method_call(n) ==
    LET inv == invocations[n]
        f == inv.function
        info == introspection_xml[f.name]
    IN  /\ inv.state = "sent" /\ f.iface = "RDPMux"
        /\ IF /\ TypesOf(inv.body) = info.in
              /\ server_variants[f.name] = info.in
              /\ server_result[f.name] = info.out
           THEN invocations' = [invocations EXCEPT
                   ![n].state = "replied",
                   ![n].params = Parameters(inv.body),
                   ![n].reply = Tuple(server_result[f.name], <<"handler", n>>)]
           ELSE Set(n, "state", "refused")
        /\ UNCHANGED <<proxies, emitted, routed, heard>>

Answered == {"replied", "error", "refused"}

(* The reply is there: _finish, or the end of _sync, takes it apart by its *)
(* own format.                                                             *)
call_finish(c) ==
    LET n == proxies[c].of
        inv == invocations[n]
        fits == TypesOf(inv.reply) = inv.function.ret
    IN  /\ proxies[c].phase = "waiting" /\ inv.state \in Answered
        /\ Set(n, "result", [ok |-> inv.state = "replied",
                             out |-> IF fits THEN inv.reply ELSE <<>>])
        /\ SetPhase(c, "ready")
        /\ UNCHANGED <<emitted, routed, heard>>

(* The default timeout is over, or the cancellable was cancelled: _finish  *)
(* reports an error, and the reply will be dropped.                        *)
call_timeout(c) ==
    /\ proxies[c].phase = "waiting"
    /\ invocations[proxies[c].of].state \in {"sent", "handled"}
    /\ SetPhase(c, "ready")
    /\ UNCHANGED <<invocations, emitted, routed, heard>>
-----------------------------------------------------------------------------
(* The one signal, PropertiesChanged.                                      *)

(* emit_properties_changed runs on_signal_properties_changed, which sends  *)
(* the tuple on every connection of the skeleton.                          *)
on_signal_properties_changed ==
    LET tuple == Tuple(<<"s", "a{sv}", "as">>, <<"signal", emitted'>>)
    IN  /\ emitted < MaxSignals
        /\ emitted' = emitted + 1
        /\ routed' = [c \in Callers |->
                         IF proxies[c].phase \notin {"none", "new"}
                            /\ proxies[c].iface = "Properties"
                         THEN Append(routed[c], tuple) ELSE routed[c]]
        /\ UNCHANGED <<proxies, invocations, heard>>

(* The proxy emits the GObject signal with the children of the tuple.      *)
proxy_g_signal(c) ==
    /\ routed[c] # <<>>
    /\ heard' = [heard EXCEPT ![c] = Parameters(Head(routed[c]))]
    /\ routed' = [routed EXCEPT ![c] = Tail(@)]
    /\ UNCHANGED <<proxies, invocations, emitted>>

CallerSteps(c) == proxy_new_finish(c) \/ call_finish(c) \/ call_timeout(c)

CallsNext ==
    \/ \E c \in Callers :
           \/ \E i \in Interfaces : proxy_new(c, i) \/ proxy_new_sync(c, i)
           \/ \E f \in CallFunctions : proxy_call(c, f)
           \/ CallerSteps(c)
           \/ proxy_g_signal(c)
    \/ \E n \in DOMAIN invocations :
           handle_method_call(n) \/ complete(n) \/ server_method_call(n)
    \/ on_signal_properties_changed
-----------------------------------------------------------------------------
CallsTypeOK ==
    /\ \A c \in Callers :
           /\ proxies[c].phase \in {"none", "new", "ready", "waiting"}
           /\ proxies[c].iface \in Interfaces \cup {"none"}
           /\ proxies[c].of \in 0 .. Len(invocations)
    /\ Len(invocations) <= MaxCalls /\ emitted \in 0 .. MaxSignals
    /\ \A n \in DOMAIN invocations :
           invocations[n].state \in {"sent", "handled"} \cup Answered

Declared(params, types) ==
    DOMAIN params = DOMAIN types
    /\ \A k \in DOMAIN types : params[k].type = types[k]

(* The library's call of Register fits the interface that the server       *)
(* declares in main.cpp, and every generated call the generated interface: *)
(* neither a call nor a reply is ever refused for its types, however the   *)
(* statements of a method's types are kept.  A handler, and the server,    *)
(* gets every argument in its place, with the GType that the generated     *)
(* signal declares.  A caller that is told of success has a value for each *)
(* result that the interface declares; one that is told of an error has    *)
(* none.  The parameters of the signal arrive likewise.                    *)
CallsMatch ==
    /\ \A n \in DOMAIN invocations :
           LET inv == invocations[n]
               f == inv.function
           IN  /\ inv.state # "refused"
               /\ inv.state \in {"handled", "replied"} =>
                     /\ Declared(inv.params, DefaultInit[f.iface][f.name])
                     /\ \A k \in DOMAIN f.args :
                           inv.params[k].val = <<<<"caller", n>>, k>>
               /\ TypesOf(inv.result.out) =
                     IF inv.result.ok
                     THEN InterfaceInfo[f.iface][f.name].out ELSE <<>>
    /\ \A c \in Callers :
           heard[c] # <<>> =>
               Declared(heard[c], properties_default_init["PropertiesChanged"])
=============================================================================

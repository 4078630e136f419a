--------------------------- MODULE MCRegistration ---------------------------
(* Two server processes of different versions, or a service whose list of  *)
(* versions changes, or two callers of a service with all the interfaces.  *)
EXTENDS Registration

CONSTANTS c1, a1, a2, t1, t2, p1, p2

MCClients == {c1}
MCCallers == {a1, a2}
MCThreads == {t1, t2}
MCProcs == {p1, p2}
MCVersion == [p \in MCProcs |-> IF p = p1 THEN 5 ELSE 6]
MCLists == {<<5>>, <<4, 5>>}
MCStartPorts == {0, 3901}
=============================================================================

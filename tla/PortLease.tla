----------------------------- MODULE PortLease -----------------------------
(***************************************************************************)
(* What registration promises to VMs: a table of leases in which a VM has  *)
(* at most one port, a port belongs to at most one VM, and a lease is only *)
(* ever granted whole or given back whole, never changed.                  *)
(***************************************************************************)
EXTENDS Integers

CONSTANTS VMs, PortNumbers

VARIABLE lease      \* the port of each VM, 0 when it has none

Init == lease = [v \in VMs |-> 0]

Grant(v, p) ==
    /\ lease[v] = 0
    /\ \A w \in VMs : lease[w] # p
    /\ lease' = [lease EXCEPT ![v] = p]

GiveBack(v) ==
    /\ lease[v] # 0
    /\ lease' = [lease EXCEPT ![v] = 0]

Next == \E v \in VMs : (\E p \in PortNumbers : Grant(v, p)) \/ GiveBack(v)

Spec == Init /\ [][Next]_lease
=============================================================================

------------------------- MODULE MCListenerRegistry -------------------------
(* Small instances of ListenerRegistry.                                    *)
EXTENDS ListenerRegistry

TwoPorts == 1 .. 2

ThreePorts == 1 .. 3
=============================================================================

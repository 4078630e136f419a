---------------------------- MODULE MCMuxDisplay ----------------------------
(* Small instances of MuxDisplay: alignment 2 and screens of 2 to 4 pixels *)
(* a side keep every relation between box, alignment and surface edge.     *)
EXTENDS MuxDisplay

Wide == [w |-> 4, h |-> 3, format |-> "x8r8g8b8"]
Low  == [w |-> 3, h |-> 1, format |-> "x8r8g8b8"]
Deep == [w |-> 4, h |-> 3, format |-> "r5g6b5"]

MCSurfaces == {Wide, Low, Deep}
OneSize == {Wide, Deep}
MCRegions == {<<0, 0, 1, 1>>, <<1, 0, 2, 1>>, <<3, 2, 1, 1>>, <<1, 1, 2, 2>>}
FewRegions == {<<0, 0, 1, 1>>, <<3, 2, 1, 1>>}
=============================================================================

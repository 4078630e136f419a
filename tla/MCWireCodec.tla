---------------------------- MODULE MCWireCodec ----------------------------
(***************************************************************************)
(* Requests at the edges of every format of the codec.                     *)
(***************************************************************************)
EXTENDS WireCodec

W(a, b) == ZeroExtend(<<a, b>>)
Edge1 == {Small(n) : n \in {0, 15, 16, 31, 32, 127, 128, 255}}
Edge2 == {W(1, 0), W(127, 255), W(128, 0), W(255, 255)}
Edge4 == {ZeroExtend(<<1, 0, 0>>), ZeroExtend(<<127, 255, 255, 255>>),
          ZeroExtend(<<128, 0, 0, 0>>), ZeroExtend(<<255, 255, 255, 255>>)}
Edge8 == {<<0, 0, 0, 1, 0, 0, 0, 0>>,
          <<127, 255, 255, 255, 255, 255, 255, 255>>}
Top == {<<128, 0, 0, 0, 0, 0, 0, 0>>,
        <<255, 255, 255, 255, 255, 255, 255, 255>>}

(* -1, -32, -33, -128, -129, -2^15, -2^15 - 1, -2^31, -2^31 - 1, -2^63.    *)
NegativeEdges ==
    {SignExtend(<<n>>) : n \in {255, 224, 223, 128}}
    \cup {SignExtend(b) : b \in {<<255, 127>>, <<128, 0>>,
            <<255, 127, 255>>, <<128, 0, 0, 0>>, <<255, 127, 255, 255, 255>>,
            <<128, 0, 0, 0, 0, 0, 0, 0>>}}

Sizes == Edge1 \cup Edge2 \cup Edge4
Filled(n) == [i \in 1 .. n |-> 7]
DataSizes == {0, 1, 2, 3, 4, 8, 16, 17, 31, 32, 255, 256}

Num(o, vs) == {[op |-> o, v |-> v] : v \in vs}

MCObjects ==
    Num("integer", Edge1 \cup Edge2 \cup Edge4 \cup Edge8 \cup NegativeEdges)
    \cup Num("uinteger", Edge1 \cup Edge2 \cup Edge4 \cup Edge8 \cup Top)
    \cup Num("sfix", {Small(n) : n \in {0, 127, 128, 223, 224, 255}})
    \cup Num("nil", {Small(0)}) \cup Num("bool", {Small(0), Small(1), Small(9)})
    \cup UNION {Num(o, Sizes) : o \in {"array", "map", "str_marker",
                                        "str_marker_v4", "bin_marker"}}
    \cup {[op |-> "decimal", v |-> [exact |-> x, float |-> W(192, 63),
             double |-> <<63, 248, 1, 2, 3, 4, 5, 6>>]] : x \in BOOLEAN}
    \cup {[op |-> o, v |-> W(n \div 256, n % 256), data |-> Filled(n)] :
             o \in {"str", "str_v4", "bin"}, n \in DataSizes}
    \cup {[op |-> "ext", x |-> 5, v |-> W(n \div 256, n % 256),
            data |-> Filled(n)] : n \in DataSizes}
    \cup {[op |-> "ext_marker", x |-> 200, v |-> v] : v \in Sizes}

(* Every marker, followed by bytes of each sign.                           *)
Tails == {<<>>, <<1, 2, 3, 4, 5, 6, 7, 8, 9>>,
          <<200, 199, 198, 197, 196, 195, 194, 193, 192>>,
          <<255, 255, 255, 255, 0, 0>>}
MCRawObjects == {<<m>> \o t : m \in Byte, t \in Tails} \cup {<<>>}

Lengths == {0, 127, 128, 256, 65536, -1}
MCUpdates ==
    {<<x, y, x + w, y + h>> : x \in Lengths, y \in {0, 40000},
                              w \in Lengths, h \in {1, 2000000}}
MCSwitches == {<<f, w, h>> : f \in {1, 537022465}, w \in Lengths, h \in Lengths}

MCEvents ==
    {[dev |-> "mouse", x |-> x, y |-> y, flags |-> f] :
        x \in {0, 127, 65535}, y \in {128, 255, 256}, f \in {0, 33024}}
    \cup {[dev |-> "keyboard", code |-> c, flags |-> f] :
        c \in {0, 127, 128, 65535}, f \in {0, 256, 32768}}
=============================================================================

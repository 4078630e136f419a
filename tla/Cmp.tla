-------------------------------- MODULE Cmp --------------------------------
(***************************************************************************)
(* The MessagePack codec that librdpmux is built with,                     *)
(* lib/src/lib/c-msgpack.c, as pure operators.                             *)
(*                                                                         *)
(* A number is a Word: eight bytes, the most significant first, in two's   *)
(* complement, so that every bound of the code up to 2^64 can be tested.   *)
(* A C integer type of k bytes is the last k bytes of a Word.              *)
(*                                                                         *)
(* A writer is the list of its calls of ctx->write, each with the error it *)
(* leaves when that call fails, or a refusal.  A reader is a function of   *)
(* the bytes and the position in them.                                     *)
(***************************************************************************)
EXTENDS Integers, Sequences

CONSTANT BigEndian   \* is_bigendian()

ASSUME EndianAssumption == BigEndian \in BOOLEAN

Byte == 0 .. 255
Word == [1 .. 8 -> Byte]

Low(v, k) == SubSeq(v, 9 - k, 8)

ZeroExtend(b) ==
    [i \in 1 .. 8 |-> IF i <= 8 - Len(b) THEN 0 ELSE b[i - (8 - Len(b))]]

SignExtend(b) ==
    [i \in 1 .. 8 |-> IF i > 8 - Len(b) THEN b[i - (8 - Len(b))]
                      ELSE IF b[1] >= 128 THEN 255 ELSE 0]

Negative(v) == v[1] >= 128

(* v <= 2^(8k) - 1, as unsigned; and v >= -2^(8k - 1), of a negative v.    *)
FitsUnsigned(v, k) == \A i \in 1 .. 8 - k : v[i] = 0
FitsNegative(v, k) == v[9 - k] >= 128 /\ \A i \in 1 .. 8 - k : v[i] = 255

Mirror(b) == [i \in 1 .. Len(b) |-> b[Len(b) + 1 - i]]

(* The bytes of a value in the memory of the host.                         *)
Memory(b) == IF BigEndian THEN b ELSE Mirror(b)

(* Mutant: only the outer bytes of a longer value are swapped.             *)
be_outer(m) ==
    IF BigEndian THEN m
    ELSE [i \in 1 .. Len(m) |-> IF i \in {1, Len(m)} THEN m[Len(m) + 1 - i]
                                ELSE m[i]]

(* be16, be32, be64, befloat and bedouble, on the bytes in memory.         *)
be(m) == IF BigEndian THEN m ELSE Mirror(m)
-----------------------------------------------------------------------------
(* The type markers, the first of the range where the low bits count.      *)
Marker ==
    [POSITIVE_FIXNUM |-> 0,  FIXMAP |-> 128,  FIXARRAY |-> 144,
     FIXSTR |-> 160,  NIL |-> 192,  BOOLEAN |-> 194,  BIN8 |-> 196,
     BIN16 |-> 197,  BIN32 |-> 198,  EXT8 |-> 199,  EXT16 |-> 200,
     EXT32 |-> 201,  FLOAT |-> 202,  DOUBLE |-> 203,  UINT8 |-> 204,
     UINT16 |-> 205,  UINT32 |-> 206,  UINT64 |-> 207,  SINT8 |-> 208,
     SINT16 |-> 209,  SINT32 |-> 210,  SINT64 |-> 211,  FIXEXT1 |-> 212,
     FIXEXT2 |-> 213,  FIXEXT4 |-> 214,  FIXEXT8 |-> 215,  FIXEXT16 |-> 216,
     STR8 |-> 217,  STR16 |-> 218,  STR32 |-> 219,  ARRAY16 |-> 220,
     ARRAY32 |-> 221,  MAP16 |-> 222,  MAP32 |-> 223,
     NEGATIVE_FIXNUM |-> 224]

Types == DOMAIN Marker

(* Largest size that the marker itself holds.                              *)
FixSize == [FIXMAP |-> 15, FIXARRAY |-> 15, FIXSTR |-> 31]

FixExtSize ==
    [FIXEXT1 |-> 1, FIXEXT2 |-> 2, FIXEXT4 |-> 4, FIXEXT8 |-> 8,
     FIXEXT16 |-> 16]

(* Bytes of the number or the size that follows the marker.                *)
Width ==
    [BIN8 |-> 1, BIN16 |-> 2, BIN32 |-> 4, EXT8 |-> 1, EXT16 |-> 2,
     EXT32 |-> 4, FLOAT |-> 4, DOUBLE |-> 8, UINT8 |-> 1, UINT16 |-> 2,
     UINT32 |-> 4, UINT64 |-> 8, SINT8 |-> 1, SINT16 |-> 2, SINT32 |-> 4,
     SINT64 |-> 8, STR8 |-> 1, STR16 |-> 2, STR32 |-> 4, ARRAY16 |-> 2,
     ARRAY32 |-> 4, MAP16 |-> 2, MAP32 |-> 4]

Signed == {"SINT8", "SINT16", "SINT32", "SINT64"}

(* A decoded object: its type, the number or size in it, the type byte of  *)
(* an extension.                                                           *)
Object(t, v, x) == [type |-> t, as |-> v, ext |-> x]
Small(n) == ZeroExtend(<<n>>)
-----------------------------------------------------------------------------
(* Writers.                                                                *)

Call(data, error) == [data |-> data, error |-> error]
Emit(calls) == [calls |-> calls, error |-> "NONE"]
Refuse(error) == [calls |-> <<>>, error |-> error]

Then(w, calls) == IF w.error # "NONE" THEN w ELSE Emit(w.calls \o calls)

write_type_marker(m) == Emit(<<Call(<<m>>, "TYPE_MARKER_WRITING")>>)
write_fixed_value(b) == Emit(<<Call(<<b>>, "FIXED_VALUE_WRITING")>>)

(* The low bytes of v in network order.                                    *)
Payload(v, k) == be(Memory(Low(v, k)))

cmp_write_pfix(c) ==
    IF c <= 127 THEN write_fixed_value(c) ELSE Refuse("INPUT_VALUE_TOO_LARGE")

cmp_write_nfix(c) ==
    IF c >= 256 - 32 THEN write_fixed_value(c)
    ELSE Refuse("INPUT_VALUE_TOO_LARGE")

(* c is the byte of an int8_t.                                             *)
cmp_write_sfix(c) == IF c < 128 THEN cmp_write_pfix(c) ELSE cmp_write_nfix(c)

(* cmp_write_s8 ... s64: a failed write of the number leaves no error.     *)
cmp_write_s(t, v) ==
    Then(write_type_marker(Marker[t]), <<Call(Payload(v, Width[t]), "NONE")>>)

cmp_write_u(t, v) ==
    Then(write_type_marker(Marker[t]), <<Call(Payload(v, Width[t]), "NONE")>>)

cmp_write_uinteger(u) ==
    IF FitsUnsigned(u, 1) /\ u[8] <= 127 THEN cmp_write_pfix(u[8])
    ELSE IF FitsUnsigned(u, 1) THEN cmp_write_u("UINT8", u)
    ELSE IF FitsUnsigned(u, 2) THEN cmp_write_u("UINT16", u)
    ELSE IF FitsUnsigned(u, 4) THEN cmp_write_u("UINT32", u)
    ELSE cmp_write_u("UINT64", u)

(* Mutant: the sign bit of the shorter type is not looked at.              *)
cmp_write_integer_cut(d) ==
    IF ~Negative(d) THEN cmp_write_uinteger(d)
    ELSE IF FitsNegative(d, 1) /\ d[8] >= 256 - 32 THEN cmp_write_nfix(d[8])
    ELSE IF \A i \in 1 .. 7 : d[i] = 255 THEN cmp_write_s("SINT8", d)
    ELSE IF FitsNegative(d, 2) THEN cmp_write_s("SINT16", d)
    ELSE IF FitsNegative(d, 4) THEN cmp_write_s("SINT32", d)
    ELSE cmp_write_s("SINT64", d)

cmp_write_integer(d) ==
    IF ~Negative(d) THEN cmp_write_uinteger(d)
    ELSE IF FitsNegative(d, 1) /\ d[8] >= 256 - 32 THEN cmp_write_nfix(d[8])
    ELSE IF FitsNegative(d, 1) THEN cmp_write_s("SINT8", d)
    ELSE IF FitsNegative(d, 2) THEN cmp_write_s("SINT16", d)
    ELSE IF FitsNegative(d, 4) THEN cmp_write_s("SINT32", d)
    ELSE cmp_write_s("SINT64", d)

cmp_write_real(t, bits) ==
    Then(write_type_marker(Marker[t]),
         <<Call(Payload(bits, Width[t]), "NONE")>>)

(* A decimal carries the bits of the double, those of the float nearest to *)
(* it, and whether the two are equal.                                      *)
cmp_write_decimal(d) ==
    IF d.exact THEN cmp_write_real("FLOAT", d.float)
    ELSE cmp_write_real("DOUBLE", d.double)

cmp_write_nil == write_type_marker(Marker["NIL"])

(* cmp_write_true, cmp_write_false, cmp_write_bool, cmp_write_u8_as_bool.  *)
cmp_write_bool(b) ==
    write_type_marker(Marker["BOOLEAN"] + IF b = 0 THEN 0 ELSE 1)

(* A marker with the size in its low bits, and one followed by the size.   *)
FixMarker(t, size) ==
    IF FitsUnsigned(size, 1) /\ size[8] <= FixSize[t]
    THEN write_fixed_value(Marker[t] + size[8])
    ELSE Refuse("INPUT_VALUE_TOO_LARGE")

SizeMarker(t, size) ==
    Then(write_type_marker(Marker[t]),
         <<Call(Payload(size, Width[t]), "LENGTH_WRITING")>>)

Data(size, data) ==
    IF size = Small(0) THEN <<>> ELSE <<Call(data, "DATA_WRITING")>>

(* cmp_write_fixstr(_marker) ... cmp_write_str32(_marker).                 *)
cmp_write_str_marker_as(t, size) ==
    IF t = "FIXSTR" THEN FixMarker(t, size) ELSE SizeMarker(t, size)

cmp_write_str_as(t, size, data) ==
    Then(cmp_write_str_marker_as(t, size), Data(size, data))

StrType(size) ==
    IF FitsUnsigned(size, 1) /\ size[8] <= 31 THEN "FIXSTR"
    ELSE IF FitsUnsigned(size, 1) THEN "STR8"
    ELSE IF FitsUnsigned(size, 2) THEN "STR16"
    ELSE "STR32"

(* Version 4 of MessagePack has no STR8.                                   *)
StrTypeV4(size) ==
    IF StrType(size) = "STR8" THEN "STR16" ELSE StrType(size)

cmp_write_str(size, data) == cmp_write_str_as(StrType(size), size, data)
cmp_write_str_v4(size, data) == cmp_write_str_as(StrTypeV4(size), size, data)
cmp_write_str_marker(size) == cmp_write_str_marker_as(StrType(size), size)
cmp_write_str_marker_v4(size) == cmp_write_str_marker_as(StrTypeV4(size), size)

(* cmp_write_bin8(_marker) ... cmp_write_bin32(_marker).                   *)
cmp_write_bin_as(t, size, data) == Then(SizeMarker(t, size), Data(size, data))

BinType(size) ==
    IF FitsUnsigned(size, 1) THEN "BIN8"
    ELSE IF FitsUnsigned(size, 2) THEN "BIN16" ELSE "BIN32"

cmp_write_bin(size, data) == cmp_write_bin_as(BinType(size), size, data)
cmp_write_bin_marker(size) == SizeMarker(BinType(size), size)

cmp_write_array(size) ==
    IF FitsUnsigned(size, 1) /\ size[8] <= 15 THEN FixMarker("FIXARRAY", size)
    ELSE SizeMarker(IF FitsUnsigned(size, 2) THEN "ARRAY16" ELSE "ARRAY32", size)

cmp_write_map(size) ==
    IF FitsUnsigned(size, 1) /\ size[8] <= 15 THEN FixMarker("FIXMAP", size)
    ELSE SizeMarker(IF FitsUnsigned(size, 2) THEN "MAP16" ELSE "MAP32", size)

(* cmp_write_fixext1(_marker) ... cmp_write_fixext16(_marker).             *)
cmp_write_fixext_marker(t, tp) ==
    Then(write_type_marker(Marker[t]), <<Call(<<tp>>, "EXT_TYPE_WRITING")>>)

cmp_write_fixext(t, tp, data) ==
    Then(cmp_write_fixext_marker(t, tp), <<Call(data, "DATA_WRITING")>>)

(* cmp_write_ext8_marker ... cmp_write_ext32_marker.                       *)
cmp_write_ext_marker_as(t, tp, size) ==
    Then(SizeMarker(t, size), <<Call(<<tp>>, "EXT_TYPE_WRITING")>>)

(* cmp_write_ext8 ... cmp_write_ext32 write the data even if there is none. *)
cmp_write_ext_as(t, tp, size, data) ==
    Then(cmp_write_ext_marker_as(t, tp, size), <<Call(data, "DATA_WRITING")>>)

ExtType(size) ==
    IF \E t \in DOMAIN FixExtSize : size = Small(FixExtSize[t])
    THEN CHOOSE t \in DOMAIN FixExtSize : size = Small(FixExtSize[t])
    ELSE IF FitsUnsigned(size, 1) THEN "EXT8"
    ELSE IF FitsUnsigned(size, 2) THEN "EXT16" ELSE "EXT32"

cmp_write_ext_marker(tp, size) ==
    IF ExtType(size) \in DOMAIN FixExtSize
    THEN cmp_write_fixext_marker(ExtType(size), tp)
    ELSE cmp_write_ext_marker_as(ExtType(size), tp, size)

cmp_write_ext(tp, size, data) ==
    IF ExtType(size) \in DOMAIN FixExtSize
    THEN cmp_write_fixext(ExtType(size), tp, data)
    ELSE cmp_write_ext_as(ExtType(size), tp, size, data)

(* An object is written in the format that its type names; the data of a   *)
(* string, of binary data or of an extension is not part of it.            *)
cmp_write_object(o) ==
    CASE o.type = "POSITIVE_FIXNUM" -> cmp_write_pfix(o.as[8])
      [] o.type = "NEGATIVE_FIXNUM" -> cmp_write_nfix(o.as[8])
      [] o.type \in DOMAIN FixSize -> FixMarker(o.type, o.as)
      [] o.type = "NIL" -> cmp_write_nil
      [] o.type = "BOOLEAN" -> cmp_write_bool(o.as[8])
      [] o.type \in {"EXT8", "EXT16", "EXT32"} ->
            cmp_write_ext_marker_as(o.type, o.ext, o.as)
      [] o.type \in DOMAIN FixExtSize -> cmp_write_fixext_marker(o.type, o.ext)
      [] o.type \in Signed -> cmp_write_s(o.type, o.as)
      [] o.type \in {"UINT8", "UINT16", "UINT32", "UINT64"} ->
            cmp_write_u(o.type, o.as)
      [] o.type \in {"FLOAT", "DOUBLE"} -> cmp_write_real(o.type, o.as)
      [] o.type \in {"BIN8", "BIN16", "BIN32", "STR8", "STR16", "STR32",
                     "ARRAY16", "ARRAY32", "MAP16", "MAP32"} ->
            SizeMarker(o.type, o.as)
      [] OTHER -> Refuse("INVALID_TYPE")

cmp_write_object_v4(o) ==
    IF o.type = "STR8" THEN Refuse("INVALID_TYPE") ELSE cmp_write_object(o)
=============================================================================

------------------------------ MODULE CmpRead ------------------------------
(***************************************************************************)
(* The reading half of lib/src/lib/c-msgpack.c: cmp_read_object, the typed *)
(* readers around it, and the tests and accessors of a decoded object.     *)
(* A reader takes the bytes b and the position p in them, the number of    *)
(* bytes already consumed, and returns what it stored, the new position    *)
(* and ctx->error.                                                         *)
(***************************************************************************)
EXTENDS Cmp

None == Object("NIL", Small(0), 0)

Read(o, p) == [ok |-> TRUE, obj |-> o, pos |-> p, error |-> "NONE"]
Failed(e, p) == [ok |-> FALSE, obj |-> None, pos |-> p, error |-> e]

(* ctx->read.                                                              *)
CanRead(b, p, n) == p + n <= Len(b)
Bytes(b, p, n) == SubSeq(b, p + 1, p + n)

(* The type that a marker announces; 193 announces none.                   *)
TypeOf(m) ==
    CASE m <= 127 -> "POSITIVE_FIXNUM"
      [] m \in 128 .. 143 -> "FIXMAP"
      [] m \in 144 .. 159 -> "FIXARRAY"
      [] m \in 160 .. 191 -> "FIXSTR"
      [] m \in {194, 195} -> "BOOLEAN"
      [] m >= 224 -> "NEGATIVE_FIXNUM"
      [] m = 193 -> "INVALID"
      [] OTHER -> CHOOSE t \in Types : Marker[t] = m

(* Objects that end with their marker.                                     *)
ReadMarkerOnly(m, p) ==
    LET t == TypeOf(m) IN
    CASE t = "POSITIVE_FIXNUM" -> Read(Object(t, Small(m), 0), p)
      [] t = "NEGATIVE_FIXNUM" -> Read(Object(t, SignExtend(<<m>>), 0), p)
      [] t = "NIL" -> Read(Object(t, Small(0), 0), p)
      [] OTHER -> Read(Object(t, Small(m - Marker[t]), 0), p)

(* A number or a size: host order is restored by be16 ... bedouble.        *)
Number(t, b, p) ==
    LET v == Memory(be(Bytes(b, p, Width[t])))
    IN  IF t \in Signed THEN SignExtend(v) ELSE ZeroExtend(v)

(* Mutant: the bytes that are there are taken for the number.              *)
ReadNumberPartial(t, b, p, error) ==
    IF CanRead(b, p, Width[t])
    THEN Read(Object(t, Number(t, b, p), 0), p + Width[t])
    ELSE Read(Object(t, Small(0), 0), Len(b))

ReadNumber(t, b, p, error) ==
    IF CanRead(b, p, Width[t])
    THEN Read(Object(t, Number(t, b, p), 0), p + Width[t])
    ELSE Failed(error, p)

ReadExt(t, b, p) ==
    IF ~CanRead(b, p, Width[t]) THEN Failed("LENGTH_READING", p)
    ELSE IF ~CanRead(b, p + Width[t], 1)
    THEN Failed("EXT_TYPE_READING", p + Width[t])
    ELSE Read(Object(t, Number(t, b, p), b[p + Width[t] + 1]), p + Width[t] + 1)

ReadFixExt(t, b, p) ==
    IF CanRead(b, p, 1)
    THEN Read(Object(t, Small(FixExtSize[t]), b[p + 1]), p + 1)
    ELSE Failed("EXT_TYPE_READING", p)

MarkerOnly == {"POSITIVE_FIXNUM", "FIXMAP", "FIXARRAY", "FIXSTR", "NIL",
               "BOOLEAN", "NEGATIVE_FIXNUM"}

cmp_read_object(b, p) ==
    IF ~CanRead(b, p, 1) THEN Failed("TYPE_MARKER_READING", p)
    ELSE LET m == b[p + 1]
             t == TypeOf(m)
         IN CASE t = "INVALID" -> Failed("INVALID_TYPE", p + 1)
              [] t \in MarkerOnly -> ReadMarkerOnly(m, p + 1)
              [] t \in {"BIN8", "BIN16", "BIN32"} ->
                    ReadNumber(t, b, p + 1, "LENGTH_READING")
              [] t \in {"EXT8", "EXT16", "EXT32"} -> ReadExt(t, b, p + 1)
              [] t \in DOMAIN FixExtSize -> ReadFixExt(t, b, p + 1)
              [] OTHER -> ReadNumber(t, b, p + 1, "DATA_READING")
-----------------------------------------------------------------------------
(* Typed readers.  Each accepts objects of some types; a signed one also   *)
(* takes an unsigned number of its own width if it is small enough.        *)

ExactReader ==
    [pfix |-> {"POSITIVE_FIXNUM"}, nfix |-> {"NEGATIVE_FIXNUM"},
     sfix |-> {"POSITIVE_FIXNUM", "NEGATIVE_FIXNUM"}, s8 |-> {"SINT8"},
     s16 |-> {"SINT16"}, s32 |-> {"SINT32"}, s64 |-> {"SINT64"}]

ExactUnsignedReader ==
    [ufix |-> {"POSITIVE_FIXNUM"}, u8 |-> {"UINT8"}, u16 |-> {"UINT16"},
     u32 |-> {"UINT32"}, u64 |-> {"UINT64"}]

SignedBase == {"POSITIVE_FIXNUM", "NEGATIVE_FIXNUM", "SINT8"}

(* Types read whatever the value, and the type read if it is in range.     *)
SignedReader ==
    [char |-> SignedBase,
     short |-> SignedBase \cup {"UINT8", "SINT16"},
     int |-> SignedBase \cup {"UINT8", "SINT16", "UINT16", "SINT32"},
     long |-> SignedBase \cup {"UINT8", "SINT16", "UINT16", "SINT32",
                               "UINT32", "SINT64"}]
SignedLimit ==
    [char |-> "UINT8", short |-> "UINT16", int |-> "UINT32", long |-> "UINT64"]

UnsignedBase == {"POSITIVE_FIXNUM", "UINT8"}
UnsignedReader ==
    [uchar |-> UnsignedBase,
     ushort |-> UnsignedBase \cup {"UINT16"},
     uint |-> UnsignedBase \cup {"UINT16", "UINT32"},
     ulong |-> UnsignedBase \cup {"UINT16", "UINT32", "UINT64"}]

RealReader ==
    [float |-> {"FLOAT"}, double |-> {"DOUBLE"},
     decimal |-> {"FLOAT", "DOUBLE"}, nil |-> {"NIL"}, bool |-> {"BOOLEAN"}]

SizeReader ==
    [str_size |-> {"FIXSTR", "STR8", "STR16", "STR32"},
     bin_size |-> {"BIN8", "BIN16", "BIN32"},
     array |-> {"FIXARRAY", "ARRAY16", "ARRAY32"},
     map |-> {"FIXMAP", "MAP16", "MAP32"}]

ExtReader ==
    [fixext1_marker |-> {"FIXEXT1"}, fixext2_marker |-> {"FIXEXT2"},
     fixext4_marker |-> {"FIXEXT4"}, fixext8_marker |-> {"FIXEXT8"},
     fixext16_marker |-> {"FIXEXT16"}, ext8_marker |-> {"EXT8"},
     ext16_marker |-> {"EXT16"}, ext32_marker |-> {"EXT32"},
     ext_marker |-> DOMAIN FixExtSize \cup {"EXT8", "EXT16", "EXT32"}]

(* The largest value of the signed type of the same width is not exceeded. *)
InRange(t, v) == v[9 - Width[t]] <= 127

(* Does cmp_read_<r> take the object?                                      *)
Takes(r, o) ==
    \/ r \in DOMAIN ExactReader /\ o.type \in ExactReader[r]
    \/ r \in DOMAIN ExactUnsignedReader /\ o.type \in ExactUnsignedReader[r]
    \/ r \in DOMAIN SignedReader
       /\ \/ o.type \in SignedReader[r]
          \/ o.type = SignedLimit[r] /\ InRange(o.type, o.as)
    \/ r \in DOMAIN UnsignedReader /\ o.type \in UnsignedReader[r]
    \/ r \in DOMAIN RealReader /\ o.type \in RealReader[r]
    \/ r \in DOMAIN SizeReader /\ o.type \in SizeReader[r]
    \/ r \in DOMAIN ExtReader /\ o.type \in ExtReader[r]

Readers ==
    DOMAIN ExactReader \cup DOMAIN ExactUnsignedReader
    \cup DOMAIN SignedReader \cup DOMAIN UnsignedReader
    \cup DOMAIN RealReader \cup DOMAIN SizeReader \cup DOMAIN ExtReader

cmp_read(r, b, p) ==
    LET got == cmp_read_object(b, p)
    IN  IF ~got.ok \/ Takes(r, got.obj) THEN got
        ELSE Failed("INVALID_TYPE", got.pos)
-----------------------------------------------------------------------------
(* Readers of data with their markers.  The caller's buffer has room bytes. *)

(* A size is a uint32.                                                     *)
SizeOf(v) == v[8] + 256 * v[7] + 65536 * v[6] + 16777216 * v[5]

(* SizeOf(v) > n; from 2^31 on the size is not computed, TLC's integers    *)
(* end there.                                                              *)
Exceeds(v, n) == (v[5] > 127 /\ n <= 2147483647) \/ SizeOf(v) > n

Fetch(got, b) ==
    IF Exceeds(got.obj.as, Len(b) - got.pos)
    THEN Failed("DATA_READING", got.pos)
    ELSE [got EXCEPT !.pos = @ + SizeOf(got.obj.as)]

(* Mutant: no room is asked for the terminating zero.                      *)
StrTooLongBare(v, room) == Exceeds(v, room)

(* str_size + 1 wraps to 0 in 32 bits.                                     *)
Wraps(v) == v = ZeroExtend(<<255, 255, 255, 255>>)

StrTooLong(v, room) == ~Wraps(v) /\ Exceeds(v, room - 1)

BinTooLong(v, room) == Exceeds(v, room)

cmp_read_str(b, p, room) ==
    LET got == cmp_read("str_size", b, p)
    IN  IF ~got.ok THEN got
        ELSE IF StrTooLong(got.obj.as, room)
        THEN Failed("STR_DATA_LENGTH_TOO_LONG", got.pos)
        ELSE Fetch(got, b)

cmp_read_bin(b, p, room) ==
    LET got == cmp_read("bin_size", b, p)
    IN  IF ~got.ok THEN got
        ELSE IF BinTooLong(got.obj.as, room)
        THEN Failed("BIN_DATA_LENGTH_TOO_LONG", got.pos)
        ELSE Fetch(got, b)

(* cmp_read_fixext1 ... cmp_read_ext32, cmp_read_ext: the data goes to the *)
(* caller whatever its size.                                               *)
cmp_read_ext(r, b, p) ==
    LET got == cmp_read(r, b, p)
    IN  IF got.ok THEN Fetch(got, b) ELSE got
-----------------------------------------------------------------------------
(* Tests and accessors of an object that has been read.                    *)

(* cmp_object_is_char ... cmp_object_is_ulong: signed or unsigned formats, *)
(* never both.                                                             *)
ObjectIsNumber ==
    [char |-> {"NEGATIVE_FIXNUM", "SINT8"},
     short |-> {"NEGATIVE_FIXNUM", "SINT8", "SINT16"},
     int |-> {"NEGATIVE_FIXNUM", "SINT8", "SINT16", "SINT32"},
     long |-> {"NEGATIVE_FIXNUM", "SINT8", "SINT16", "SINT32", "SINT64"},
     uchar |-> {"POSITIVE_FIXNUM", "UINT8"},
     ushort |-> {"POSITIVE_FIXNUM", "UINT8", "UINT16"},
     uint |-> {"POSITIVE_FIXNUM", "UINT8", "UINT16", "UINT32"},
     ulong |-> {"POSITIVE_FIXNUM", "UINT8", "UINT16", "UINT32", "UINT64"}]

(* cmp_object_is_float ... cmp_object_is_ext.                              *)
ObjectIsOther ==
    [float |-> {"FLOAT"}, double |-> {"DOUBLE"}, bool |-> {"BOOLEAN"},
     str |-> {"FIXSTR", "STR8", "STR16", "STR32"},
     bin |-> {"BIN8", "BIN16", "BIN32"},
     array |-> {"FIXARRAY", "ARRAY16", "ARRAY32"},
     map |-> {"FIXMAP", "MAP16", "MAP32"},
     ext |-> {"FIXEXT1", "FIXEXT2", "FIXEXT4", "FIXEXT8", "FIXEXT16",
              "EXT8", "EXT16", "EXT32"}]

(* Mutant: the unsigned format of the same width is taken unlooked.        *)
ObjectAsSignedAny(a, o) ==
    CASE a = "char" -> o.type \in SignedBase \cup {"UINT8"}
      [] a = "short" -> o.type \in SignedBase \cup {"UINT8", "SINT16", "UINT16"}
      [] a = "int" -> o.type \in SignedBase
                       \cup {"UINT8", "SINT16", "UINT16", "SINT32", "UINT32"}
      [] OTHER -> o.type \in SignedBase
                   \cup {"UINT8", "SINT16", "UINT16", "SINT32", "UINT32",
                         "SINT64", "UINT64"}

(* cmp_object_as_char ... cmp_object_as_long.                              *)
ObjectAsSigned(a, o) ==
    CASE a = "char" ->
            \/ o.type \in SignedBase
            \/ o.type = "UINT8" /\ o.as[8] <= 127
      [] a = "short" ->
            \/ o.type \in SignedBase \cup {"UINT8", "SINT16"}
            \/ o.type = "UINT16" /\ o.as[7] <= 127
      [] a = "int" ->
            \/ o.type \in SignedBase \cup {"UINT8", "SINT16", "UINT16", "SINT32"}
            \/ o.type = "UINT32" /\ o.as[5] <= 127
      [] OTHER ->
            \/ o.type \in SignedBase \cup {"UINT8", "SINT16", "UINT16", "SINT32",
                                           "UINT32", "SINT64"}
            \/ o.type = "UINT64" /\ o.as[1] <= 127

(* cmp_object_as_uchar ... cmp_object_as_ulong.                            *)
ObjectAsUnsigned(a, o) ==
    CASE a = "uchar" -> o.type \in {"POSITIVE_FIXNUM", "UINT8"}
      [] a = "ushort" -> o.type \in {"POSITIVE_FIXNUM", "UINT8", "UINT16"}
      [] a = "uint" ->
            o.type \in {"POSITIVE_FIXNUM", "UINT8", "UINT16", "UINT32"}
      [] OTHER -> o.type \in {"POSITIVE_FIXNUM", "UINT8", "UINT16", "UINT32",
                              "UINT64"}

(* cmp_object_as_float ... cmp_object_as_ext.                              *)
ObjectAsOther(a, o) ==
    CASE a = "float" -> o.type = "FLOAT"
      [] a = "double" -> o.type = "DOUBLE"
      [] a = "bool" -> o.type = "BOOLEAN"
      [] a = "str" -> o.type \in {"FIXSTR", "STR8", "STR16", "STR32"}
      [] a = "bin" -> o.type \in {"BIN8", "BIN16", "BIN32"}
      [] a = "array" -> o.type \in {"FIXARRAY", "ARRAY16", "ARRAY32"}
      [] a = "map" -> o.type \in {"FIXMAP", "MAP16", "MAP32"}
      [] OTHER -> o.type \in {"EXT8", "EXT16", "EXT32"} \cup DOMAIN FixExtSize

(* cmp_object_to_str and cmp_object_to_bin: the data of an object whose    *)
(* marker has been read; another type leaves no error.                     *)
cmp_object_to(kind, got, b, room) ==
    IF got.obj.type \notin ObjectIsOther[kind] THEN Failed("NONE", got.pos)
    ELSE IF kind = "str" /\ StrTooLong(got.obj.as, room)
    THEN Failed("STR_DATA_LENGTH_TOO_LONG", got.pos)
    ELSE IF kind = "bin" /\ BinTooLong(got.obj.as, room)
    THEN Failed("BIN_DATA_LENGTH_TOO_LONG", got.pos)
    ELSE Fetch(got, b)
=============================================================================

-------------------------- MODULE WireMeaningProofs -------------------------
(***************************************************************************)
(* Proofs that what is written is what is read: every object of cmp, every *)
(* display message and every input event, on a host of either byte order.  *)
(***************************************************************************)
EXTENDS WireCodecProofs
-----------------------------------------------------------------------------
(* Formats: the bytes of an object, and back.                              *)

(* The formats with a type byte, and the bytes of the number or the size   *)
(* that follows the marker of a format.                                    *)
ExtTypes == DOMAIN FixExtSize \cup {"EXT8", "EXT16", "EXT32"}
NumberWidth(t) == IF t \in Numbered THEN Width[t] ELSE 0

(* The objects that cmp_read_object can return: the value is one that the  *)
(* format can hold.                                                        *)
Exact(o) ==
    /\ Sound(o) /\ o = Object(o.type, o.as, o.ext)
    /\ o.type = "NEGATIVE_FIXNUM" => o.as[8] >= 224
    /\ o.type \in DOMAIN FixSize =>
          FitsUnsigned(o.as, 1) /\ o.as[8] <= FixSize[o.type]
    /\ o.type = "NIL" => o.as = Small(0)
    /\ o.type = "BOOLEAN" => o.as \in {Small(0), Small(1)}
    /\ o.type \in DOMAIN FixExtSize => o.as = Small(FixExtSize[o.type])
    /\ IF o.type \in ExtTypes THEN o.ext \in Byte ELSE o.ext = 0

(* The bytes of an object: its marker, its number or size, its type byte.  *)
MarkerByte(o) ==
    IF o.type \in {"POSITIVE_FIXNUM", "NEGATIVE_FIXNUM"} THEN o.as[8]
    ELSE IF o.type \in DOMAIN FixSize \cup {"BOOLEAN"}
    THEN Marker[o.type] + o.as[8]
    ELSE Marker[o.type]

NumberBytes(o) ==
    IF o.type \in Numbered THEN Low(o.as, Width[o.type]) ELSE <<>>
ExtBytes(o) == IF o.type \in ExtTypes THEN <<o.ext>> ELSE <<>>

Encoded(o) == (<<MarkerByte(o)>> \o NumberBytes(o)) \o ExtBytes(o)

HeaderLength(o) ==
    1 + NumberWidth(o.type) + (IF o.type \in ExtTypes THEN 1 ELSE 0)

(* No two types have the same marker.                                      *)
LEMMA MarkersDiffer ==
    \A t \in Types, u \in Types : Marker[t] = Marker[u] => t = u
BY SMTT(60) DEF Types, Marker

(* The types that are not kept apart by their marker alone.                *)
LEMMA TypeSets ==
    /\ DOMAIN FixSize = {"FIXMAP", "FIXARRAY", "FIXSTR"}
    /\ DOMAIN FixExtSize = {"FIXEXT1", "FIXEXT2", "FIXEXT4", "FIXEXT8",
                            "FIXEXT16"}
    /\ Types = {"POSITIVE_FIXNUM", "NEGATIVE_FIXNUM", "NIL", "BOOLEAN"}
               \cup DOMAIN FixSize \cup DOMAIN FixExtSize \cup Numbered
    /\ Numbered \cap (MarkerOnly \cup DOMAIN FixExtSize) = {}
    /\ MarkerOnly = {"POSITIVE_FIXNUM", "NEGATIVE_FIXNUM", "NIL", "BOOLEAN"}
                    \cup DOMAIN FixSize
<1>1. /\ DOMAIN FixSize = {"FIXMAP", "FIXARRAY", "FIXSTR"}
      /\ DOMAIN FixExtSize = {"FIXEXT1", "FIXEXT2", "FIXEXT4", "FIXEXT8",
                              "FIXEXT16"}
  BY DEF FixSize, FixExtSize
<1>2. Types = {"POSITIVE_FIXNUM", "NEGATIVE_FIXNUM", "NIL", "BOOLEAN"}
               \cup DOMAIN FixSize \cup DOMAIN FixExtSize \cup Numbered
  BY <1>1 DEF Types, Marker, Numbered
<1>3. Numbered \cap (MarkerOnly \cup DOMAIN FixExtSize) = {}
  BY <1>1 DEF Numbered, MarkerOnly
<1>4. MarkerOnly = {"POSITIVE_FIXNUM", "NEGATIVE_FIXNUM", "NIL", "BOOLEAN"}
                    \cup DOMAIN FixSize
  BY <1>1 DEF MarkerOnly
<1> QED
  BY <1>1, <1>2, <1>3, <1>4

(* The values of the markers.                                              *)
LEMMA MarkerValues ==
    /\ Marker["FIXMAP"] = 128 /\ Marker["FIXARRAY"] = 144
    /\ Marker["FIXSTR"] = 160 /\ Marker["BOOLEAN"] = 194
    /\ FixSize["FIXMAP"] = 15 /\ FixSize["FIXARRAY"] = 15
    /\ FixSize["FIXSTR"] = 31
    /\ \A t \in {"NIL"} \cup Numbered \cup DOMAIN FixExtSize :
          /\ Marker[t] \in 192 .. 223
          /\ Marker[t] \notin {193, 194, 195}
<1>1. \A t \in {"NIL"} \cup Numbered \cup DOMAIN FixExtSize :
          /\ Marker[t] \in 192 .. 223
          /\ Marker[t] \notin {193, 194, 195}
  BY TypeSets DEF Marker, Numbered
<1> QED
  BY <1>1 DEF Marker, FixSize

(* The marker of an object tells its type.                                 *)
LEMMA MarkerTellsType ==
    ASSUME NEW o, Exact(o)
    PROVE  MarkerByte(o) \in Byte /\ TypeOf(MarkerByte(o)) = o.type
<1>1. PICK t \in Types : t = o.type
  BY DEF Exact, Sound
<1>2. PICK c \in 0 .. 255 : c = o.as[8]
  BY DEF Exact, Sound, Word, Byte
<1>3. CASE t = "POSITIVE_FIXNUM"
  <2>1. MarkerByte(o) = c /\ c <= 127
    BY <1>1, <1>2, <1>3 DEF MarkerByte, Exact, Sound
  <2>2. TypeOf(c) = "POSITIVE_FIXNUM"
    BY <2>1 DEF TypeOf
  <2> QED
    BY <1>1, <1>3, <2>1, <2>2 DEF Byte
<1>4. CASE t = "NEGATIVE_FIXNUM"
  <2>1. MarkerByte(o) = c /\ c >= 224
    BY <1>1, <1>2, <1>4 DEF MarkerByte, Exact
  <2>2. TypeOf(c) = "NEGATIVE_FIXNUM"
    BY <2>1 DEF TypeOf
  <2> QED
    BY <1>1, <1>4, <2>1, <2>2 DEF Byte
<1>5. CASE t \in DOMAIN FixSize
  <2>1. MarkerByte(o) = Marker[t] + c /\ c <= FixSize[t]
    BY <1>1, <1>2, <1>5, TypeSets DEF MarkerByte, Exact
  <2>2. t = "FIXMAP" \/ t = "FIXARRAY" \/ t = "FIXSTR"
    BY <1>5, TypeSets
  <2>3. PICK m \in 0 .. 255 : m = MarkerByte(o) /\ TypeOf(m) = t
    <3>1. CASE t = "FIXMAP"
      <4>1. MarkerByte(o) = 128 + c /\ c <= 15
        BY <2>1, <3>1, MarkerValues
      <4>2. PICK m \in 128 .. 143 : m = 128 + c
        BY <4>1
      <4> QED
        BY <3>1, <4>1, <4>2 DEF TypeOf
    <3>2. CASE t = "FIXARRAY"
      <4>1. MarkerByte(o) = 144 + c /\ c <= 15
        BY <2>1, <3>2, MarkerValues
      <4>2. PICK m \in 144 .. 159 : m = 144 + c
        BY <4>1
      <4> QED
        BY <3>2, <4>1, <4>2 DEF TypeOf
    <3>3. CASE t = "FIXSTR"
      <4>1. MarkerByte(o) = 160 + c /\ c <= 31
        BY <2>1, <3>3, MarkerValues
      <4>2. PICK m \in 160 .. 191 : m = 160 + c
        BY <4>1
      <4> QED
        BY <3>3, <4>1, <4>2 DEF TypeOf
    <3> QED
      BY <2>2, <3>1, <3>2, <3>3
  <2> QED
    BY <1>1, <2>3 DEF Byte
<1>6. CASE t = "BOOLEAN"
  <2>1. MarkerByte(o) = Marker[t] + c
    BY <1>1, <1>2, <1>6, TypeSets DEF MarkerByte
  <2>2. 0 \in Byte /\ 1 \in Byte
    BY DEF Byte
  <2>3. c = 0 \/ c = 1
    BY <1>1, <1>2, <1>6, <2>2, SmallWord DEF Exact
  <2>4. PICK m \in {194, 195} : m = MarkerByte(o)
    BY <1>6, <2>1, <2>3, MarkerValues
  <2>5. TypeOf(m) = "BOOLEAN"
    BY DEF TypeOf
  <2> QED
    BY <1>1, <1>6, <2>4, <2>5 DEF Byte
<1>7. CASE t \in {"NIL"} \cup Numbered \cup DOMAIN FixExtSize
  <2>1. MarkerByte(o) = Marker[t]
    BY <1>1, <1>7, TypeSets DEF MarkerByte, MarkerOnly
  <2>2. PICK m \in 192 .. 223 : m = Marker[t] /\ m \notin {193, 194, 195}
    BY <1>7, MarkerValues
  <2>3. TypeOf(m) = CHOOSE u \in Types : Marker[u] = m
    BY <2>2 DEF TypeOf
  <2>4. TypeOf(m) \in Types /\ Marker[TypeOf(m)] = m
    BY <2>2, <2>3
  <2>5. TypeOf(m) = t
    BY <2>2, <2>4, MarkersDiffer
  <2> QED
    BY <1>1, <2>1, <2>2, <2>5 DEF Byte
<1> QED
  BY <1>1, <1>3, <1>4, <1>5, <1>6, <1>7, TypeSets

(* The pieces of an encoded object, byte by byte.                          *)
LEMMA EncodedBytes ==
    ASSUME NEW o, Exact(o), NEW e, e = Encoded(o),
           NEW w, w = NumberWidth(o.type)
    PROVE  /\ w \in 0 .. 8 /\ HeaderLength(o) \in 1 .. 10
           /\ e \in Seq(Byte) /\ Len(e) = HeaderLength(o)
           /\ e[1] = MarkerByte(o)
           /\ \A i \in 1 .. w : e[1 + i] = o.as[8 - w + i]
           /\ o.type \in ExtTypes => e[2 + w] = o.ext
<1>1. PICK m \in Byte : m = MarkerByte(o)
  BY MarkerTellsType
<1>2. PICK a : a = <<m>>
  OBVIOUS
<1>3. a \in Seq(Byte) /\ Len(a) = 1 /\ a[1] = m
  BY <1>2
<1>4. PICK v \in Word : v = o.as
  BY DEF Exact, Sound
<1>5. w \in 0 .. 8
  BY NumberedFormats DEF NumberWidth
<1>6. PICK n : n = NumberBytes(o)
  OBVIOUS
<1>7. n \in Seq(Byte) /\ Len(n) = w /\ \A i \in 1 .. w : n[i] = v[8 - w + i]
  <2>1. CASE o.type \in Numbered
    <3>1. n = Low(v, w) /\ w \in 1 .. 8
      BY <1>4, <1>6, <2>1, NumberedFormats DEF NumberBytes, NumberWidth
    <3>2. n = [i \in 1 .. w |-> v[8 - w + i]]
      BY <3>1, LowBytes
    <3>3. \A i \in 1 .. w : v[8 - w + i] \in Byte
      BY <3>1 DEF Word
    <3>4. n \in [1 .. w -> Byte]
      BY <3>2, <3>3
    <3>5. w \in Nat
      BY <3>1
    <3>6. n \in Seq(Byte) /\ Len(n) = w
      BY <3>4, <3>5, ByteStringLength
    <3>7. \A i \in 1 .. w : n[i] = v[8 - w + i]
      BY <3>2
    <3> QED
      BY <3>6, <3>7
  <2>2. CASE o.type \notin Numbered
    <3>1. n = <<>> /\ w = 0
      BY <1>6, <2>2 DEF NumberBytes, NumberWidth
    <3> QED
      BY <3>1, EmptySeq
  <2> QED
    BY <2>1, <2>2
<1>8. PICK x \in 0 .. 1 : x = IF o.type \in ExtTypes THEN 1 ELSE 0
  OBVIOUS
<1>9. PICK d : d = ExtBytes(o)
  OBVIOUS
<1>10. d \in Seq(Byte) /\ Len(d) = x /\ (x = 1 => d[1] = o.ext)
  BY <1>8, <1>9, EmptySeq DEF ExtBytes, Exact
<1>11. PICK c : c = a \o n
  OBVIOUS
<1>12. /\ c \in Seq(Byte) /\ Len(c) = 1 + w
       /\ \A i \in 1 .. 1 + w : c[i] = IF i <= 1 THEN a[i] ELSE n[i - 1]
  <2>1. /\ c \in Seq(Byte) /\ Len(c) = Len(a) + Len(n)
        /\ \A i \in 1 .. Len(a) + Len(n) :
              c[i] = IF i <= Len(a) THEN a[i] ELSE n[i - Len(a)]
    BY <1>3, <1>7, <1>11, ConcatProperties
  <2> QED
    BY <1>3, <1>5, <1>7, <2>1
<1>13. e = c \o d
  BY <1>1, <1>2, <1>6, <1>9, <1>11 DEF Encoded
<1>14. /\ e \in Seq(Byte) /\ Len(e) = 1 + w + x
       /\ \A i \in 1 .. 1 + w + x : e[i] = IF i <= 1 + w THEN c[i]
                                           ELSE d[i - (1 + w)]
  <2>1. /\ e \in Seq(Byte) /\ Len(e) = Len(c) + Len(d)
        /\ \A i \in 1 .. Len(c) + Len(d) :
              e[i] = IF i <= Len(c) THEN c[i] ELSE d[i - Len(c)]
    BY <1>10, <1>12, <1>13, ConcatProperties
  <2> QED
    BY <1>5, <1>10, <1>12, <2>1
<1>15. HeaderLength(o) = 1 + w + x
  BY <1>5, <1>8 DEF HeaderLength
<1>16. e[1] = m
  <2>1. 1 \in 1 .. 1 + w /\ 1 \in 1 .. 1 + w + x /\ 1 <= 1 + w
    BY <1>5
  <2>2. e[1] = c[1] /\ c[1] = a[1]
    BY <1>12, <1>14, <2>1
  <2> QED
    BY <1>3, <2>2
<1>17. ASSUME NEW i \in 1 .. w PROVE e[1 + i] = v[8 - w + i]
  <2>1. PICK j \in 1 .. 1 + w : j = 1 + i /\ ~(j <= 1) /\ j - 1 = i
    BY <1>5
  <2>2. e[j] = c[j]
    BY <1>5, <1>14, <2>1
  <2>3. c[j] = n[i]
    BY <1>12, <2>1
  <2> QED
    BY <1>7, <2>1, <2>2, <2>3
<1>18. x = 1 => e[2 + w] = o.ext
  <2> SUFFICES ASSUME x = 1 PROVE e[2 + w] = o.ext
    OBVIOUS
  <2>1. PICK j \in 1 .. 1 + w + x : j = 2 + w /\ ~(j <= 1 + w)
                                    /\ j - (1 + w) = 1
    BY <1>5
  <2>2. e[j] = d[1]
    BY <1>14, <2>1
  <2> QED
    BY <1>10, <2>1, <2>2
<1> QED
  BY <1>1, <1>4, <1>5, <1>8, <1>14, <1>15, <1>16, <1>17, <1>18

(* From position p on b holds the bytes of o, as far as b goes.            *)
Spelled(o, b, p) ==
    \A i \in 1 .. HeaderLength(o) : p + i <= Len(b) => b[p + i] = Encoded(o)[i]

(* A word is its last byte extended, if that is all it says.               *)
LEMMA OneByteWords ==
    ASSUME NEW v \in Word
    PROVE  /\ FitsUnsigned(v, 1) => Small(v[8]) = v
           /\ Extended(v, 1) => SignExtend(<<v[8]>>) = v
<1>1. Low(v, 1) = <<v[8]>>
  <2>1. Low(v, 1) = [i \in 1 .. 1 |-> v[8 - 1 + i]]
    BY LowBytes
  <2>2. PICK s : s = <<v[8]>>
    OBVIOUS
  <2>3. s = [i \in 1 .. 1 |-> v[8 - 1 + i]]
    BY <2>2
  <2> QED
    BY <2>1, <2>2, <2>3
<1>2. /\ Extended(v, 1) => SignExtend(Low(v, 1)) = v
      /\ FitsUnsigned(v, 1) => ZeroExtend(Low(v, 1)) = v
  BY ExtendLow
<1> QED
  BY <1>1, <1>2 DEF Small

(* The bytes at a position, one by one.                                    *)
LEMMA BytesAt ==
    ASSUME NEW b \in Seq(Byte), NEW q \in Nat, NEW w \in 1 .. 8,
           q + w <= Len(b)
    PROVE  \A i \in 1 .. w : Bytes(b, q, w)[i] = b[q + i]
<1>1. PICK s : s = Bytes(b, q, w)
  OBVIOUS
<1>2. PICK j \in Int, k \in Int : j = q + 1 /\ k = q + w
  OBVIOUS
<1>3. \A i \in j .. k : b[i] \in Byte
  BY <1>2, ElementOfSeq, LenProperties
<1>4. s = SubSeq(b, j, k)
  BY <1>1, <1>2 DEF Bytes
<1>5. \A i \in 1 .. k - j + 1 : s[i] = b[j + i - 1]
  BY <1>3, <1>4, SubSeqProperties
<1>6. k - j + 1 = w
  BY <1>2
<1>7. ASSUME NEW i \in 1 .. w PROVE s[i] = b[q + i]
  <2>1. j + i - 1 = q + i
    BY <1>2
  <2> QED
    BY <1>5, <1>6, <2>1
<1> QED
  BY <1>1, <1>7

(* The number is read back.                                                *)
LEMMA NumberBack ==
    ASSUME NEW b \in Seq(Byte), NEW q \in Nat, NEW o, Exact(o),
           o.type \in Numbered,
           q + Width[o.type] <= Len(b),
           \A i \in 1 .. Width[o.type] :
              b[q + i] = o.as[8 - Width[o.type] + i]
    PROVE  Number(o.type, b, q) = o.as
<1>1. PICK v \in Word, w \in 1 .. 8, t \in Numbered :
         v = o.as /\ w = Width[o.type] /\ t = o.type
  BY NumberedFormats DEF Exact, Sound
<1>2. PICK s : s = Bytes(b, q, w)
  OBVIOUS
<1>3. s = Low(v, w)
  <2>1. s \in [1 .. w -> Byte]
    BY <1>1, <1>2, BytesRead
  <2>2. \A i \in 1 .. w : s[i] = b[q + i]
    BY <1>1, <1>2, BytesAt
  <2>3. \A i \in 1 .. w : s[i] = v[8 - w + i]
    BY <1>1, <2>2
  <2>4. Low(v, w) = [i \in 1 .. w |-> v[8 - w + i]]
    BY <1>1, LowBytes
  <2> QED
    BY <2>1, <2>3, <2>4
<1>4. Memory(be(s)) = s
  <2>1. s \in [1 .. w -> Byte]
    BY <1>1, <1>2, BytesRead
  <2>2. \A k \in 1 .. 8 : \A d \in [1 .. k -> Byte] : Memory(be(d)) = d
    BY NetworkOrder
  <2> QED
    BY <2>1, <2>2, Zenon
<1>5. /\ t \in Signed => Extended(v, w)
      /\ t \notin Signed => FitsUnsigned(v, w)
  BY <1>1 DEF Exact, Sound
<1>6. Number(t, b, q) = IF t \in Signed THEN SignExtend(s) ELSE ZeroExtend(s)
  BY <1>1, <1>2, <1>4 DEF Number
<1> QED
  BY <1>1, <1>3, <1>5, <1>6, ExtendLow

(* The branches of cmp_read_object, by the type of the marker.             *)
LEMMA ReadByType ==
    ASSUME NEW b, NEW p, CanRead(b, p, 1), NEW m, m = b[p + 1],
           NEW q, q = p + 1, NEW t, t = TypeOf(m),
           NEW res, res = cmp_read_object(b, p)
    PROVE  /\ t = "INVALID" => res = Failed("INVALID_TYPE", q)
           /\ t \in MarkerOnly => res = ReadMarkerOnly(m, q)
           /\ t \in {"EXT8", "EXT16", "EXT32"} => res = ReadExt(t, b, q)
           /\ t \in DOMAIN FixExtSize => res = ReadFixExt(t, b, q)
           /\ t \in Numbered \ {"EXT8", "EXT16", "EXT32"} =>
                 \E e : res = ReadNumber(t, b, q, e)
<1>1. res = CASE t = "INVALID" -> Failed("INVALID_TYPE", q)
              [] t \in MarkerOnly -> ReadMarkerOnly(m, q)
              [] t \in {"BIN8", "BIN16", "BIN32"} ->
                    ReadNumber(t, b, q, "LENGTH_READING")
              [] t \in {"EXT8", "EXT16", "EXT32"} -> ReadExt(t, b, q)
              [] t \in DOMAIN FixExtSize -> ReadFixExt(t, b, q)
              [] OTHER -> ReadNumber(t, b, q, "DATA_READING")
  BY Zenon DEF cmp_read_object
<1>2. t = "INVALID" => res = Failed("INVALID_TYPE", q)
  BY <1>1 DEF MarkerOnly, FixExtSize
<1>3. t \in MarkerOnly => res = ReadMarkerOnly(m, q)
  BY <1>1 DEF MarkerOnly, FixExtSize
<1>4. t \in {"EXT8", "EXT16", "EXT32"} => res = ReadExt(t, b, q)
  BY <1>1 DEF MarkerOnly, FixExtSize
<1>5. t \in DOMAIN FixExtSize => res = ReadFixExt(t, b, q)
  BY <1>1 DEF MarkerOnly, FixExtSize
<1>6. t \in Numbered \ {"EXT8", "EXT16", "EXT32"} =>
         \/ res = ReadNumber(t, b, q, "LENGTH_READING")
         \/ res = ReadNumber(t, b, q, "DATA_READING")
  BY <1>1 DEF MarkerOnly, FixExtSize, Numbered
<1> QED
  BY <1>2, <1>3, <1>4, <1>5, <1>6

(* An object whose bytes are there is read back, and what has lost a byte  *)
(* of them is refused.                                                     *)
LEMMA ReadBack ==
    ASSUME NEW b \in Seq(Byte), NEW p \in Nat, NEW o, Exact(o),
           Spelled(o, b, p)
    PROVE  IF p + HeaderLength(o) <= Len(b)
           THEN cmp_read_object(b, p) = Read(o, p + HeaderLength(o))
           ELSE ~cmp_read_object(b, p).ok
<1>1. PICK n \in Nat : n = Len(b)
  BY LenProperties
<1>t. PICK t \in Types, v \in Word, x \in {o.ext} :
         t = o.type /\ v = o.as /\ x = o.ext
  BY DEF Exact, Sound
<1>w. PICK w \in 0 .. 8 : w = NumberWidth(o.type)
  <2>1. NumberWidth(o.type) \in 0 .. 8
    BY NumberedFormats DEF NumberWidth
  <2> QED
    BY <2>1
<1>e. PICK e : e = Encoded(o) /\ w = NumberWidth(o.type)
  BY <1>w
<1>3. /\ HeaderLength(o) \in 1 .. 10
      /\ e[1] = MarkerByte(o)
      /\ \A i \in 1 .. w : e[1 + i] = v[8 - w + i]
      /\ t \in ExtTypes => e[2 + w] = x
  <2>1. /\ HeaderLength(o) \in 1 .. 10 /\ e[1] = MarkerByte(o)
        /\ \A i \in 1 .. w : e[1 + i] = o.as[8 - w + i]
        /\ o.type \in ExtTypes => e[2 + w] = o.ext
    BY <1>e, EncodedBytes, SMTT(30)
  <2>2. \A i \in 1 .. w : e[1 + i] = v[8 - w + i]
    BY <1>t, <2>1, Zenon
  <2>3. t \in ExtTypes => e[2 + w] = x
    BY <1>t, <2>1, Zenon
  <2> QED
    BY <2>1, <2>2, <2>3, Zenon
<1>h. PICK h \in 1 .. 10 : h = HeaderLength(o)
  BY <1>3
<1>2. /\ t = o.type /\ v = o.as /\ x = o.ext /\ h = HeaderLength(o)
      /\ w = NumberWidth(t) /\ e = Encoded(o)
  BY <1>t, <1>e, <1>h
<1>4. o = Object(t, v, x)
  BY <1>2 DEF Exact
<1>5. \A i \in 1 .. h : p + i <= n => b[p + i] = e[i]
  BY <1>1, <1>2 DEF Spelled
<1>6. PICK res : res = cmp_read_object(b, p)
  OBVIOUS
<1>f. \A err, q : ~Failed(err, q).ok
  BY DEF Failed
<1> SUFFICES IF p + h <= n THEN res = Read(o, p + h) ELSE ~res.ok
  BY <1>1, <1>2, <1>6
<1>7. CASE ~(p + 1 <= n)
  <2>1. res = Failed("TYPE_MARKER_READING", p)
    BY <1>1, <1>6, <1>7 DEF cmp_read_object, CanRead
  <2>2. ~(p + h <= n)
    BY <1>7
  <2> QED
    BY <1>f, <2>1, <2>2
<1>8. CASE p + 1 <= n
  <2>1. PICK m \in Byte : m = MarkerByte(o) /\ m = b[p + 1] /\ TypeOf(m) = t
    <3>1. b[p + 1] = e[1]
      BY <1>5, <1>8
    <3> QED
      BY <1>2, <1>3, <3>1, MarkerTellsType
  <2>2. CanRead(b, p, 1)
    BY <1>1, <1>8 DEF CanRead
  <2>3. PICK q \in Nat : q = p + 1
    OBVIOUS
  <2>5. CASE t \in MarkerOnly
    <3>1. t \notin Numbered /\ t \notin ExtTypes
      BY <2>5, TypeSets DEF ExtTypes, MarkerOnly
    <3>w. x = 0
      BY <1>2, <3>1 DEF Exact
    <3>h. NumberWidth(t) = 0
      BY <3>1 DEF NumberWidth
    <3>2. h = 1 /\ x = 0
      BY <1>2, <3>1, <3>h, <3>w DEF HeaderLength
    <3>3. res = ReadMarkerOnly(m, q)
      BY <1>6, <2>1, <2>2, <2>3, <2>5, ReadByType
    <3>4. ReadMarkerOnly(m, q) = Read(Object(t, v, 0), q)
      <4>1. CASE t = "POSITIVE_FIXNUM"
        <5>1. m = v[8] /\ Small(v[8]) = v
          BY <1>2, <2>1, <4>1, OneByteWords DEF MarkerByte, Exact, Sound
        <5> QED
          BY <2>1, <4>1, <5>1 DEF ReadMarkerOnly
      <4>2. CASE t = "NEGATIVE_FIXNUM"
        <5>1. FitsNegative(v, 1)
          BY <1>2, <4>2 DEF Exact, Sound
        <5>2. Extended(v, 1)
          BY <5>1, Widening
        <5>3. m = v[8] /\ SignExtend(<<v[8]>>) = v
          BY <1>2, <2>1, <4>2, <5>2, OneByteWords DEF MarkerByte
        <5> QED
          BY <2>1, <4>2, <5>3 DEF ReadMarkerOnly
      <4>3. CASE t = "NIL"
        <5>1. v = Small(0)
          BY <1>2, <4>3 DEF Exact
        <5> QED
          BY <2>1, <4>3, <5>1 DEF ReadMarkerOnly
      <4>4. CASE t \in {"BOOLEAN"} \cup DOMAIN FixSize
        <5>1. m = Marker[t] + v[8]
          <6>1. t \notin {"POSITIVE_FIXNUM", "NEGATIVE_FIXNUM"}
            BY <4>4, TypeSets
          <6> QED
            BY <1>2, <2>1, <4>4, <6>1 DEF MarkerByte
        <5>2. PICK k \in Byte, c \in Byte : k = Marker[t] /\ c = v[8]
          BY NumberedFormats DEF Word
        <5>3. m - Marker[t] = v[8]
          BY <5>1, <5>2 DEF Byte
        <5>4. FitsUnsigned(v, 1)
          <6>1. 0 \in Byte /\ 1 \in Byte
            BY DEF Byte
          <6> QED
            BY <1>2, <4>4, <6>1, SmallWord DEF Exact
        <5>5. Small(m - Marker[t]) = v
          BY <5>3, <5>4, OneByteWords
        <5>6. t \notin {"POSITIVE_FIXNUM", "NEGATIVE_FIXNUM", "NIL"}
          BY <4>4, TypeSets
        <5> QED
          BY <2>1, <5>5, <5>6 DEF ReadMarkerOnly
      <4> QED
        BY <2>5, <4>1, <4>2, <4>3, <4>4, TypeSets
    <3> QED
      BY <1>4, <1>8, <2>3, <3>2, <3>3, <3>4
  <2>6. CASE t \in Numbered
    <3>1. w = Width[t] /\ w \in 1 .. 8 /\ t \notin MarkerOnly
          /\ t \notin DOMAIN FixExtSize
      BY <1>2, <2>6, NumberedFormats, TypeSets DEF NumberWidth
    <3>2. ASSUME q + w <= n PROVE Number(t, b, q) = v
      <4>1. ASSUME NEW i \in 1 .. w PROVE b[q + i] = v[8 - w + i]
        <5>1. PICK j \in 1 .. h : j = 1 + i /\ p + j = q + i
          <6>1. h = 1 + w + (IF t \in ExtTypes THEN 1 ELSE 0)
            BY <1>2 DEF HeaderLength
          <6> QED
            BY <2>3, <6>1
        <5>2. b[p + j] = e[j]
          BY <1>5, <3>2, <5>1
        <5> QED
          BY <1>3, <5>1, <5>2
      <4>2. q + w <= Len(b)
        BY <1>1, <3>2
      <4> QED
        BY <1>2, <2>6, <3>1, <4>1, <4>2, NumberBack
    <3>3. CASE t \in {"EXT8", "EXT16", "EXT32"}
      <4>1. h = 1 + w + 1 /\ t \in ExtTypes
        BY <1>2, <3>1, <3>3 DEF HeaderLength, ExtTypes
      <4>2. res = ReadExt(t, b, q)
        BY <1>6, <2>1, <2>2, <2>3, <3>3, ReadByType
      <4>3. CASE ~(q + w <= n)
        <5>1. res = Failed("LENGTH_READING", q)
          BY <1>1, <3>1, <4>2, <4>3 DEF ReadExt, CanRead
        <5>2. ~(p + h <= n)
          BY <2>3, <4>1, <4>3
        <5> QED
          BY <1>f, <5>1, <5>2
      <4>4. CASE q + w <= n /\ ~(q + w + 1 <= n)
        <5>1. res = Failed("EXT_TYPE_READING", q + w)
          BY <1>1, <3>1, <4>2, <4>4 DEF ReadExt, CanRead
        <5>2. ~(p + h <= n)
          BY <2>3, <4>1, <4>4
        <5> QED
          BY <1>f, <5>1, <5>2
      <4>5. CASE q + w + 1 <= n
        <5>1. q + w <= n
          BY <2>3, <3>1, <4>5
        <5>2. res = Read(Object(t, Number(t, b, q), b[q + w + 1]), q + w + 1)
          BY <1>1, <3>1, <4>2, <4>5, <5>1 DEF ReadExt, CanRead
        <5>3. PICK j \in 1 .. h : j = 2 + w /\ p + j = q + w + 1
          BY <2>3, <4>1
        <5>4. b[q + w + 1] = x
          BY <1>3, <1>5, <4>1, <4>5, <5>3
        <5>5. p + h = q + w + 1
          BY <2>3, <4>1
        <5> QED
          BY <1>4, <3>2, <4>5, <5>1, <5>2, <5>4, <5>5
      <4> QED
        BY <2>3, <3>1, <4>3, <4>4, <4>5
    <3>4. CASE t \notin {"EXT8", "EXT16", "EXT32"}
      <4>1. t \notin ExtTypes
        BY <3>1, <3>4 DEF ExtTypes
      <4>2. h = 1 + w /\ x = 0
        BY <1>2, <3>1, <4>1 DEF HeaderLength, Exact
      <4>4. PICK err : res = ReadNumber(t, b, q, err)
        BY <1>6, <2>1, <2>2, <2>3, <2>6, <3>4, ReadByType
      <4>5. p + h = q + w
        BY <2>3, <4>2
      <4>6. CASE q + w <= n
        <5>1. res = Read(Object(t, Number(t, b, q), 0), q + w)
          BY <1>1, <3>1, <4>4, <4>6 DEF ReadNumber, CanRead
        <5> QED
          BY <1>4, <3>2, <4>2, <4>5, <4>6, <5>1
      <4>7. CASE ~(q + w <= n)
        <5>1. res = Failed(err, q)
          BY <1>1, <3>1, <4>4, <4>7 DEF ReadNumber, CanRead
        <5> QED
          BY <1>f, <4>5, <4>7, <5>1
      <4> QED
        BY <4>6, <4>7
    <3> QED
      BY <3>3, <3>4
  <2>7. CASE t \in DOMAIN FixExtSize
    <3>1. t \notin MarkerOnly /\ t \notin Numbered /\ t \in ExtTypes
      BY <2>7, TypeSets DEF ExtTypes, MarkerOnly
    <3>2. w = 0 /\ h = 2
      BY <1>2, <3>1 DEF HeaderLength, NumberWidth
    <3>4. res = ReadFixExt(t, b, q)
      BY <1>6, <2>1, <2>2, <2>3, <2>7, ReadByType
    <3>5. v = Small(FixExtSize[t])
      BY <1>2, <2>7 DEF Exact
    <3>6. CASE q + 1 <= n
      <4>1. res = Read(Object(t, v, b[q + 1]), q + 1)
        BY <1>1, <3>4, <3>5, <3>6 DEF ReadFixExt, CanRead
      <4>2. PICK j \in 1 .. h : j = 2 + w /\ p + j = q + 1
        BY <2>3, <3>2
      <4>3. b[q + 1] = x
        BY <1>3, <1>5, <3>1, <3>6, <4>2
      <4>4. p + h = q + 1
        BY <2>3, <3>2
      <4> QED
        BY <1>4, <3>6, <4>1, <4>3, <4>4
    <3>7. CASE ~(q + 1 <= n)
      <4>1. res = Failed("EXT_TYPE_READING", q)
        BY <1>1, <3>4, <3>7 DEF ReadFixExt, CanRead
      <4>2. ~(p + h <= n)
        BY <2>3, <3>2, <3>7
      <4> QED
        BY <1>f, <4>1, <4>2
    <3> QED
      BY <3>6, <3>7
  <2> QED
    BY <2>5, <2>6, <2>7, TypeSets
<1> QED
  BY <1>7, <1>8

(* Marker, number and type byte in their places spell the object.          *)
LEMMA SpelledIf ==
    ASSUME NEW o, Exact(o), NEW b, NEW p \in Nat,
           NEW w, w = NumberWidth(o.type),
           MarkerByte(o) = b[p + 1],
           \A i \in 1 .. w : b[p + 1 + i] = o.as[8 - w + i],
           o.type \in ExtTypes => b[p + 2 + w] = o.ext
    PROVE  Spelled(o, b, p)
<1>1. PICK e : e = Encoded(o)
  OBVIOUS
<1>2. PICK k \in 0 .. 8 : k = w
  BY EncodedBytes
<1>3. /\ e[1] = MarkerByte(o)
      /\ \A i \in 1 .. w : e[1 + i] = o.as[8 - w + i]
      /\ o.type \in ExtTypes => e[2 + w] = o.ext
  BY <1>1, EncodedBytes
<1>4. HeaderLength(o) = 1 + k + (IF o.type \in ExtTypes THEN 1 ELSE 0)
  BY <1>2 DEF HeaderLength
<1>5. ASSUME NEW i \in 1 .. HeaderLength(o) PROVE b[p + i] = e[i]
  <2>1. CASE i = 1
    BY <1>3, <2>1
  <2>2. CASE i \in 2 .. 1 + k
    <3>1. PICK j \in 1 .. k : i = 1 + j /\ p + i = p + 1 + j
      BY <1>2, <2>2
    <3>2. e[i] = o.as[8 - w + j]
      BY <1>2, <1>3, <3>1
    <3>3. b[p + 1 + j] = o.as[8 - w + j]
      BY <1>2, <3>1
    <3> QED
      BY <3>1, <3>2, <3>3
  <2>3. CASE i = 2 + k
    <3>1. o.type \in ExtTypes
      BY <1>2, <1>4, <2>3
    <3>2. p + i = p + 2 + k
      BY <1>2, <2>3
    <3> QED
      BY <1>2, <1>3, <2>3, <3>1, <3>2
  <2> QED
    BY <1>2, <1>4, <2>1, <2>2, <2>3
<1> QED
  BY <1>1, <1>5 DEF Spelled

(* A marker byte that announces a type lies in the range of the type.      *)
LEMMA MarkerRanges ==
    ASSUME NEW m \in Byte, NEW t, t = TypeOf(m)
    PROVE  /\ t = "INVALID" \/ t \in MarkerOnly \/ t \in DOMAIN FixExtSize
              \/ t \in Numbered
           /\ t = "POSITIVE_FIXNUM" => m <= 127
           /\ t = "NEGATIVE_FIXNUM" => m >= 224
           /\ t \in DOMAIN FixSize => m - Marker[t] \in 0 .. FixSize[t]
           /\ t = "BOOLEAN" => m - Marker[t] \in {0, 1}
           /\ t \in {"NIL"} \cup DOMAIN FixExtSize \cup Numbered =>
                 m = Marker[t]
<1>1. m \in 0 .. 255
  BY DEF Byte
<1>d. /\ t \in DOMAIN FixSize <=> t \in {"FIXMAP", "FIXARRAY", "FIXSTR"}
      /\ t \in DOMAIN FixExtSize <=> t \in {"FIXEXT1", "FIXEXT2", "FIXEXT4",
                                            "FIXEXT8", "FIXEXT16"}
  BY TypeSets
<1>2. CASE m <= 127
  <2>1. t = "POSITIVE_FIXNUM"
    BY <1>1, <1>2 DEF TypeOf
  <2> QED
    BY <1>2, <1>d, <2>1 DEF MarkerOnly, Numbered
<1>3. CASE m \in 128 .. 143
  <2>1. t = "FIXMAP"
    BY <1>3 DEF TypeOf
  <2> QED
    BY <1>3, <1>d, <2>1, MarkerValues DEF MarkerOnly, Numbered
<1>4. CASE m \in 144 .. 159
  <2>1. t = "FIXARRAY"
    BY <1>4 DEF TypeOf
  <2> QED
    BY <1>4, <1>d, <2>1, MarkerValues DEF MarkerOnly, Numbered
<1>5. CASE m \in 160 .. 191
  <2>1. t = "FIXSTR"
    BY <1>5 DEF TypeOf
  <2> QED
    BY <1>5, <1>d, <2>1, MarkerValues DEF MarkerOnly, Numbered
<1>6. CASE m \in {194, 195}
  <2>1. t = "BOOLEAN"
    BY <1>6 DEF TypeOf
  <2> QED
    BY <1>6, <1>d, <2>1, MarkerValues DEF MarkerOnly, Numbered
<1>7. CASE m >= 224
  <2>1. t = "NEGATIVE_FIXNUM"
    BY <1>1, <1>7 DEF TypeOf
  <2> QED
    BY <1>7, <1>d, <2>1 DEF MarkerOnly, Numbered
<1>8. CASE m = 193
  <2>1. t = "INVALID"
    BY <1>8 DEF TypeOf
  <2> QED
    BY <1>d, <2>1 DEF MarkerOnly, Numbered
<1>9. CASE m \in {192} \cup 196 .. 223
  <2>1. TypeOf(m) = CHOOSE u \in Types : Marker[u] = m
    BY <1>9 DEF TypeOf
  <2>2. \E u \in Types : Marker[u] = m
    BY <1>9, MarkersTaken
  <2>3. t \in Types /\ Marker[t] = m
    BY <2>1, <2>2
  <2>4. t \in {"NIL"} \cup DOMAIN FixExtSize \cup Numbered
    BY <1>9, <2>3 DEF Types, Marker, FixExtSize, Numbered
  <2>5. t \notin {"POSITIVE_FIXNUM", "NEGATIVE_FIXNUM", "BOOLEAN"}
        /\ t \notin DOMAIN FixSize
    BY <1>d, <2>4 DEF Numbered
  <2> QED
    BY <2>3, <2>4, <2>5 DEF MarkerOnly
<1> QED
  BY <1>1, <1>2, <1>3, <1>4, <1>5, <1>6, <1>7, <1>8, <1>9

(* A number that is read has the bytes it was read from.                   *)
LEMMA NumberLow ==
    ASSUME NEW b \in Seq(Byte), NEW q \in Nat, NEW t \in Numbered,
           q + Width[t] <= Len(b), NEW i \in 1 .. Width[t]
    PROVE  Number(t, b, q)[8 - Width[t] + i] = b[q + i]
<1>1. PICK w \in 1 .. 8 : w = Width[t]
  BY NumberedFormats
<1>2. PICK s : s = Bytes(b, q, w)
  OBVIOUS
<1>3. s \in [1 .. w -> Byte]
  BY <1>1, <1>2, BytesRead
<1>4. Len(s) = w
  BY <1>1, <1>3, ByteStringLength
<1>i. i \in 1 .. w
  BY <1>1
<1>5. s[i] = b[q + i]
  BY <1>1, <1>2, <1>i, BytesAt
<1>6. Memory(be(s)) = s
  BY <1>1, <1>3, NetworkOrder
<1>7. Number(t, b, q) = IF t \in Signed THEN SignExtend(s) ELSE ZeroExtend(s)
  BY <1>1, <1>2, <1>6 DEF Number
<1>8. PICK j \in 1 .. 8 : j = 8 - w + i /\ j - (8 - w) = i /\ ~(j <= 8 - w)
  BY <1>i
<1>9. ZeroExtend(s)[j] = s[i] /\ SignExtend(s)[j] = s[i]
  BY <1>4, <1>8 DEF ZeroExtend, SignExtend
<1> QED
  BY <1>1, <1>5, <1>7, <1>8, <1>9

(* A result of cmp_read_object that says which bytes it came from.         *)
Faithful(res, b, p) ==
    /\ Exact(res.obj) /\ Spelled(res.obj, b, p)
    /\ res.pos = p + HeaderLength(res.obj)

(* An object that ends with its marker.                                    *)
LEMMA MarkerOnlyFaithful ==
    ASSUME NEW b \in Seq(Byte), NEW p \in Nat, NEW m \in Byte, m = b[p + 1],
           TypeOf(m) \in MarkerOnly
    PROVE  Faithful(ReadMarkerOnly(m, p + 1), b, p)
<1>1. PICK t : t = TypeOf(m)
  OBVIOUS
<1>2. PICK q \in Nat : q = p + 1
  OBVIOUS
<1>3. PICK v : v = IF t = "NEGATIVE_FIXNUM" THEN SignExtend(<<m>>)
                   ELSE IF t = "POSITIVE_FIXNUM" THEN Small(m)
                   ELSE IF t = "NIL" THEN Small(0) ELSE Small(m - Marker[t])
  OBVIOUS
<1>4. PICK o : o = Object(t, v, 0)
  OBVIOUS
<1>5. o.type = t /\ o.as = v /\ o.ext = 0
  BY <1>4 DEF Object
<1>6. ReadMarkerOnly(m, q) = Read(o, q)
  BY <1>1, <1>3, <1>4 DEF ReadMarkerOnly
<1>7. t \notin ExtTypes /\ t \notin Numbered /\ t \notin Signed
  BY <1>1, TypeSets DEF ExtTypes, MarkerOnly, Signed
<1>8. HeaderLength(o) = 1 /\ NumberWidth(o.type) = 0
  <2>1. NumberWidth(o.type) = 0
    BY <1>5, <1>7 DEF NumberWidth
  <2> QED
    BY <1>5, <1>7, <2>1 DEF HeaderLength
<1>9. Exact(o) /\ MarkerByte(o) = m
  <2>1. CASE t = "POSITIVE_FIXNUM"
    <3>1. v \in Word /\ FitsUnsigned(v, 1) /\ v[8] = m /\ m <= 127
      <4>1. v = Small(m)
        BY <1>3, <2>1
      <4>2. m <= 127
        BY <1>1, <2>1, MarkerRanges
      <4> QED
        BY <4>1, <4>2, SmallWord
    <3>2. Sound(o)
      BY <1>1, <1>5, <1>7, <2>1, <3>1, TypeSets DEF Sound
    <3> QED
      BY <1>4, <1>5, <1>7, <2>1, <3>1, <3>2, TypeSets DEF Exact, MarkerByte
  <2>2. CASE t = "NEGATIVE_FIXNUM"
    <3>1. PICK s : s = <<m>>
      OBVIOUS
    <3>2. s \in [1 .. 1 -> Byte] /\ s[1] = m
      BY <3>1
    <3>3. v = SignExtend(s) /\ m >= 224
      BY <1>1, <1>3, <2>2, <3>1, MarkerRanges
    <3>4. v \in Word /\ Extended(v, 1) /\ v[8] = m
      BY <3>2, <3>3, Extensions
    <3>5. FitsNegative(v, 1)
      BY <3>3, <3>4 DEF Extended, FitsNegative, Byte
    <3>6. Sound(o)
      BY <1>1, <1>5, <1>7, <2>2, <3>4, <3>5, TypeSets DEF Sound
    <3> QED
      BY <1>4, <1>5, <1>7, <2>2, <3>3, <3>4, <3>6, TypeSets
         DEF Exact, MarkerByte
  <2>3. CASE t = "NIL"
    <3>1. 0 \in Byte
      BY DEF Byte
    <3>2. v = Small(0) /\ v \in Word
      BY <1>3, <2>3, <3>1, SmallWord
    <3>3. Sound(o)
      BY <1>1, <1>5, <1>7, <2>3, <3>2, TypeSets DEF Sound
    <3>4. m = Marker[t]
      BY <1>1, <2>3, MarkerRanges
    <3>5. t \notin DOMAIN FixSize /\ t \notin DOMAIN FixExtSize
      BY <2>3, TypeSets
    <3>6. Exact(o)
      BY <1>4, <1>5, <1>7, <2>3, <3>2, <3>3, <3>5 DEF Exact
    <3>7. MarkerByte(o) = Marker[t]
      BY <1>5, <2>3, <3>5 DEF MarkerByte
    <3> QED
      BY <3>4, <3>6, <3>7
  <2>4. CASE t \in DOMAIN FixSize
    <3>1. PICK k \in 0 .. 31, l \in 0 .. 31 :
             k = m - Marker[t] /\ l = FixSize[t] /\ k <= l
      <4>1. m - Marker[t] \in 0 .. FixSize[t]
        BY <1>1, <2>4, MarkerRanges
      <4>2. PICK l \in 0 .. 31 : l = FixSize[t]
        <5>1. FixSize[t] \in {15, 31}
          BY <2>4 DEF FixSize
        <5> QED
          BY <5>1
      <4>3. PICK k : k = m - Marker[t]
        OBVIOUS
      <4>4. k \in 0 .. l
        BY <4>1, <4>2, <4>3
      <4>5. k \in 0 .. 31 /\ k <= l
        BY <4>4
      <4> QED
        BY <4>2, <4>3, <4>5
    <3>2. k \in Byte
      BY DEF Byte
    <3>3. v = Small(k)
      BY <1>3, <2>4, <3>1, TypeSets
    <3>4. v \in Word /\ FitsUnsigned(v, 1) /\ v[8] = k
      BY <3>2, <3>3, SmallWord
    <3>5. t \notin {"POSITIVE_FIXNUM", "NEGATIVE_FIXNUM", "NIL", "BOOLEAN"}
          /\ t \notin DOMAIN FixExtSize /\ t \in Types
      BY <2>4, TypeSets
    <3>6. Sound(o)
      BY <1>5, <1>7, <3>4, <3>5 DEF Sound
    <3>7. Exact(o)
      BY <1>4, <1>5, <1>7, <3>1, <3>4, <3>5, <3>6 DEF Exact
    <3>8. MarkerByte(o) = Marker[t] + k
      BY <1>5, <2>4, <3>4, <3>5 DEF MarkerByte
    <3>9. Marker[t] \in Byte
      BY <3>5, NumberedFormats
    <3>10. PICK i \in 0 .. 255, j \in 0 .. 255 : i = Marker[t] /\ j = m
      BY <3>9 DEF Byte
    <3>11. Marker[t] + k = m
      BY <3>1, <3>10
    <3> QED
      BY <3>7, <3>8, <3>11
  <2>5. CASE t = "BOOLEAN"
    <3>1. PICK k \in {0, 1} : k = m - Marker[t]
      BY <1>1, <2>5, MarkerRanges
    <3>2. k \in Byte
      BY DEF Byte
    <3>3. v = Small(k)
      BY <1>3, <2>5, <3>1
    <3>4. v \in Word /\ v[8] = k
      BY <3>2, <3>3, SmallWord
    <3>5. t \notin DOMAIN FixSize /\ t \notin DOMAIN FixExtSize /\ t \in Types
      BY <2>5, TypeSets
    <3>6. Sound(o)
      BY <1>5, <1>7, <2>5, <3>4, <3>5 DEF Sound
    <3>7. v \in {Small(0), Small(1)}
      BY <3>3
    <3>8. Exact(o)
      BY <1>4, <1>5, <1>7, <2>5, <3>5, <3>6, <3>7 DEF Exact
    <3>9. MarkerByte(o) = Marker[t] + k
      BY <1>5, <2>5, <3>4 DEF MarkerByte
    <3>10. Marker[t] = 194
      BY <2>5, MarkerValues
    <3> QED
      BY <3>1, <3>8, <3>9, <3>10 DEF Byte
  <2> QED
    BY <1>1, <2>1, <2>2, <2>3, <2>4, <2>5, TypeSets
<1>10. Spelled(o, b, p)
  <2>1. PICK w : w = 0 /\ w = NumberWidth(o.type)
    BY <1>8
  <2>2. \A i \in 1 .. w : b[p + 1 + i] = o.as[8 - w + i]
    BY <2>1
  <2>3. o.type \in ExtTypes => b[p + 2 + w] = o.ext
    BY <1>5, <1>7
  <2> QED
    BY <1>9, <2>1, <2>2, <2>3, SpelledIf
<1> QED
  BY <1>2, <1>6, <1>8, <1>9, <1>10 DEF Faithful, Read

(* An object of a format with a number or a size.                          *)
LEMMA NumberedFaithful ==
    ASSUME NEW b \in Seq(Byte), NEW p \in Nat, NEW t \in Numbered,
           b[p + 1] = Marker[t], p + 1 + Width[t] <= Len(b),
           NEW x, IF t \in ExtTypes THEN x \in Byte /\ x = b[p + Width[t] + 2]
                  ELSE x = 0,
           NEW o, o = Object(t, Number(t, b, p + 1), x)
    PROVE  Exact(o) /\ Spelled(o, b, p)
<1>1. PICK q \in Nat : q = p + 1
  OBVIOUS
<1>2. PICK v : v = Number(t, b, q)
  OBVIOUS
<1>3. PICK w \in 1 .. 8 : w = Width[t]
  BY NumberedFormats
<1>4. o = Object(t, v, x) /\ o.type = t /\ o.as = v /\ o.ext = x
  BY <1>1, <1>2 DEF Object
<1>5. Sound(o)
  <2>1. q + Width[t] <= Len(b)
    BY <1>1
  <2> QED
    BY <1>2, <1>4, <2>1, NumberSound
<1>6. /\ t \notin {"POSITIVE_FIXNUM", "NEGATIVE_FIXNUM", "NIL", "BOOLEAN"}
      /\ t \notin DOMAIN FixSize /\ t \notin DOMAIN FixExtSize
  BY TypeSets DEF MarkerOnly
<1>7. Exact(o)
  BY <1>4, <1>5, <1>6 DEF Exact
<1>8. MarkerByte(o) = b[p + 1]
  BY <1>4, <1>6 DEF MarkerByte
<1>9. w = NumberWidth(o.type)
  BY <1>3, <1>4 DEF NumberWidth
<1>10. ASSUME NEW i \in 1 .. w PROVE b[p + 1 + i] = o.as[8 - w + i]
  <2>1. q + Width[t] <= Len(b) /\ i \in 1 .. Width[t]
    BY <1>1, <1>3
  <2>2. v[8 - Width[t] + i] = b[q + i]
    BY <1>2, <2>1, NumberLow
  <2> QED
    BY <1>1, <1>3, <1>4, <2>2
<1>11. o.type \in ExtTypes => b[p + 2 + w] = o.ext
  <2>1. \A a \in Nat, c \in Nat : a + 2 + c = a + c + 2
    OBVIOUS
  <2>2. w \in Nat
    OBVIOUS
  <2>3. p + 2 + w = p + w + 2
    BY <2>1, <2>2, Zenon
  <2> QED
    BY <1>3, <1>4, <2>3
<1> QED
  BY <1>7, <1>8, <1>9, <1>10, <1>11, SpelledIf

(* What cmp_read_object returns are the bytes it read, however they came.  *)
LEMMA ReadIsFaithful ==
    ASSUME NEW b \in Seq(Byte), NEW p \in Nat, cmp_read_object(b, p).ok
    PROVE  Faithful(cmp_read_object(b, p), b, p)
<1>0. PICK n \in Nat : n = Len(b)
  BY LenProperties
<1>1. PICK res : res = cmp_read_object(b, p) /\ res.ok
  OBVIOUS
<1>f. \A err, q : ~Failed(err, q).ok
  BY DEF Failed
<1>2. p + 1 <= n /\ CanRead(b, p, 1)
  BY <1>0, <1>1, <1>f DEF cmp_read_object, CanRead
<1>3. PICK m \in Byte : m = b[p + 1]
  BY <1>0, <1>2, ElementOfSeq
<1>4. PICK t : t = TypeOf(m)
  OBVIOUS
<1>5. PICK q \in Nat : q = p + 1
  OBVIOUS
<1>6. /\ t = "INVALID" => res = Failed("INVALID_TYPE", q)
      /\ t \in MarkerOnly => res = ReadMarkerOnly(m, q)
      /\ t \in {"EXT8", "EXT16", "EXT32"} => res = ReadExt(t, b, q)
      /\ t \in DOMAIN FixExtSize => res = ReadFixExt(t, b, q)
      /\ t \in Numbered \ {"EXT8", "EXT16", "EXT32"} =>
            \E e : res = ReadNumber(t, b, q, e)
  BY <1>1, <1>2, <1>3, <1>4, <1>5, ReadByType
<1>7. t \in MarkerOnly \/ t \in DOMAIN FixExtSize \/ t \in Numbered
  BY <1>1, <1>4, <1>6, <1>f, MarkerRanges
<1>8. CASE t \in MarkerOnly
  BY <1>1, <1>3, <1>4, <1>5, <1>6, <1>8, MarkerOnlyFaithful
<1>9. CASE t \in Numbered
  <2>1. PICK w \in 1 .. 8 : w = Width[t]
    BY <1>9, NumberedFormats
  <2>2. Marker[t] = m
    BY <1>4, <1>9, MarkerRanges
  <2>3. NumberWidth(t) = w
    BY <1>9, <2>1 DEF NumberWidth
  <2>4. CASE t \in {"EXT8", "EXT16", "EXT32"}
    <3>1. q + w + 1 <= n
      BY <1>0, <1>1, <1>6, <1>f, <2>1, <2>4 DEF ReadExt, CanRead
    <3>2. q + w <= n
      BY <3>1
    <3>3. PICK x : x = b[q + w + 1]
      OBVIOUS
    <3>4. PICK o : o = Object(t, Number(t, b, q), x)
      OBVIOUS
    <3>5. res = Read(o, q + w + 1)
      BY <1>0, <1>6, <2>1, <2>4, <3>1, <3>2, <3>3, <3>4 DEF ReadExt, CanRead
    <3>6. x \in Byte
      BY <1>0, <3>1, <3>3, ElementOfSeq
    <3>7. x = b[p + w + 2] /\ p + 1 + w <= Len(b)
      <4>1. q + w + 1 = p + w + 2 /\ p + 1 + w <= Len(b)
        BY <1>0, <1>5, <3>2
      <4> QED
        BY <3>3, <4>1
    <3>8. t \in ExtTypes
      BY <2>4 DEF ExtTypes
    <3>9. Exact(o) /\ Spelled(o, b, p)
      BY <1>3, <1>5, <1>9, <2>1, <2>2, <3>4, <3>6, <3>7, <3>8,
         NumberedFaithful
    <3>10. o.type = t
      BY <3>4 DEF Object
    <3>11. HeaderLength(o) = 1 + w + 1
      BY <2>3, <3>8, <3>10 DEF HeaderLength
    <3>12. p + HeaderLength(o) = q + w + 1
      BY <1>5, <3>11
    <3> QED
      BY <1>1, <3>5, <3>9, <3>12 DEF Faithful, Read
  <2>5. CASE t \notin {"EXT8", "EXT16", "EXT32"}
    <3>1. PICK e : res = ReadNumber(t, b, q, e)
      BY <1>6, <1>9, <2>5
    <3>2. q + w <= n
      BY <1>0, <1>1, <1>f, <2>1, <3>1 DEF ReadNumber, CanRead
    <3>3. PICK o : o = Object(t, Number(t, b, q), 0)
      OBVIOUS
    <3>4. res = Read(o, q + w)
      BY <1>0, <2>1, <3>1, <3>2, <3>3 DEF ReadNumber, CanRead
    <3>5. t \notin ExtTypes
      BY <1>9, <2>5, TypeSets DEF ExtTypes
    <3>6. p + 1 + w <= Len(b)
      BY <1>0, <1>5, <3>2
    <3>7. Exact(o) /\ Spelled(o, b, p)
      BY <1>3, <1>5, <1>9, <2>1, <2>2, <3>3, <3>5, <3>6, NumberedFaithful
    <3>8. o.type = t
      BY <3>3 DEF Object
    <3>9. HeaderLength(o) = 1 + w
      BY <2>3, <3>5, <3>8 DEF HeaderLength
    <3>10. p + HeaderLength(o) = q + w
      BY <1>5, <3>9
    <3> QED
      BY <1>1, <3>4, <3>7, <3>10 DEF Faithful, Read
  <2> QED
    BY <2>4, <2>5
<1>10. CASE t \in DOMAIN FixExtSize
  <2>1. q + 1 <= n
    BY <1>0, <1>1, <1>6, <1>10, <1>f DEF ReadFixExt, CanRead
  <2>2. PICK x \in Byte : x = b[q + 1]
    BY <1>0, <2>1, ElementOfSeq
  <2>3. PICK k \in Byte : k = FixExtSize[t]
    <3>1. FixExtSize[t] \in {1, 2, 4, 8, 16}
      BY <1>10 DEF FixExtSize
    <3>2. {1, 2, 4, 8, 16} \subseteq Byte
      BY DEF Byte
    <3> QED
      BY <3>1, <3>2
  <2>4. PICK o : o = Object(t, Small(k), x)
    OBVIOUS
  <2>5. o.type = t /\ o.as = Small(k) /\ o.ext = x
    BY <2>4 DEF Object
  <2>6. res = Read(o, q + 1)
    BY <1>0, <1>6, <1>10, <2>1, <2>2, <2>3, <2>4 DEF ReadFixExt, CanRead
  <2>7. /\ t \notin {"POSITIVE_FIXNUM", "NEGATIVE_FIXNUM", "NIL", "BOOLEAN"}
        /\ t \notin DOMAIN FixSize /\ t \notin Numbered /\ t \in Types
        /\ t \in ExtTypes
    BY <1>10, TypeSets DEF ExtTypes
  <2>8. t \notin Signed
    BY <2>7 DEF Signed, Numbered
  <2>9. Sound(o)
    BY <2>5, <2>7, <2>8, SmallWord DEF Sound
  <2>10. Exact(o)
    BY <1>10, <2>3, <2>4, <2>5, <2>7, <2>9 DEF Exact
  <2>11. MarkerByte(o) = b[p + 1]
    <3>1. Marker[t] = m
      BY <1>4, <1>10, MarkerRanges
    <3> QED
      BY <1>3, <2>5, <2>7, <3>1 DEF MarkerByte
  <2>12. NumberWidth(o.type) = 0
    BY <2>5, <2>7 DEF NumberWidth
  <2>13. HeaderLength(o) = 2
    BY <2>5, <2>7, <2>12 DEF HeaderLength
  <2>14. Spelled(o, b, p)
    <3>1. PICK w : w = 0 /\ w = NumberWidth(o.type)
      BY <2>12
    <3>2. \A i \in 1 .. w : b[p + 1 + i] = o.as[8 - w + i]
      BY <3>1
    <3>3. b[p + 2 + w] = o.ext
      <4>1. p + 2 + w = q + 1
        BY <1>5, <3>1
      <4> QED
        BY <2>2, <2>5, <4>1
    <3> QED
      BY <2>10, <2>11, <3>1, <3>2, <3>3, SpelledIf
  <2>15. p + HeaderLength(o) = q + 1
    BY <1>5, <2>13
  <2> QED
    BY <1>1, <2>6, <2>10, <2>14, <2>15 DEF Faithful, Read
<1> QED
  BY <1>7, <1>8, <1>9, <1>10
-----------------------------------------------------------------------------
(* Writers: the object that each of them writes.                           *)

(* A writer that accepts its argument and writes the bytes b.              *)
Puts(w, b) ==
    /\ w.error = "NONE" /\ w.calls \in Seq(WriteCall)
    /\ Flat(w.calls) = b

(* A single call.                                                          *)
LEMMA PutsOne ==
    ASSUME NEW d \in Seq(Byte), NEW e \in WriteErrors
    PROVE  Puts(Emit(<<Call(d, e)>>), d)
<1>1. PICK c : c = Call(d, e)
  OBVIOUS
<1>2. c \in WriteCall /\ c.data = d
  BY <1>1 DEF Call, WriteCall
<1>3. PICK s : s = <<c>>
  OBVIOUS
<1>4. s \in Seq(WriteCall)
  BY <1>2, <1>3
<1>5. Flat(s) = d
  BY <1>2, <1>3, FlatShort
<1> QED
  BY <1>1, <1>3, <1>4, <1>5 DEF Puts, Emit

(* A further call.                                                         *)
LEMMA PutsThen ==
    ASSUME NEW w, NEW a, Puts(w, a), NEW s \in Seq(WriteCall)
    PROVE  Puts(Then(w, s), a \o Flat(s))
<1>1. PICK c \in Seq(WriteCall) : c = w.calls
  BY DEF Puts
<1>2. PICK u : u = c \o s
  OBVIOUS
<1>3. u \in Seq(WriteCall)
  BY <1>2, ConcatProperties
<1>4. Flat(u) = Flat(c) \o Flat(s)
  BY <1>2, FlatConcat
<1>5. Flat(c) = a
  BY <1>1 DEF Puts
<1>6. Then(w, s) = Emit(u)
  BY <1>1, <1>2 DEF Then, Puts
<1> QED
  BY <1>3, <1>4, <1>5, <1>6 DEF Puts, Emit

(* The calls of one writer after those of another.                         *)
LEMMA PutsMore ==
    ASSUME NEW w, NEW a, Puts(w, a), NEW d \in Seq(Byte),
           NEW e \in WriteErrors
    PROVE  Puts(Then(w, <<Call(d, e)>>), a \o d)
<1>1. PICK c : c = Call(d, e)
  OBVIOUS
<1>2. c \in WriteCall /\ c.data = d
  BY <1>1 DEF Call, WriteCall
<1>3. PICK s : s = <<c>>
  OBVIOUS
<1>4. s \in Seq(WriteCall)
  BY <1>2, <1>3
<1>5. Flat(s) = d
  BY <1>2, <1>3, FlatShort
<1>6. Puts(Then(w, s), a \o Flat(s))
  BY <1>4, PutsThen
<1> QED
  BY <1>1, <1>3, <1>5, <1>6

(* A marker.                                                               *)
LEMMA PutsMarker ==
    ASSUME NEW m \in Byte
    PROVE  /\ Puts(write_type_marker(m), <<m>>)
           /\ Puts(write_fixed_value(m), <<m>>)
<1>1. PICK d \in Seq(Byte) : d = <<m>>
  BY OneByte
<1>2. /\ Puts(Emit(<<Call(d, "TYPE_MARKER_WRITING")>>), d)
      /\ Puts(Emit(<<Call(d, "FIXED_VALUE_WRITING")>>), d)
  BY PutsOne DEF WriteErrors
<1> QED
  BY <1>1, <1>2 DEF write_type_marker, write_fixed_value

(* What goes over the wire of a number are its low bytes.                  *)
LEMMA PayloadLow ==
    ASSUME NEW v \in Word, NEW k \in 1 .. 8
    PROVE  Payload(v, k) = Low(v, k)
<1>1. Low(v, k) = [i \in 1 .. k |-> v[8 - k + i]]
  BY LowBytes
<1>2. \A i \in 1 .. k : v[8 - k + i] \in Byte
  BY DEF Word
<1>3. Low(v, k) \in [1 .. k -> Byte]
  BY <1>1, <1>2
<1> QED
  BY <1>3, NetworkOrder DEF Payload

(* A marker and a number.                                                  *)
LEMMA PutsNumber ==
    ASSUME NEW t \in Numbered, NEW v \in Word
    PROVE  /\ Puts(SizeMarker(t, v), <<Marker[t]>> \o Low(v, Width[t]))
           /\ Puts(cmp_write_u(t, v), <<Marker[t]>> \o Low(v, Width[t]))
           /\ Puts(cmp_write_s(t, v), <<Marker[t]>> \o Low(v, Width[t]))
           /\ Puts(cmp_write_real(t, v), <<Marker[t]>> \o Low(v, Width[t]))
<1>1. PICK m \in Byte, k \in 1 .. 8 : m = Marker[t] /\ k = Width[t]
  BY NumberedFormats
<1>2. PICK w : w = write_type_marker(m)
  OBVIOUS
<1>3. PICK a : a = <<m>> /\ Puts(w, a)
  BY <1>2, PutsMarker
<1>4. PICK d \in Seq(Byte) : d = Payload(v, k) /\ d = Low(v, k)
  BY PayloadBytes, PayloadLow
<1>5. /\ Puts(Then(w, <<Call(d, "NONE")>>), a \o d)
      /\ Puts(Then(w, <<Call(d, "LENGTH_WRITING")>>), a \o d)
  BY <1>3, PutsMore DEF WriteErrors
<1> QED
  BY <1>1, <1>2, <1>3, <1>4, <1>5
     DEF SizeMarker, cmp_write_u, cmp_write_s, cmp_write_real

(* A marker and a type byte, and both with a size between them.            *)
LEMMA PutsExt ==
    ASSUME NEW x \in Byte
    PROVE  /\ \A t \in DOMAIN FixExtSize :
                 Puts(cmp_write_fixext_marker(t, x), <<Marker[t]>> \o <<x>>)
           /\ \A t \in {"EXT8", "EXT16", "EXT32"}, v \in Word :
                 Puts(cmp_write_ext_marker_as(t, x, v),
                      (<<Marker[t]>> \o Low(v, Width[t])) \o <<x>>)
<1>1. PICK d \in Seq(Byte) : d = <<x>>
  BY OneByte
<1>2. ASSUME NEW t \in DOMAIN FixExtSize
      PROVE  Puts(cmp_write_fixext_marker(t, x), <<Marker[t]>> \o <<x>>)
  <2>1. PICK m \in Byte : m = Marker[t]
    BY TypeSets, NumberedFormats
  <2>2. PICK w : w = write_type_marker(m)
    OBVIOUS
  <2>3. PICK a : a = <<m>> /\ Puts(w, a)
    BY <2>2, PutsMarker
  <2>4. Puts(Then(w, <<Call(d, "EXT_TYPE_WRITING")>>), a \o d)
    BY <2>3, PutsMore DEF WriteErrors
  <2> QED
    BY <1>1, <2>1, <2>2, <2>3, <2>4 DEF cmp_write_fixext_marker
<1>3. ASSUME NEW t \in {"EXT8", "EXT16", "EXT32"}, NEW v \in Word
      PROVE  Puts(cmp_write_ext_marker_as(t, x, v),
                  (<<Marker[t]>> \o Low(v, Width[t])) \o <<x>>)
  <2>1. PICK w : w = SizeMarker(t, v)
    OBVIOUS
  <2>2. t \in Numbered
    BY DEF Numbered
  <2>3. PICK a : a = <<Marker[t]>> \o Low(v, Width[t]) /\ Puts(w, a)
    BY <2>1, <2>2, PutsNumber
  <2>4. Puts(Then(w, <<Call(d, "EXT_TYPE_WRITING")>>), a \o d)
    BY <2>3, PutsMore DEF WriteErrors
  <2> QED
    BY <1>1, <2>1, <2>3, <2>4 DEF cmp_write_ext_marker_as
<1> QED
  BY <1>2, <1>3

(* The bytes of an object, by its kind.                                    *)
LEMMA EncodedShort ==
    ASSUME NEW o, Exact(o), NEW t, t = o.type, NEW m, m = MarkerByte(o)
    PROVE  /\ t \in MarkerOnly => Encoded(o) = <<m>>
           /\ t \in Numbered \ ExtTypes =>
                 Encoded(o) = <<m>> \o Low(o.as, Width[t])
           /\ t \in DOMAIN FixExtSize => Encoded(o) = <<m>> \o <<o.ext>>
<1>1. m \in Byte
  BY MarkerTellsType
<1>2. PICK a \in Seq(Byte) : a = <<m>>
  BY <1>1, OneByte
<1>3. \A s \in Seq(Byte) : s \o <<>> = s
  BY ConcatEmptySeq
<1>4. t \in MarkerOnly => t \notin Numbered /\ t \notin ExtTypes
  BY TypeSets DEF ExtTypes, MarkerOnly
<1>5. t \in MarkerOnly => Encoded(o) = a
  <2> SUFFICES ASSUME t \in MarkerOnly PROVE Encoded(o) = a
    OBVIOUS
  <2>1. Encoded(o) = (a \o <<>>) \o <<>>
    BY <1>2, <1>4 DEF Encoded, NumberBytes, ExtBytes
  <2> QED
    BY <1>3, <2>1
<1>6. t \in Numbered \ ExtTypes => Encoded(o) = a \o Low(o.as, Width[t])
  <2> SUFFICES ASSUME t \in Numbered \ ExtTypes
               PROVE  Encoded(o) = a \o Low(o.as, Width[t])
    OBVIOUS
  <2>1. PICK v \in Word, k \in 1 .. 8 : v = o.as /\ k = Width[t]
    BY NumberedFormats DEF Exact, Sound
  <2>2. PICK d \in Seq(Byte) : d = Low(v, k)
    BY PayloadBytes, PayloadLow
  <2>3. Encoded(o) = (a \o d) \o <<>>
    BY <1>2, <2>1, <2>2 DEF Encoded, NumberBytes, ExtBytes
  <2>4. PICK c \in Seq(Byte) : c = a \o d
    BY ConcatProperties
  <2> QED
    BY <1>3, <2>1, <2>2, <2>3, <2>4
<1>7. t \in DOMAIN FixExtSize => Encoded(o) = a \o <<o.ext>>
  <2> SUFFICES ASSUME t \in DOMAIN FixExtSize PROVE Encoded(o) = a \o <<o.ext>>
    OBVIOUS
  <2>1. t \notin Numbered /\ t \in ExtTypes
    BY TypeSets DEF ExtTypes
  <2>2. Encoded(o) = (a \o <<>>) \o <<o.ext>>
    BY <1>2, <2>1 DEF Encoded, NumberBytes, ExtBytes
  <2> QED
    BY <1>3, <2>2
<1> QED
  BY <1>2, <1>5, <1>6, <1>7

(* The branches of cmp_write_object.                                       *)
LEMMA WriteByType ==
    ASSUME NEW o, NEW t, t = o.type, NEW w, w = cmp_write_object(o)
    PROVE  /\ t = "POSITIVE_FIXNUM" => w = cmp_write_pfix(o.as[8])
           /\ t = "NEGATIVE_FIXNUM" => w = cmp_write_nfix(o.as[8])
           /\ t \in DOMAIN FixSize => w = FixMarker(t, o.as)
           /\ t = "BOOLEAN" => w = cmp_write_bool(o.as[8])
           /\ t \in {"EXT8", "EXT16", "EXT32"} =>
                 w = cmp_write_ext_marker_as(t, o.ext, o.as)
           /\ t \in DOMAIN FixExtSize => w = cmp_write_fixext_marker(t, o.ext)
           /\ t \in Numbered \ ExtTypes =>
                 \/ w = SizeMarker(t, o.as) \/ w = cmp_write_u(t, o.as)
                 \/ w = cmp_write_s(t, o.as) \/ w = cmp_write_real(t, o.as)
<1>1. w =
    CASE t = "POSITIVE_FIXNUM" -> cmp_write_pfix(o.as[8])
      [] t = "NEGATIVE_FIXNUM" -> cmp_write_nfix(o.as[8])
      [] t \in DOMAIN FixSize -> FixMarker(t, o.as)
      [] t = "NIL" -> cmp_write_nil
      [] t = "BOOLEAN" -> cmp_write_bool(o.as[8])
      [] t \in {"EXT8", "EXT16", "EXT32"} ->
            cmp_write_ext_marker_as(t, o.ext, o.as)
      [] t \in DOMAIN FixExtSize -> cmp_write_fixext_marker(t, o.ext)
      [] t \in Signed -> cmp_write_s(t, o.as)
      [] t \in {"UINT8", "UINT16", "UINT32", "UINT64"} -> cmp_write_u(t, o.as)
      [] t \in {"FLOAT", "DOUBLE"} -> cmp_write_real(t, o.as)
      [] t \in {"BIN8", "BIN16", "BIN32", "STR8", "STR16", "STR32",
                "ARRAY16", "ARRAY32", "MAP16", "MAP32"} ->
            SizeMarker(t, o.as)
      [] OTHER -> Refuse("INVALID_TYPE")
  BY Zenon DEF cmp_write_object
<1>2. t = "POSITIVE_FIXNUM" => w = cmp_write_pfix(o.as[8])
  BY <1>1, TypeSets DEF Signed
<1>3. t = "NEGATIVE_FIXNUM" => w = cmp_write_nfix(o.as[8])
  BY <1>1, TypeSets DEF Signed
<1>4. t \in DOMAIN FixSize => w = FixMarker(t, o.as)
  BY <1>1, TypeSets DEF Signed
<1>6. t = "BOOLEAN" => w = cmp_write_bool(o.as[8])
  BY <1>1, TypeSets DEF Signed
<1>7. t \in {"EXT8", "EXT16", "EXT32"} =>
         w = cmp_write_ext_marker_as(t, o.ext, o.as)
  BY <1>1, TypeSets DEF Signed
<1>8. t \in DOMAIN FixExtSize => w = cmp_write_fixext_marker(t, o.ext)
  BY <1>1, TypeSets DEF Signed
<1>9. t \in Numbered \ ExtTypes =>
         \/ w = SizeMarker(t, o.as) \/ w = cmp_write_u(t, o.as)
         \/ w = cmp_write_s(t, o.as) \/ w = cmp_write_real(t, o.as)
  BY <1>1, TypeSets DEF Signed, Numbered, ExtTypes
<1> QED
  BY <1>2, <1>3, <1>4, <1>6, <1>7, <1>8, <1>9

(* cmp_write_object of the value nil.                                      *)
LEMMA WriteNil ==
    ASSUME NEW o, o.type = "NIL"
    PROVE  cmp_write_object(o) = write_type_marker(Marker["NIL"])
<1>1. /\ o.type \notin {"POSITIVE_FIXNUM", "NEGATIVE_FIXNUM", "BOOLEAN"}
      /\ o.type \notin DOMAIN FixSize /\ o.type \notin DOMAIN FixExtSize
      /\ o.type \notin Numbered
  BY TypeSets DEF MarkerOnly
<1> QED
  BY <1>1 DEF cmp_write_object, cmp_write_nil, Signed, Numbered

(* An object is written in the bytes it is read from.                      *)
LEMMA ObjectPuts ==
    ASSUME NEW o, Exact(o)
    PROVE  Puts(cmp_write_object(o), Encoded(o))
<1>1. PICK t \in Types, v \in Word, x \in {o.ext} :
         t = o.type /\ v = o.as /\ x = o.ext
  BY DEF Exact, Sound
<1>2. PICK w : w = cmp_write_object(o)
  OBVIOUS
<1>3. PICK m \in Byte : m = MarkerByte(o)
  BY MarkerTellsType
<1>4. Puts(write_type_marker(m), <<m>>) /\ Puts(write_fixed_value(m), <<m>>)
  BY PutsMarker
<1>5. CASE t \in MarkerOnly
  <2>1. Encoded(o) = <<m>>
    BY <1>1, <1>3, <1>5, EncodedShort
  <2>2. w = write_type_marker(m) \/ w = write_fixed_value(m)
    <3>1. CASE t = "POSITIVE_FIXNUM"
      <4>1. m = v[8] /\ v[8] <= 127
        BY <1>1, <1>3, <3>1 DEF MarkerByte, Exact, Sound
      <4>2. w = cmp_write_pfix(v[8])
        BY <1>1, <1>2, <3>1, WriteByType
      <4> QED
        BY <4>1, <4>2 DEF cmp_write_pfix
    <3>2. CASE t = "NEGATIVE_FIXNUM"
      <4>1. m = v[8] /\ v[8] >= 224
        BY <1>1, <1>3, <3>2 DEF MarkerByte, Exact
      <4>2. w = cmp_write_nfix(v[8])
        BY <1>1, <1>2, <3>2, WriteByType
      <4> QED
        BY <4>1, <4>2 DEF cmp_write_nfix
    <3>3. CASE t \in DOMAIN FixSize
      <4>1. t \notin {"POSITIVE_FIXNUM", "NEGATIVE_FIXNUM"}
        BY <3>3, TypeSets
      <4>2. m = Marker[t] + v[8]
        BY <1>1, <1>3, <3>3, <4>1 DEF MarkerByte
      <4>3. FitsUnsigned(v, 1) /\ v[8] <= FixSize[t]
        BY <1>1, <3>3 DEF Exact
      <4>4. w = FixMarker(t, v)
        BY <1>1, <1>2, <3>3, WriteByType
      <4> QED
        BY <4>2, <4>3, <4>4 DEF FixMarker
    <3>4. CASE t = "NIL"
      <4>1. m = Marker[t]
        <5>1. t \notin {"POSITIVE_FIXNUM", "NEGATIVE_FIXNUM"}
              /\ t \notin DOMAIN FixSize \cup {"BOOLEAN"}
          BY <3>4, TypeSets
        <5> QED
          BY <1>1, <1>3, <5>1 DEF MarkerByte
      <4>2. w = write_type_marker(Marker["NIL"])
        BY <1>1, <1>2, <3>4, WriteNil
      <4> QED
        BY <3>4, <4>1, <4>2
    <3>5. CASE t = "BOOLEAN"
      <4>1. m = Marker[t] + v[8]
        BY <1>1, <1>3, <3>5, TypeSets DEF MarkerByte
      <4>2. 0 \in Byte /\ 1 \in Byte
        BY DEF Byte
      <4>3. v[8] = 0 \/ v[8] = 1
        BY <1>1, <3>5, <4>2, SmallWord DEF Exact
      <4>4. w = cmp_write_bool(v[8])
        BY <1>1, <1>2, <3>5, WriteByType
      <4> QED
        BY <3>5, <4>1, <4>3, <4>4 DEF cmp_write_bool
    <3> QED
      BY <1>5, <3>1, <3>2, <3>3, <3>4, <3>5, TypeSets
  <2> QED
    BY <1>2, <1>4, <2>1, <2>2
<1>6. CASE t \in Numbered
  <2>1. m = Marker[t]
    <3>1. t \notin {"POSITIVE_FIXNUM", "NEGATIVE_FIXNUM"}
          /\ t \notin DOMAIN FixSize \cup {"BOOLEAN"}
      BY <1>6, TypeSets
    <3> QED
      BY <1>1, <1>3, <3>1 DEF MarkerByte
  <2>2. CASE t \in ExtTypes
    <3>1. t \in {"EXT8", "EXT16", "EXT32"}
      BY <1>6, <2>2, TypeSets DEF ExtTypes
    <3>2. x \in Byte
      BY <1>1, <2>2 DEF Exact
    <3>3. w = cmp_write_ext_marker_as(t, x, v)
      BY <1>1, <1>2, <3>1, WriteByType
    <3>4. Encoded(o) = (<<m>> \o Low(v, Width[t])) \o <<x>>
      BY <1>1, <1>3, <1>6, <2>2 DEF Encoded, NumberBytes, ExtBytes
    <3> QED
      BY <1>2, <2>1, <3>1, <3>2, <3>3, <3>4, PutsExt
  <2>3. CASE t \notin ExtTypes
    <3>1. Encoded(o) = <<m>> \o Low(v, Width[t])
      BY <1>1, <1>3, <1>6, <2>3, EncodedShort
    <3>2. \/ w = SizeMarker(t, v) \/ w = cmp_write_u(t, v)
          \/ w = cmp_write_s(t, v) \/ w = cmp_write_real(t, v)
      BY <1>1, <1>2, <1>6, <2>3, WriteByType
    <3> QED
      BY <1>2, <1>6, <2>1, <3>1, <3>2, PutsNumber
  <2> QED
    BY <2>2, <2>3
<1>7. CASE t \in DOMAIN FixExtSize
  <2>1. m = Marker[t]
    <3>1. t \notin {"POSITIVE_FIXNUM", "NEGATIVE_FIXNUM"}
          /\ t \notin DOMAIN FixSize \cup {"BOOLEAN"}
      BY <1>7, TypeSets
    <3> QED
      BY <1>1, <1>3, <3>1 DEF MarkerByte
  <2>2. x \in Byte
    BY <1>1, <1>7 DEF Exact, ExtTypes
  <2>3. w = cmp_write_fixext_marker(t, x)
    BY <1>1, <1>2, <1>7, WriteByType
  <2>4. Encoded(o) = <<m>> \o <<x>>
    BY <1>1, <1>3, <1>7, EncodedShort
  <2> QED
    BY <1>2, <1>7, <2>1, <2>2, <2>3, <2>4, PutsExt
<1> QED
  BY <1>5, <1>6, <1>7, TypeSets

(* A number or a size behind its marker.                                   *)
LEMMA NumberObject ==
    ASSUME NEW t \in Numbered \ ExtTypes, NEW v \in Word,
           IF t \in Signed THEN Extended(v, Width[t])
           ELSE FitsUnsigned(v, Width[t]),
           NEW o, o = Object(t, v, 0)
    PROVE  /\ Exact(o)
           /\ Puts(SizeMarker(t, v), Encoded(o))
           /\ Puts(cmp_write_u(t, v), Encoded(o))
           /\ Puts(cmp_write_s(t, v), Encoded(o))
           /\ Puts(cmp_write_real(t, v), Encoded(o))
<1>1. o.type = t /\ o.as = v /\ o.ext = 0
  BY DEF Object
<1>2. /\ t \notin {"POSITIVE_FIXNUM", "NEGATIVE_FIXNUM", "NIL", "BOOLEAN"}
      /\ t \notin DOMAIN FixSize /\ t \notin DOMAIN FixExtSize /\ t \in Types
  BY TypeSets DEF MarkerOnly
<1>3. Sound(o)
  BY <1>1, <1>2 DEF Sound
<1>4. Exact(o)
  BY <1>1, <1>2, <1>3 DEF Exact
<1>5. MarkerByte(o) = Marker[t]
  BY <1>1, <1>2 DEF MarkerByte
<1>6. Encoded(o) = <<Marker[t]>> \o Low(v, Width[t])
  <2>1. PICK m : m = MarkerByte(o)
    OBVIOUS
  <2>2. Encoded(o) = <<m>> \o Low(o.as, Width[t])
    BY <1>1, <1>4, <2>1, EncodedShort
  <2> QED
    BY <1>1, <1>5, <2>1, <2>2
<1> QED
  BY <1>4, <1>6, PutsNumber

(* A small size in its marker.                                             *)
LEMMA FixObject ==
    ASSUME NEW t \in DOMAIN FixSize, NEW v \in Word, FitsUnsigned(v, 1),
           v[8] <= FixSize[t], NEW o, o = Object(t, v, 0)
    PROVE  Exact(o) /\ Puts(FixMarker(t, v), Encoded(o))
<1>1. o.type = t /\ o.as = v /\ o.ext = 0
  BY DEF Object
<1>2. /\ t \notin {"POSITIVE_FIXNUM", "NEGATIVE_FIXNUM", "NIL", "BOOLEAN"}
      /\ t \notin DOMAIN FixExtSize /\ t \in Types /\ t \in MarkerOnly
      /\ t \notin Numbered
  BY TypeSets
<1>3. t \notin ExtTypes /\ t \notin Signed
  BY <1>2 DEF ExtTypes, Signed, Numbered
<1>4. Sound(o)
  BY <1>1, <1>2, <1>3 DEF Sound
<1>5. Exact(o)
  BY <1>1, <1>2, <1>3, <1>4 DEF Exact
<1>6. cmp_write_object(o) = FixMarker(t, v)
  BY <1>1, WriteByType
<1> QED
  BY <1>5, <1>6, ObjectPuts

(* A small number in its marker.                                           *)
LEMMA FixnumObject ==
    ASSUME NEW v \in Word
    PROVE  /\ FitsUnsigned(v, 1) /\ v[8] <= 127 =>
                 LET o == Object("POSITIVE_FIXNUM", v, 0) IN
                 Exact(o) /\ Puts(cmp_write_pfix(v[8]), Encoded(o))
           /\ FitsNegative(v, 1) /\ v[8] >= 224 =>
                 LET o == Object("NEGATIVE_FIXNUM", v, 0) IN
                 Exact(o) /\ Puts(cmp_write_nfix(v[8]), Encoded(o))
<1>1. ASSUME NEW t \in {"POSITIVE_FIXNUM", "NEGATIVE_FIXNUM"},
             t = "POSITIVE_FIXNUM" => FitsUnsigned(v, 1) /\ v[8] <= 127,
             t = "NEGATIVE_FIXNUM" => FitsNegative(v, 1) /\ v[8] >= 224,
             NEW o, o = Object(t, v, 0)
      PROVE  Exact(o)
  <2>1. o.type = t /\ o.as = v /\ o.ext = 0
    BY <1>1 DEF Object
  <2>2. /\ t \notin DOMAIN FixSize /\ t \notin DOMAIN FixExtSize
        /\ t \in Types /\ t \in MarkerOnly /\ t \notin Numbered
    BY TypeSets
  <2>3. t \notin ExtTypes /\ t \notin Signed
    BY <2>2 DEF ExtTypes, Signed, Numbered
  <2>4. Sound(o)
    BY <1>1, <2>1, <2>2, <2>3 DEF Sound
  <2> QED
    BY <1>1, <2>1, <2>2, <2>3, <2>4 DEF Exact
<1>2. ASSUME FitsUnsigned(v, 1), v[8] <= 127,
             NEW o, o = Object("POSITIVE_FIXNUM", v, 0)
      PROVE  Exact(o) /\ Puts(cmp_write_pfix(v[8]), Encoded(o))
  <2>1. Exact(o)
    BY <1>1, <1>2
  <2>2. cmp_write_object(o) = cmp_write_pfix(v[8])
    <3>1. o.type = "POSITIVE_FIXNUM" /\ o.as = v
      BY <1>2 DEF Object
    <3> QED
      BY <3>1, WriteByType
  <2> QED
    BY <2>1, <2>2, ObjectPuts
<1>3. ASSUME FitsNegative(v, 1), v[8] >= 224,
             NEW o, o = Object("NEGATIVE_FIXNUM", v, 0)
      PROVE  Exact(o) /\ Puts(cmp_write_nfix(v[8]), Encoded(o))
  <2>1. Exact(o)
    BY <1>1, <1>3
  <2>2. cmp_write_object(o) = cmp_write_nfix(v[8])
    <3>1. o.type = "NEGATIVE_FIXNUM" /\ o.as = v
      BY <1>3 DEF Object
    <3> QED
      BY <3>1, WriteByType
  <2> QED
    BY <2>1, <2>2, ObjectPuts
<1> QED
  BY <1>2, <1>3

(* The object that cmp_write_uinteger writes.                              *)
UIntType(u) ==
    IF FitsUnsigned(u, 1) /\ u[8] <= 127 THEN "POSITIVE_FIXNUM"
    ELSE IF FitsUnsigned(u, 1) THEN "UINT8"
    ELSE IF FitsUnsigned(u, 2) THEN "UINT16"
    ELSE IF FitsUnsigned(u, 4) THEN "UINT32" ELSE "UINT64"
UIntObject(u) == Object(UIntType(u), u, 0)

(* It is exact, in a format that cmp_read_ulong takes.                     *)
LEMMA UIntPuts ==
    ASSUME NEW v \in Word, NEW o, o = UIntObject(v)
    PROVE  /\ Exact(o) /\ o.as = v /\ o.type = UIntType(v)
           /\ Puts(cmp_write_uinteger(v), Encoded(o))
<1>0. PICK t : t = UIntType(v)
  OBVIOUS
<1>1. o = Object(t, v, 0) /\ o.as = v /\ o.type = t
  BY <1>0 DEF UIntObject, Object
<1>2. \A u \in {"UINT8", "UINT16", "UINT32", "UINT64"} :
         u \in Numbered \ ExtTypes /\ u \notin Signed
  BY TypeSets DEF Numbered, ExtTypes, Signed
<1>3. /\ Width["UINT8"] = 1 /\ Width["UINT16"] = 2 /\ Width["UINT32"] = 4
      /\ Width["UINT64"] = 8
  BY DEF Width
<1>4. CASE t = "POSITIVE_FIXNUM"
  <2>1. FitsUnsigned(v, 1) /\ v[8] <= 127
    BY <1>0, <1>4 DEF UIntType
  <2>2. cmp_write_uinteger(v) = cmp_write_pfix(v[8])
    BY <2>1 DEF cmp_write_uinteger
  <2> QED
    BY <1>0, <1>1, <1>4, <2>1, <2>2, FixnumObject
<1>5. CASE t # "POSITIVE_FIXNUM"
  <2>1. t \in {"UINT8", "UINT16", "UINT32", "UINT64"}
    BY <1>0, <1>5 DEF UIntType
  <2>2. FitsUnsigned(v, Width[t])
    <3>1. CASE t = "UINT64"
      BY <1>3, <3>1 DEF FitsUnsigned
    <3>2. CASE t # "UINT64"
      BY <1>0, <1>3, <1>5, <3>2 DEF UIntType
    <3> QED
      BY <3>1, <3>2
  <2>3. cmp_write_uinteger(v) = cmp_write_u(t, v)
    BY <1>0, <1>5 DEF UIntType, cmp_write_uinteger
  <2> QED
    BY <1>0, <1>1, <1>2, <2>1, <2>2, <2>3, NumberObject
<1> QED
  BY <1>4, <1>5

(* The object that cmp_write_integer writes: one that cmp_read_long takes. *)
LEMMA IntegerPuts ==
    ASSUME NEW v \in Word
    PROVE  \E o : /\ Exact(o) /\ o.as = v /\ Takes("long", o)
                  /\ Puts(cmp_write_integer(v), Encoded(o))
<1>1. \A o : Takes("long", o) <=> ObjectAsSigned("long", o)
  BY TakesSigned DEF SignedReader
<1>2. CASE ~Negative(v)
  <2>1. PICK o : o = UIntObject(v)
    OBVIOUS
  <2>2. /\ Exact(o) /\ o.as = v /\ o.type = UIntType(v)
        /\ Puts(cmp_write_uinteger(v), Encoded(o))
    BY <2>1, UIntPuts
  <2>3. v[1] <= 127
    BY <1>2 DEF Negative, Word, Byte
  <2>4. o.type \in {"POSITIVE_FIXNUM", "UINT8", "UINT16", "UINT32", "UINT64"}
    BY <2>2 DEF UIntType
  <2>5. ObjectAsSigned("long", o)
    BY <2>2, <2>3, <2>4 DEF ObjectAsSigned, SignedBase
  <2>6. cmp_write_integer(v) = cmp_write_uinteger(v)
    BY <1>2 DEF cmp_write_integer
  <2> QED
    BY <1>1, <2>2, <2>5, <2>6
<1>3. CASE Negative(v) /\ FitsNegative(v, 1) /\ v[8] >= 224
  <2>1. PICK o : o = Object("NEGATIVE_FIXNUM", v, 0)
    OBVIOUS
  <2>2. Exact(o) /\ Puts(cmp_write_nfix(v[8]), Encoded(o))
    BY <1>3, <2>1, FixnumObject
  <2>3. o.as = v /\ o.type = "NEGATIVE_FIXNUM"
    BY <2>1 DEF Object
  <2>4. ObjectAsSigned("long", o)
    BY <2>3 DEF ObjectAsSigned, SignedBase
  <2>5. cmp_write_integer(v) = cmp_write_nfix(v[8])
    BY <1>3 DEF cmp_write_integer
  <2> QED
    BY <1>1, <2>2, <2>3, <2>4, <2>5
<1>4. CASE Negative(v) /\ ~(FitsNegative(v, 1) /\ v[8] >= 224)
  <2>1. PICK t : t = IF FitsNegative(v, 1) THEN "SINT8"
                     ELSE IF FitsNegative(v, 2) THEN "SINT16"
                     ELSE IF FitsNegative(v, 4) THEN "SINT32" ELSE "SINT64"
    OBVIOUS
  <2>2. cmp_write_integer(v) = cmp_write_s(t, v)
    BY <1>4, <2>1 DEF cmp_write_integer
  <2>3. t \in Signed
    BY <2>1 DEF Signed
  <2>4. t \in Numbered \ ExtTypes
    BY <2>3, TypeSets DEF Signed, Numbered, ExtTypes
  <2>5. Extended(v, Width[t])
    <3>1. /\ Width["SINT8"] = 1 /\ Width["SINT16"] = 2 /\ Width["SINT32"] = 4
          /\ Width["SINT64"] = 8
      BY DEF Width
    <3>2. \A k \in {1, 2, 4} : FitsNegative(v, k) => Extended(v, k)
      BY Widening
    <3>3. Extended(v, 8)
      BY DEF Extended
    <3> QED
      BY <2>1, <3>1, <3>2, <3>3
  <2>6. PICK o : o = Object(t, v, 0)
    OBVIOUS
  <2>7. Exact(o) /\ Puts(cmp_write_s(t, v), Encoded(o))
    BY <2>3, <2>4, <2>5, <2>6, NumberObject
  <2>8. o.as = v /\ o.type = t
    BY <2>6 DEF Object
  <2>9. ObjectAsSigned("long", o)
    BY <2>3, <2>8 DEF ObjectAsSigned, SignedBase, Signed
  <2> QED
    BY <1>1, <2>2, <2>7, <2>8, <2>9
<1> QED
  BY <1>2, <1>3, <1>4

(* The writer w writes the object o, which stands for v and is one that    *)
(* the reader r takes.                                                     *)
Renders(w, o, r, v) ==
    /\ Exact(o) /\ o.as = v /\ Takes(r, o)
    /\ Puts(w, Encoded(o))

(* Markers with a size.                                                    *)
LEMMA SizePuts ==
    ASSUME NEW v \in Uint32
    PROVE  /\ \E o : Renders(cmp_write_array(v), o, "array", v)
           /\ \E o : Renders(cmp_write_map(v), o, "map", v)
           /\ \E o : Renders(cmp_write_str_marker(v), o, "str_size", v)
           /\ \E o : Renders(cmp_write_str_marker_v4(v), o, "str_size", v)
           /\ \E o : Renders(cmp_write_bin_marker(v), o, "bin_size", v)
<1>1. v \in Word /\ FitsUnsigned(v, 4)
  BY DEF Uint32
<1>2. /\ SizeReader["str_size"] = {"FIXSTR", "STR8", "STR16", "STR32"}
      /\ SizeReader["bin_size"] = {"BIN8", "BIN16", "BIN32"}
      /\ SizeReader["array"] = {"FIXARRAY", "ARRAY16", "ARRAY32"}
      /\ SizeReader["map"] = {"FIXMAP", "MAP16", "MAP32"}
      /\ DOMAIN SizeReader = {"str_size", "bin_size", "array", "map"}
  BY DEF SizeReader
<1>3. \A o : \A r \in DOMAIN SizeReader :
         o.type \in SizeReader[r] => Takes(r, o)
  BY DEF Takes
<1>4. ASSUME NEW r \in DOMAIN SizeReader, NEW t \in SizeReader[r],
             t \in Numbered, FitsUnsigned(v, Width[t])
      PROVE  \E o : Renders(SizeMarker(t, v), o, r, v)
  <2>1. PICK o : o = Object(t, v, 0)
    OBVIOUS
  <2>2. o.type = t /\ o.as = v
    BY <2>1 DEF Object
  <2>3. t \notin ExtTypes /\ t \notin Signed
    <3>1. t \in SizeReader["str_size"] \cup SizeReader["bin_size"]
                \cup SizeReader["array"] \cup SizeReader["map"]
      BY <1>2
    <3> QED
      BY <1>2, <3>1, TypeSets DEF ExtTypes, Signed
  <2>4. Exact(o) /\ Puts(SizeMarker(t, v), Encoded(o))
    BY <1>1, <1>4, <2>1, <2>3, NumberObject
  <2> QED
    BY <1>3, <2>2, <2>4 DEF Renders
<1>5. ASSUME NEW r \in DOMAIN SizeReader, NEW t \in SizeReader[r],
             t \in DOMAIN FixSize, FitsUnsigned(v, 1), v[8] <= FixSize[t]
      PROVE  \E o : Renders(FixMarker(t, v), o, r, v)
  <2>1. PICK o : o = Object(t, v, 0)
    OBVIOUS
  <2>2. o.type = t /\ o.as = v
    BY <2>1 DEF Object
  <2>3. Exact(o) /\ Puts(FixMarker(t, v), Encoded(o))
    BY <1>1, <1>5, <2>1, FixObject
  <2> QED
    BY <1>3, <2>2, <2>3 DEF Renders
<1>6. /\ Width["ARRAY16"] = 2 /\ Width["ARRAY32"] = 4
      /\ Width["MAP16"] = 2 /\ Width["MAP32"] = 4
      /\ Width["STR8"] = 1 /\ Width["STR16"] = 2 /\ Width["STR32"] = 4
      /\ Width["BIN8"] = 1 /\ Width["BIN16"] = 2 /\ Width["BIN32"] = 4
  BY DEF Width
<1>7. {"ARRAY16", "ARRAY32", "MAP16", "MAP32", "STR8", "STR16", "STR32",
       "BIN8", "BIN16", "BIN32"} \subseteq Numbered
  BY DEF Numbered
<1>8. /\ {"FIXSTR", "FIXARRAY", "FIXMAP"} = DOMAIN FixSize
      /\ FixSize["FIXSTR"] = 31 /\ FixSize["FIXARRAY"] = 15
      /\ FixSize["FIXMAP"] = 15
  BY DEF FixSize
<1>9. \E o : Renders(cmp_write_array(v), o, "array", v)
  <2>1. CASE FitsUnsigned(v, 1) /\ v[8] <= 15
    <3>1. cmp_write_array(v) = FixMarker("FIXARRAY", v)
      BY <2>1 DEF cmp_write_array
    <3> QED
      BY <1>2, <1>5, <1>8, <2>1, <3>1
  <2>2. CASE ~(FitsUnsigned(v, 1) /\ v[8] <= 15)
    <3>1. PICK t : t = IF FitsUnsigned(v, 2) THEN "ARRAY16" ELSE "ARRAY32"
      OBVIOUS
    <3>2. cmp_write_array(v) = SizeMarker(t, v)
      BY <2>2, <3>1 DEF cmp_write_array
    <3>3. t \in SizeReader["array"] /\ t \in Numbered
          /\ FitsUnsigned(v, Width[t])
      BY <1>1, <1>2, <1>6, <1>7, <3>1
    <3> QED
      BY <1>2, <1>4, <3>2, <3>3
  <2> QED
    BY <2>1, <2>2
<1>10. \E o : Renders(cmp_write_map(v), o, "map", v)
  <2>1. CASE FitsUnsigned(v, 1) /\ v[8] <= 15
    <3>1. cmp_write_map(v) = FixMarker("FIXMAP", v)
      BY <2>1 DEF cmp_write_map
    <3> QED
      BY <1>2, <1>5, <1>8, <2>1, <3>1
  <2>2. CASE ~(FitsUnsigned(v, 1) /\ v[8] <= 15)
    <3>1. PICK t : t = IF FitsUnsigned(v, 2) THEN "MAP16" ELSE "MAP32"
      OBVIOUS
    <3>2. cmp_write_map(v) = SizeMarker(t, v)
      BY <2>2, <3>1 DEF cmp_write_map
    <3>3. t \in SizeReader["map"] /\ t \in Numbered
          /\ FitsUnsigned(v, Width[t])
      BY <1>1, <1>2, <1>6, <1>7, <3>1
    <3> QED
      BY <1>2, <1>4, <3>2, <3>3
  <2> QED
    BY <2>1, <2>2
<1>11. ASSUME NEW t \in {StrType(v), StrTypeV4(v)}
       PROVE  \E o : Renders(cmp_write_str_marker_as(t, v), o, "str_size", v)
  <2>1. CASE t = "FIXSTR"
    <3>1. FitsUnsigned(v, 1) /\ v[8] <= 31
      BY <1>11, <2>1 DEF StrType, StrTypeV4
    <3>2. cmp_write_str_marker_as(t, v) = FixMarker(t, v)
      BY <2>1 DEF cmp_write_str_marker_as
    <3> QED
      BY <1>2, <1>5, <1>8, <2>1, <3>1, <3>2
  <2>2. CASE t # "FIXSTR"
    <3>1. cmp_write_str_marker_as(t, v) = SizeMarker(t, v)
      BY <2>2 DEF cmp_write_str_marker_as
    <3>2. t \in {"STR8", "STR16", "STR32"}
      BY <1>11, <2>2 DEF StrType, StrTypeV4
    <3>3. FitsUnsigned(v, Width[t])
      <4>1. FitsUnsigned(v, 1) => FitsUnsigned(v, 2)
        BY <1>1, Widening
      <4> QED
        BY <1>1, <1>6, <1>11, <2>2, <3>2, <4>1 DEF StrType, StrTypeV4
    <3> QED
      BY <1>2, <1>4, <1>7, <3>1, <3>2, <3>3
  <2> QED
    BY <2>1, <2>2
<1>12. \E o : Renders(cmp_write_bin_marker(v), o, "bin_size", v)
  <2>1. PICK t : t = BinType(v)
    OBVIOUS
  <2>2. cmp_write_bin_marker(v) = SizeMarker(t, v)
    BY <2>1 DEF cmp_write_bin_marker
  <2>3. t \in SizeReader["bin_size"] /\ t \in Numbered
        /\ FitsUnsigned(v, Width[t])
    BY <1>1, <1>2, <1>6, <1>7, <2>1 DEF BinType
  <2> QED
    BY <1>2, <1>4, <2>2, <2>3
<1> QED
  BY <1>9, <1>10, <1>11, <1>12
     DEF cmp_write_str_marker, cmp_write_str_marker_v4

(* Extensions.                                                             *)
LEMMA ExtPuts ==
    ASSUME NEW v \in Uint32, NEW x \in Byte
    PROVE  \E o : /\ Renders(cmp_write_ext_marker(x, v), o, "ext_marker", v)
                  /\ o.ext = x
<1>1. v \in Word /\ FitsUnsigned(v, 4)
  BY DEF Uint32
<1>2. PICK t : t = ExtType(v)
  OBVIOUS
<1>3. PICK o : o = Object(t, v, x)
  OBVIOUS
<1>4. o.type = t /\ o.as = v /\ o.ext = x
  BY <1>3 DEF Object
<1>5. t \in ExtTypes => Takes("ext_marker", o)
  BY <1>4 DEF Takes, ExtReader, ExtTypes
<1>6. CASE \E u \in DOMAIN FixExtSize : v = Small(FixExtSize[u])
  <2>1. t \in DOMAIN FixExtSize /\ v = Small(FixExtSize[t])
    <3>1. t = CHOOSE u \in DOMAIN FixExtSize : v = Small(FixExtSize[u])
      BY <1>2, <1>6 DEF ExtType
    <3> QED
      BY <1>6, <3>1, Zenon
  <2>2. /\ t \notin {"POSITIVE_FIXNUM", "NEGATIVE_FIXNUM", "NIL", "BOOLEAN"}
        /\ t \notin DOMAIN FixSize /\ t \notin Numbered /\ t \in Types
        /\ t \in ExtTypes
    BY <2>1, TypeSets DEF ExtTypes
  <2>3. t \notin Signed
    BY <2>2 DEF Signed, Numbered
  <2>4. Sound(o)
    BY <1>1, <1>4, <2>2, <2>3 DEF Sound
  <2>5. Exact(o)
    BY <1>3, <1>4, <2>1, <2>2, <2>4 DEF Exact
  <2>6. cmp_write_ext_marker(x, v) = cmp_write_fixext_marker(t, x)
    BY <1>2, <2>1 DEF cmp_write_ext_marker
  <2>7. cmp_write_object(o) = cmp_write_fixext_marker(t, x)
    BY <1>4, <2>1, WriteByType
  <2> QED
    BY <1>4, <1>5, <2>2, <2>5, <2>6, <2>7, ObjectPuts DEF Renders
<1>7. CASE ~\E u \in DOMAIN FixExtSize : v = Small(FixExtSize[u])
  <2>1. t = IF FitsUnsigned(v, 1) THEN "EXT8"
            ELSE IF FitsUnsigned(v, 2) THEN "EXT16" ELSE "EXT32"
    BY <1>2, <1>7 DEF ExtType
  <2>2. t \in {"EXT8", "EXT16", "EXT32"}
    BY <2>1
  <2>3. Width["EXT8"] = 1 /\ Width["EXT16"] = 2 /\ Width["EXT32"] = 4
    BY DEF Width
  <2>4. FitsUnsigned(v, Width[t])
    BY <1>1, <2>1, <2>3
  <2>5. /\ t \notin {"POSITIVE_FIXNUM", "NEGATIVE_FIXNUM", "NIL", "BOOLEAN"}
        /\ t \notin DOMAIN FixSize /\ t \in Numbered /\ t \in Types
        /\ t \in ExtTypes /\ t \notin Signed /\ t \notin DOMAIN FixExtSize
    BY <2>2, TypeSets DEF ExtTypes, Signed, Numbered
  <2>6. Sound(o)
    BY <1>1, <1>4, <2>4, <2>5 DEF Sound
  <2>7. Exact(o)
    BY <1>3, <1>4, <2>5, <2>6 DEF Exact
  <2>8. cmp_write_ext_marker(x, v) = cmp_write_ext_marker_as(t, x, v)
    BY <1>2, <2>5 DEF cmp_write_ext_marker
  <2>9. cmp_write_object(o) = cmp_write_ext_marker_as(t, x, v)
    BY <1>4, <2>2, WriteByType
  <2> QED
    BY <1>4, <1>5, <2>5, <2>7, <2>8, <2>9, ObjectPuts DEF Renders
<1> QED
  BY <1>6, <1>7
-----------------------------------------------------------------------------
(* Requests: what is written is read.                                      *)

(* What a request stands for on the wire: an object and its data.          *)
DataOf(r) == IF r.op \in WithData THEN r.data ELSE <<>>

Stands(o, r) ==
    /\ Exact(o) /\ o.as = Meaning(r) /\ Takes(PairedReader[r.op], o)
    /\ r.op \in {"ext", "ext_marker"} => o.ext = r.x
    /\ Puts(Writer(r), Encoded(o) \o DataOf(r))

(* The numbers and constants.                                              *)
LEMMA ScalarStands ==
    ASSUME NEW r \in [op : {"integer", "uinteger", "sfix", "nil", "bool"},
                      v : Word],
           Writer(r).error = "NONE"
    PROVE  \E o : Renders(Writer(r), o, PairedReader[r.op], Meaning(r))
<1>1. PICK v \in Word : v = r.v
  OBVIOUS
<1>2. v[8] \in Byte
  BY DEF Word
<1>3. CASE r.op = "integer"
  <2>1. Writer(r) = cmp_write_integer(v) /\ Meaning(r) = v
        /\ PairedReader[r.op] = "long"
    BY <1>1, <1>3 DEF Writer, Meaning, PairedReader
  <2> QED
    BY <2>1, IntegerPuts DEF Renders
<1>4. CASE r.op = "uinteger"
  <2>1. Writer(r) = cmp_write_uinteger(v) /\ Meaning(r) = v
        /\ PairedReader[r.op] = "ulong"
    BY <1>1, <1>4 DEF Writer, Meaning, PairedReader
  <2>2. PICK o : o = UIntObject(v)
    OBVIOUS
  <2>3. /\ Exact(o) /\ o.as = v /\ o.type = UIntType(v)
        /\ Puts(cmp_write_uinteger(v), Encoded(o))
    BY <2>2, UIntPuts
  <2>4. ObjectAsUnsigned("ulong", o)
    BY <2>3 DEF ObjectAsUnsigned, UIntType
  <2>5. Takes("ulong", o)
    BY <2>4, TakesUnsigned DEF UnsignedReader
  <2> QED
    BY <2>1, <2>3, <2>5 DEF Renders
<1>5. CASE r.op = "sfix"
  <2>1. PICK c \in Byte : c = v[8]
    BY <1>2
  <2>2. Writer(r) = cmp_write_sfix(c) /\ Meaning(r) = SignExtend(<<c>>)
        /\ PairedReader[r.op] = "sfix"
    BY <1>1, <1>5, <2>1 DEF Writer, Meaning, PairedReader
  <2>3. PICK s : s = <<c>>
    OBVIOUS
  <2>4. s \in [1 .. 1 -> Byte] /\ s[1] = c
    BY <2>3
  <2>5. PICK u \in Word : u = SignExtend(s) /\ Extended(u, 1) /\ u[8] = c
    BY <2>4, Extensions
  <2>6. c <= 127 \/ c >= 224
    <3>1. ASSUME ~(c <= 127), ~(c >= 224) PROVE FALSE
      <4>1. ~(c < 128) /\ ~(c >= 256 - 32)
        BY <3>1 DEF Byte
      <4>2. cmp_write_sfix(c) = Refuse("INPUT_VALUE_TOO_LARGE")
        BY <4>1 DEF cmp_write_sfix, cmp_write_nfix
      <4> QED
        BY <2>2, <4>2 DEF Refuse
    <3> QED
      BY <3>1
  <2>7. CASE c <= 127
    <3>1. FitsUnsigned(u, 1)
      BY <2>5, <2>7 DEF Extended, FitsUnsigned, Byte
    <3>2. PICK o : o = Object("POSITIVE_FIXNUM", u, 0)
      OBVIOUS
    <3>3. Exact(o) /\ Puts(cmp_write_pfix(c), Encoded(o))
      BY <2>5, <2>7, <3>1, <3>2, FixnumObject
    <3>4. cmp_write_sfix(c) = cmp_write_pfix(c)
      BY <2>7 DEF cmp_write_sfix, Byte
    <3>5. o.as = u /\ o.type = "POSITIVE_FIXNUM"
      BY <3>2 DEF Object
    <3>6. Takes("sfix", o)
      BY <3>5 DEF Takes, ExactReader
    <3> QED
      BY <2>2, <2>3, <2>5, <3>3, <3>4, <3>5, <3>6 DEF Renders
  <2>8. CASE c >= 224
    <3>1. FitsNegative(u, 1)
      BY <2>5, <2>8 DEF Extended, FitsNegative, Byte
    <3>2. PICK o : o = Object("NEGATIVE_FIXNUM", u, 0)
      OBVIOUS
    <3>3. Exact(o) /\ Puts(cmp_write_nfix(c), Encoded(o))
      BY <2>5, <2>8, <3>1, <3>2, FixnumObject
    <3>4. cmp_write_sfix(c) = cmp_write_nfix(c)
      BY <2>8 DEF cmp_write_sfix, Byte
    <3>5. o.as = u /\ o.type = "NEGATIVE_FIXNUM"
      BY <3>2 DEF Object
    <3>6. Takes("sfix", o)
      BY <3>5 DEF Takes, ExactReader
    <3> QED
      BY <2>2, <2>3, <2>5, <3>3, <3>4, <3>5, <3>6 DEF Renders
  <2> QED
    BY <2>6, <2>7, <2>8
<1>6. ASSUME NEW t \in {"NIL", "BOOLEAN"}, NEW k \in {0, 1},
             t = "NIL" => k = 0, NEW o, o = Object(t, Small(k), 0)
      PROVE  Exact(o) /\ o.as = Small(k) /\ o.type = t /\ o.as[8] = k
  <2>1. o.type = t /\ o.as = Small(k) /\ o.ext = 0
    BY <1>6 DEF Object
  <2>2. /\ t \notin DOMAIN FixSize /\ t \notin DOMAIN FixExtSize
        /\ t \in Types /\ t \in MarkerOnly /\ t \notin Numbered
    BY TypeSets
  <2>3. t \notin ExtTypes /\ t \notin Signed
    BY <2>2 DEF ExtTypes, Signed, Numbered
  <2>4. k \in Byte
    BY DEF Byte
  <2>5. Small(k) \in Word /\ Small(k)[8] = k
    BY <2>4, SmallWord
  <2>6. Sound(o)
    BY <2>1, <2>2, <2>3, <2>5 DEF Sound
  <2>7. Exact(o)
    BY <1>6, <2>1, <2>2, <2>3, <2>6 DEF Exact
  <2> QED
    BY <2>1, <2>5, <2>7
<1>7. CASE r.op = "nil"
  <2>1. Writer(r) = write_type_marker(Marker["NIL"]) /\ Meaning(r) = Small(0)
        /\ PairedReader[r.op] = "nil"
    BY <1>7 DEF Writer, Meaning, PairedReader, cmp_write_nil
  <2>2. PICK o : o = Object("NIL", Small(0), 0)
    OBVIOUS
  <2>3. Exact(o) /\ o.as = Small(0) /\ o.type = "NIL"
    BY <1>6, <2>2
  <2>4. cmp_write_object(o) = write_type_marker(Marker["NIL"])
    BY <2>3, WriteNil
  <2>5. Takes("nil", o)
    BY <2>3 DEF Takes, RealReader
  <2> QED
    BY <2>1, <2>3, <2>4, <2>5, ObjectPuts DEF Renders
<1>8. CASE r.op = "bool"
  <2>1. PICK k \in {0, 1} : k = IF v[8] = 0 THEN 0 ELSE 1
    OBVIOUS
  <2>2. Writer(r) = cmp_write_bool(v[8]) /\ Meaning(r) = Small(k)
        /\ PairedReader[r.op] = "bool"
    BY <1>1, <1>8, <2>1 DEF Writer, Meaning, PairedReader
  <2>3. PICK o : o = Object("BOOLEAN", Small(k), 0)
    OBVIOUS
  <2>4. Exact(o) /\ o.as = Small(k) /\ o.type = "BOOLEAN" /\ o.as[8] = k
    BY <1>6, <2>3
  <2>5. cmp_write_object(o) = cmp_write_bool(k)
    BY <2>4, WriteByType
  <2>6. cmp_write_bool(k) = cmp_write_bool(v[8])
    BY <2>1 DEF cmp_write_bool
  <2>7. Takes("bool", o)
    BY <2>4 DEF Takes, RealReader
  <2> QED
    BY <2>2, <2>4, <2>5, <2>6, <2>7, ObjectPuts DEF Renders
<1> QED
  BY <1>3, <1>4, <1>5, <1>7, <1>8

(* A writer without data.                                                  *)
LEMMA BareStands ==
    ASSUME NEW r, NEW o, r.op \notin WithData,
           Renders(Writer(r), o, PairedReader[r.op], Meaning(r)),
           r.op \in {"ext", "ext_marker"} => o.ext = r.x
    PROVE  Stands(o, r) /\ DataOf(r) = <<>>
<1>1. DataOf(r) = <<>>
  BY DEF DataOf
<1>2. PICK e : e = Encoded(o)
  OBVIOUS
<1>3. e \in Seq(Byte)
  BY <1>2, EncodedBytes DEF Renders
<1>4. e \o <<>> = e
  BY <1>3, ConcatEmptySeq
<1> QED
  BY <1>1, <1>2, <1>4 DEF Stands, Renders

(* A marker and the data behind it.                                        *)
LEMMA DataStands ==
    ASSUME NEW v \in Uint32, NEW d \in Seq(Byte),
           Len(d) = SizeOf(v), NEW w, NEW b, Puts(w, b),
           b \in Seq(Byte)
    PROVE  /\ Puts(Then(w, Data(v, d)), b \o d)
           /\ Puts(Then(w, <<Call(d, "DATA_WRITING")>>), b \o d)
<1>1. Puts(Then(w, <<Call(d, "DATA_WRITING")>>), b \o d)
  BY PutsMore DEF WriteErrors
<1>2. v \in Word
  BY DEF Uint32
<1>3. CASE v = Small(0)
  <2>1. v = [i \in 1 .. 8 |-> 0]
    <3>1. Len(<<0>>) = 1 /\ <<0>>[1] = 0
      OBVIOUS
    <3> QED
      BY <1>3, <3>1 DEF Small, ZeroExtend
  <2>2. Len(d) = 0
    BY <2>1 DEF SizeOf
  <2>3. d = <<>>
    BY <2>2, EmptySeq
  <2>4. Data(v, d) = <<>>
    BY <1>3 DEF Data
  <2>5. PICK s : s = <<>> /\ s \in Seq(WriteCall) /\ Flat(s) = <<>>
    BY EmptySeq, FlatShort
  <2>6. Puts(Then(w, s), b \o Flat(s))
    BY <2>5, PutsThen
  <2>8. Puts(Then(w, Data(v, d)), b \o d)
    BY <2>3, <2>4, <2>5, <2>6, Zenon
  <2> QED
    BY <1>1, <2>8
<1>4. CASE v # Small(0)
  <2>1. Data(v, d) = <<Call(d, "DATA_WRITING")>>
    BY <1>4 DEF Data
  <2> QED
    BY <1>1, <2>1
<1> QED
  BY <1>3, <1>4

(* Every request that is not refused stands as an object and its data on   *)
(* the wire, with no more data than the object announces.                  *)
LEMMA WriterStands ==
    ASSUME NEW r \in Requests, Writer(r).error = "NONE"
    PROVE  \E o : /\ Stands(o, r) /\ DataOf(r) \in Seq(Byte)
                  /\ Len(DataOf(r)) <= SizeOf(o.as)
<1>s. \A o : Exact(o) => SizeOf(o.as) \in Nat
  BY SizeIsNat DEF Exact, Sound
<1>e. ASSUME NEW o, r.op \notin WithData,
             Renders(Writer(r), o, PairedReader[r.op], Meaning(r)),
             r.op \in {"ext", "ext_marker"} => o.ext = r.x
      PROVE  /\ Stands(o, r) /\ DataOf(r) \in Seq(Byte)
             /\ Len(DataOf(r)) <= SizeOf(o.as)
  <2>1. Stands(o, r) /\ DataOf(r) = <<>>
    BY <1>e, BareStands
  <2>2. SizeOf(o.as) \in Nat
    BY <1>e, <1>s DEF Renders
  <2> QED
    BY <2>1, <2>2, EmptySeq
<1>1. CASE r \in [op : {"integer", "uinteger", "sfix", "nil", "bool"},
                  v : Word]
  <2>1. PICK o : Renders(Writer(r), o, PairedReader[r.op], Meaning(r))
    BY <1>1, ScalarStands
  <2>2. r.op \notin WithData /\ r.op \notin {"ext", "ext_marker"}
    BY <1>1 DEF WithData
  <2> QED
    BY <1>e, <2>1, <2>2
<1>2. CASE r \in [op : {"decimal"},
                  v : [exact : BOOLEAN, float : Word, double : Word]]
  <2>1. PICK d : d = r.v
    OBVIOUS
  <2>2. r.op = "decimal" /\ d.float \in Word /\ d.double \in Word
    BY <1>2, <2>1
  <2>3. PICK t \in {"FLOAT", "DOUBLE"}, v \in Word :
           /\ Writer(r) = cmp_write_real(t, v)
           /\ t = "FLOAT" => /\ Meaning(r) = ZeroExtend(Low(v, 4))
           /\ t = "DOUBLE" => Meaning(r) = v
    BY <2>1, <2>2 DEF Writer, cmp_write_decimal, Meaning
  <2>4. t \in Numbered \ ExtTypes /\ t \notin Signed
    BY TypeSets DEF Numbered, ExtTypes, Signed
  <2>5. Width["FLOAT"] = 4 /\ Width["DOUBLE"] = 8
    BY DEF Width
  <2>6. PICK u \in Word : /\ u = Meaning(r) /\ FitsUnsigned(u, Width[t])
                          /\ Low(u, Width[t]) = Low(v, Width[t])
    <3>1. CASE t = "DOUBLE"
      BY <2>3, <2>5, <3>1 DEF FitsUnsigned
    <3>2. CASE t = "FLOAT"
      <4>1. PICK s : s = Low(v, 4)
        OBVIOUS
      <4>2. s = [i \in 1 .. 4 |-> v[8 - 4 + i]]
        BY <4>1, LowBytes
      <4>3. s \in [1 .. 4 -> Byte]
        BY <4>2 DEF Word
      <4>4. PICK u \in Word : u = ZeroExtend(s) /\ FitsUnsigned(u, 4)
        BY <4>3, Extensions
      <4>5. Len(s) = 4
        BY <4>3, ByteStringLength
      <4>6. \A i \in 1 .. 4 : u[8 - 4 + i] = v[8 - 4 + i]
        <5>1. \A i \in 1 .. 4 : u[8 - 4 + i] = s[i]
          BY <4>4, <4>5 DEF ZeroExtend
        <5> QED
          BY <4>2, <5>1
      <4>7. Low(u, 4) = [i \in 1 .. 4 |-> u[8 - 4 + i]]
        BY LowBytes
      <4>8. Low(u, 4) = Low(v, 4)
        BY <4>1, <4>2, <4>6, <4>7
      <4> QED
        BY <2>3, <2>5, <3>2, <4>1, <4>4, <4>8
    <3> QED
      BY <3>1, <3>2
  <2>7. PICK o : o = Object(t, u, 0)
    OBVIOUS
  <2>8. Exact(o) /\ Puts(cmp_write_real(t, u), Encoded(o))
    BY <2>4, <2>6, <2>7, NumberObject
  <2>9. cmp_write_real(t, u) = cmp_write_real(t, v)
    <3>1. PICK k \in 1 .. 8 : k = Width[t]
      BY <2>5
    <3>2. Payload(u, k) = Low(u, k) /\ Payload(v, k) = Low(v, k)
      BY PayloadLow
    <3> QED
      BY <2>6, <3>1, <3>2 DEF cmp_write_real
  <2>10. o.as = u /\ o.type = t
    BY <2>7 DEF Object
  <2>11. Takes("decimal", o)
    BY <2>10 DEF Takes, RealReader
  <2>12. PairedReader[r.op] = "decimal"
    BY <2>2 DEF PairedReader
  <2>13. Renders(Writer(r), o, PairedReader[r.op], Meaning(r))
    BY <2>3, <2>6, <2>8, <2>9, <2>10, <2>11, <2>12 DEF Renders
  <2> QED
    BY <1>e, <2>2, <2>13 DEF WithData
<1>3. CASE r \in [op : {"array", "map", "str_marker", "str_marker_v4",
                        "bin_marker"}, v : Uint32]
  <2>1. PICK v \in Uint32 : v = r.v
    BY <1>3
  <2>2. r.op \in {"array", "map", "str_marker", "str_marker_v4", "bin_marker"}
    BY <1>3
  <2>3. Meaning(r) = v
    BY <2>1, <2>2 DEF Meaning
  <2>4. \E o : Renders(Writer(r), o, PairedReader[r.op], v)
    <3>1. CASE r.op = "array"
      BY <2>1, <3>1, SizePuts DEF Writer, PairedReader
    <3>2. CASE r.op = "map"
      BY <2>1, <3>2, SizePuts DEF Writer, PairedReader
    <3>3. CASE r.op = "str_marker"
      BY <2>1, <3>3, SizePuts DEF Writer, PairedReader
    <3>4. CASE r.op = "str_marker_v4"
      BY <2>1, <3>4, SizePuts DEF Writer, PairedReader
    <3>5. CASE r.op = "bin_marker"
      BY <2>1, <3>5, SizePuts DEF Writer, PairedReader
    <3> QED
      BY <2>2, <3>1, <3>2, <3>3, <3>4, <3>5
  <2> QED
    BY <1>e, <2>2, <2>3, <2>4 DEF WithData
<1>4. CASE r \in [op : {"ext_marker"}, x : Byte, v : Uint32]
  <2>1. PICK v \in Uint32, x \in Byte : v = r.v /\ x = r.x
    BY <1>4
  <2>2. r.op = "ext_marker"
    BY <1>4
  <2>3. Meaning(r) = v /\ PairedReader[r.op] = "ext_marker"
        /\ Writer(r) = cmp_write_ext_marker(x, v)
    BY <2>1, <2>2 DEF Meaning, PairedReader, Writer
  <2>4. PICK o : /\ Renders(cmp_write_ext_marker(x, v), o, "ext_marker", v)
                 /\ o.ext = x
    BY ExtPuts
  <2> QED
    BY <1>e, <2>1, <2>2, <2>3, <2>4 DEF WithData
<1>5. CASE /\ r \in [op : {"str", "str_v4", "bin"}, v : Uint32,
                     data : Seq(Byte)]
           /\ HasItsSize(r)
  <2>1. PICK v \in Uint32, d \in Seq(Byte) : v = r.v /\ d = r.data
    BY <1>5
  <2>2. r.op \in {"str", "str_v4", "bin"}
    BY <1>5
  <2>3. Len(d) = SizeOf(v)
    BY <1>5, <2>1 DEF HasItsSize
  <2>4. Meaning(r) = v /\ DataOf(r) = d /\ r.op \notin {"ext", "ext_marker"}
    BY <2>1, <2>2 DEF Meaning, DataOf, WithData
  <2>5. PICK w, o : /\ Renders(w, o, PairedReader[r.op], v)
                    /\ Writer(r) = Then(w, Data(v, d))
    <3>1. CASE r.op = "str"
      <4>1. Writer(r) = Then(cmp_write_str_marker(v), Data(v, d))
            /\ PairedReader[r.op] = "str_size"
        BY <2>1, <3>1 DEF Writer, PairedReader, cmp_write_str,
           cmp_write_str_as, cmp_write_str_marker
      <4> QED
        BY <4>1, SizePuts
    <3>2. CASE r.op = "str_v4"
      <4>1. Writer(r) = Then(cmp_write_str_marker_v4(v), Data(v, d))
            /\ PairedReader[r.op] = "str_size"
        BY <2>1, <3>2 DEF Writer, PairedReader, cmp_write_str_v4,
           cmp_write_str_as, cmp_write_str_marker_v4
      <4> QED
        BY <4>1, SizePuts
    <3>3. CASE r.op = "bin"
      <4>1. Writer(r) = Then(cmp_write_bin_marker(v), Data(v, d))
            /\ PairedReader[r.op] = "bin_size"
        BY <2>1, <3>3 DEF Writer, PairedReader, cmp_write_bin,
           cmp_write_bin_as, cmp_write_bin_marker
      <4> QED
        BY <4>1, SizePuts
    <3> QED
      BY <2>2, <3>1, <3>2, <3>3
  <2>6. PICK e \in Seq(Byte) : e = Encoded(o) /\ Puts(w, e)
    BY <2>5, EncodedBytes DEF Renders
  <2>7. Puts(Then(w, Data(v, d)), e \o d)
    BY <2>3, <2>6, DataStands
  <2>8. Stands(o, r)
    BY <2>4, <2>5, <2>6, <2>7 DEF Stands, Renders
  <2>9. o.as = v /\ SizeOf(v) \in Nat
    BY <1>s, <2>5 DEF Renders
  <2> QED
    BY <2>3, <2>4, <2>8, <2>9
<1>6. CASE /\ r \in [op : {"ext"}, x : Byte, v : Uint32, data : Seq(Byte)]
           /\ HasItsSize(r)
  <2>1. PICK v \in Uint32, x \in Byte, d \in Seq(Byte) :
           v = r.v /\ x = r.x /\ d = r.data
    BY <1>6
  <2>2. r.op = "ext"
    BY <1>6
  <2>3. Len(d) = SizeOf(v)
    BY <1>6, <2>1 DEF HasItsSize
  <2>4. Meaning(r) = v /\ DataOf(r) = d /\ PairedReader[r.op] = "ext_marker"
    BY <2>1, <2>2 DEF Meaning, DataOf, WithData, PairedReader
  <2>5. PICK w : w = cmp_write_ext_marker(x, v)
    OBVIOUS
  <2>6. Writer(r) = Then(w, <<Call(d, "DATA_WRITING")>>)
    BY <2>1, <2>2, <2>5 DEF Writer, cmp_write_ext, cmp_write_ext_marker,
       cmp_write_fixext, cmp_write_ext_as
  <2>7. PICK o : Renders(w, o, "ext_marker", v) /\ o.ext = x
    BY <2>5, ExtPuts
  <2>8. PICK e \in Seq(Byte) : e = Encoded(o) /\ Puts(w, e)
    BY <2>7, EncodedBytes DEF Renders
  <2>9. Puts(Then(w, <<Call(d, "DATA_WRITING")>>), e \o d)
    BY <2>3, <2>8, DataStands
  <2>10. Stands(o, r)
    BY <2>1, <2>4, <2>6, <2>7, <2>8, <2>9 DEF Stands, Renders
  <2>11. o.as = v /\ SizeOf(v) \in Nat
    BY <1>s, <2>7 DEF Renders
  <2> QED
    BY <2>3, <2>4, <2>10, <2>11
<1> QED
  BY <1>1, <1>2, <1>3, <1>4, <1>5, <1>6 DEF Requests

(* A writer that reports success was not refused, and all its bytes are on *)
(* the wire.                                                               *)
LEMMA OutcomeOk ==
    ASSUME NEW w, NEW room, Outcome(w, room).ok
    PROVE  /\ w.error = "NONE"
           /\ Outcome(w, room).bytes = Written(w, Len(w.calls))
<1> DEFINE fails == {i \in DOMAIN w.calls : \/ w.calls[i].data = <<>>
                                            \/ Len(Written(w, i)) > room}
           first == CHOOSE i \in fails : \A j \in fails : i <= j
<1>1. PICK a, b, f : a = Written(w, Len(w.calls)) /\ b = Written(w, first - 1)
                     /\ f = w.calls[first].error
  OBVIOUS
<1>2. Outcome(w, room) =
         IF w.error # "NONE"
         THEN [ok |-> FALSE, bytes |-> <<>>, error |-> w.error]
         ELSE IF fails = {}
         THEN [ok |-> TRUE, bytes |-> a, error |-> "NONE"]
         ELSE [ok |-> FALSE, bytes |-> b, error |-> f]
  BY <1>1, Zenon DEF Outcome
<1> HIDE DEF fails, first
<1> QED
  BY <1>1, <1>2

(* The end of an object's data may be missing, or of the object itself.    *)
LEMMA CutOfWhole ==
    ASSUME NEW o, Exact(o), NEW d \in Seq(Byte), NEW n \in Nat,
           n <= Len(Encoded(o) \o d), NEW b, b = Cut(Encoded(o) \o d, n)
    PROVE  /\ b \in Seq(Byte) /\ Spelled(o, b, 0)
           /\ Len(b) = HeaderLength(o) + Len(d) - n
<1>1. PICK e \in Seq(Byte), h \in 1 .. 10 :
         e = Encoded(o) /\ h = HeaderLength(o) /\ Len(e) = h
  BY EncodedBytes
<1>2. PICK c : c = e \o d
  OBVIOUS
<1>3. PICK k \in Nat : k = Len(d)
  BY LenProperties
<1>4. /\ c \in Seq(Byte) /\ Len(c) = Len(e) + Len(d)
      /\ \A i \in 1 .. Len(e) : c[i] = e[i]
  BY <1>2, ConcatProperties, LenProperties
<1>5. Len(c) = h + k /\ \A i \in 1 .. h : c[i] = e[i]
  BY <1>1, <1>3, <1>4
<1>a. n <= Len(c)
  BY <1>1, <1>2, Zenon
<1>b. PICK m \in Int : m = h + k - n /\ m = Len(c) - n
  BY <1>5
<1>9. b = Cut(c, n)
  BY <1>1, <1>2, Zenon
<1>10. b \in Seq(Byte) /\ Len(b) = m /\ \A i \in 1 .. m : b[i] = c[i]
  <2>1. /\ Cut(c, n) \in Seq(Byte) /\ Len(Cut(c, n)) = Len(c) - n
        /\ \A i \in 1 .. Len(c) - n : Cut(c, n)[i] = c[i]
    BY <1>4, <1>a, CutBytes
  <2> QED
    BY <1>9, <1>b, <2>1
<1>11. Spelled(o, b, 0)
  <2> SUFFICES ASSUME NEW i \in 1 .. h, 0 + i <= m PROVE b[0 + i] = e[i]
    BY <1>1, <1>10 DEF Spelled
  <2> QED
    BY <1>5, <1>10
<1> QED
  BY <1>1, <1>3, <1>b, <1>10, <1>11

(* What the reader of an object finds of what the writer of r wrote, when  *)
(* n bytes are missing at the end: o, if that is still there.              *)
Carries(b, n, o, r) ==
    /\ b \in Seq(Byte) /\ Stands(o, r) /\ DataOf(r) \in Seq(Byte)
    /\ HeaderLength(o) \in Nat /\ SizeOf(o.as) \in Nat
    /\ Len(DataOf(r)) <= SizeOf(o.as)
    /\ Len(b) = HeaderLength(o) + Len(DataOf(r)) - n
    /\ IF HeaderLength(o) <= Len(b)
       THEN cmp_read_object(b, 0) = Read(o, HeaderLength(o))
       ELSE ~cmp_read_object(b, 0).ok

(* It does so for every request.                                           *)
LEMMA WrittenIsCarried ==
    ASSUME NEW r \in Requests, Writer(r).error = "NONE",
           NEW whole, whole = Flat(Writer(r).calls), NEW n \in Nat,
           n <= Len(whole), NEW b, b = Cut(whole, n)
    PROVE  \E o : Carries(b, n, o, r)
<1>1. PICK o : /\ Stands(o, r) /\ DataOf(r) \in Seq(Byte)
               /\ Len(DataOf(r)) <= SizeOf(o.as)
  BY WriterStands
<1>2. PICK d \in Seq(Byte) : d = DataOf(r)
  BY <1>1
<1>3. Exact(o) /\ whole = Encoded(o) \o d
  BY <1>1, <1>2 DEF Stands, Puts
<1>4. /\ b \in Seq(Byte) /\ Spelled(o, b, 0)
      /\ Len(b) = HeaderLength(o) + Len(d) - n
  BY <1>3, CutOfWhole
<1>5. PICK h \in Nat : h = HeaderLength(o)
  BY <1>3, EncodedBytes
<1>6. IF 0 + h <= Len(b) THEN cmp_read_object(b, 0) = Read(o, 0 + h)
      ELSE ~cmp_read_object(b, 0).ok
  BY <1>3, <1>4, <1>5, ReadBack
<1>7. 0 + h = h
  OBVIOUS
<1>8. SizeOf(o.as) \in Nat
  BY <1>3, SizeIsNat DEF Exact, Sound
<1>9. IF h <= Len(b) THEN cmp_read_object(b, 0) = Read(o, h)
      ELSE ~cmp_read_object(b, 0).ok
  BY <1>6, <1>7
<1> QED
  BY <1>1, <1>2, <1>4, <1>5, <1>8, <1>9 DEF Carries

(* A reader of data has read an object, and its data is there.             *)
LEMMA DataIsThere ==
    ASSUME NEW b \in Seq(Byte), NEW r, NEW room, NEW o,
           o = cmp_read_object(b, 0), DataReader(r, b, room).ok
    PROVE  o.ok /\ o.pos + SizeOf(o.obj.as) <= Len(b)
<1>1. \A e, p : ~Failed(e, p).ok
  BY DEF Failed
<1>2. PICK x : x = IF r = "str" THEN "str_size" ELSE IF r = "bin"
                   THEN "bin_size" ELSE "ext_marker"
  OBVIOUS
<1>3. PICK first : first = cmp_read(x, b, 0)
  OBVIOUS
<1>4. first = IF ~o.ok \/ Takes(x, o.obj) THEN o
              ELSE Failed("INVALID_TYPE", o.pos)
  BY <1>3 DEF cmp_read
<1>5. first.ok /\ Fetch(first, b).ok
  <2>1. CASE r = "str"
    <3>1. DataReader(r, b, room) = cmp_read_str(b, 0, room)
      BY <2>1 DEF DataReader
    <3>2. cmp_read_str(b, 0, room) = IF ~first.ok THEN first
             ELSE IF StrTooLong(first.obj.as, room)
             THEN Failed("STR_DATA_LENGTH_TOO_LONG", first.pos)
             ELSE Fetch(first, b)
      BY <1>2, <1>3, <2>1 DEF cmp_read_str
    <3> QED
      BY <1>1, <3>1, <3>2
  <2>2. CASE r = "bin"
    <3>1. DataReader(r, b, room) = cmp_read_bin(b, 0, room)
      BY <2>2 DEF DataReader
    <3>2. cmp_read_bin(b, 0, room) = IF ~first.ok THEN first
             ELSE IF BinTooLong(first.obj.as, room)
             THEN Failed("BIN_DATA_LENGTH_TOO_LONG", first.pos)
             ELSE Fetch(first, b)
      BY <1>2, <1>3, <2>2 DEF cmp_read_bin
    <3> QED
      BY <1>1, <3>1, <3>2
  <2>3. CASE r \notin {"str", "bin"}
    <3>1. DataReader(r, b, room) = cmp_read_ext("ext_marker", b, 0)
      BY <2>3 DEF DataReader
    <3>2. cmp_read_ext("ext_marker", b, 0) = IF first.ok THEN Fetch(first, b)
                                             ELSE first
      BY <1>2, <1>3, <2>3 DEF cmp_read_ext
    <3> QED
      BY <3>1, <3>2
  <2> QED
    BY <2>1, <2>2, <2>3
<1>6. first = o
  BY <1>1, <1>4, <1>5
<1>7. ~Exceeds(o.obj.as, Len(b) - o.pos)
  BY <1>1, <1>5, <1>6 DEF Fetch
<1>8. Len(b) \in Nat /\ 0 \in 0 .. Len(b)
  BY LenProperties
<1>9. o.obj.as \in Word /\ o.pos \in 0 .. Len(b)
  BY <1>5, <1>6, <1>8, ObjectRead DEF InBounds, Sound
<1>10. Len(b) - o.pos \in Int /\ SizeOf(o.obj.as) \in Nat
  BY <1>8, <1>9, SizeIsNat
<1>11. ~(SizeOf(o.obj.as) > Len(b) - o.pos)
  BY <1>7, <1>9, <1>10, ExceedsMeans
<1> QED
  BY <1>5, <1>6, <1>8, <1>9, <1>10, <1>11

(* cmp_write_object gives back the bytes that cmp_read_object read.        *)
LEMMA WrittenBack ==
    ASSUME NEW b \in Seq(Byte), NEW res, res = cmp_read_object(b, 0), res.ok,
           res.pos <= Len(b), NEW w, w = cmp_write_object(res.obj)
    PROVE  Written(w, Len(w.calls)) = SubSeq(b, 1, res.pos)
<1>1. PICK o : o = res.obj
  OBVIOUS
<1>2. Exact(o) /\ Spelled(o, b, 0) /\ res.pos = 0 + HeaderLength(o)
  BY <1>1, ReadIsFaithful DEF Faithful
<1>3. PICK e \in Seq(Byte), h \in 1 .. 10 :
         e = Encoded(o) /\ h = HeaderLength(o) /\ Len(e) = h
  BY <1>2, EncodedBytes
<1>4. res.pos = h /\ h <= Len(b)
  BY <1>2, <1>3
<1>5. \A i \in 1 .. h : b[i] = e[i]
  <2> SUFFICES ASSUME NEW i \in 1 .. h PROVE b[i] = e[i]
    OBVIOUS
  <2>1. 0 + i <= Len(b) => b[0 + i] = e[i]
    BY <1>2, <1>3 DEF Spelled
  <2> QED
    BY <1>4, <2>1, LenProperties
<1>6. Puts(w, e)
  BY <1>1, <1>2, <1>3, ObjectPuts
<1>7. Written(w, Len(w.calls)) = e
  BY <1>6, WrittenIsFlat DEF Puts
<1>8. PICK s : s = SubSeq(b, 1, h)
  OBVIOUS
<1>9. \A i \in 1 .. h : b[i] \in Byte
  BY <1>3, <1>5, ElementOfSeq
<1>10. /\ s \in Seq(Byte) /\ Len(s) = IF 1 <= h THEN h - 1 + 1 ELSE 0
       /\ \A i \in 1 .. h - 1 + 1 : s[i] = b[1 + i - 1]
  BY <1>8, <1>9, SubSeqProperties
<1>11. Len(s) = h /\ \A i \in 1 .. h : s[i] = e[i]
  BY <1>5, <1>10
<1>12. s = e
  BY <1>3, <1>10, <1>11, SeqEqual
<1> QED
  BY <1>4, <1>7, <1>8, <1>12

(* The inductive invariant: while an object that was written awaits its    *)
(* reader, all its bytes, and no others, are on the wire.                  *)
RoundInv ==
    /\ step \in {"write", "send"} => req.op \notin {"object", "raw"}
    /\ (step = "read" /\ req.op = "object" /\ req.wrote) =>
          /\ req.of \in Requests /\ Writer(req.of).error = "NONE"
          /\ wire = Flat(Writer(req.of).calls)
    /\ RoundTrip
    /\ TruncatedIsRefused

(* What one reader makes of a request whose last n bytes are missing.      *)
LEMMA ReaderOfWritten ==
    ASSUME NEW r, NEW n \in Nat, NEW b, NEW o, Carries(b, n, o, r),
           NEW reader, NEW res,
           res = IF reader = "object" THEN cmp_read_object(b, 0)
                 ELSE cmp_read(reader, b, 0)
    PROVE  /\ n = 0 /\ reader = PairedReader[r.op] /\ reader # "object"
                 => res.ok
           /\ res.ok => /\ res.obj = o /\ res.pos = HeaderLength(o)
                        /\ n <= Len(DataOf(r))
           /\ Len(DataOf(r)) \in Nat
<1>1. PICK h \in Nat, k \in Nat : h = HeaderLength(o) /\ k = Len(DataOf(r))
  BY LenProperties DEF Carries
<1>2. PICK first : first = cmp_read_object(b, 0)
  OBVIOUS
<1>3. Len(b) = h + k - n
  BY <1>1 DEF Carries
<1>4. IF h <= h + k - n THEN first = Read(o, h) ELSE ~first.ok
  BY <1>1, <1>2, <1>3 DEF Carries
<1>5. Read(o, h).ok /\ Read(o, h).obj = o /\ Read(o, h).pos = h
  BY DEF Read
<1>6. \A e, p : ~Failed(e, p).ok
  BY DEF Failed
<1>7. first.ok => first.obj = o /\ first.pos = h /\ n <= k
  BY <1>4, <1>5
<1>8. n = 0 => first = Read(o, h)
  BY <1>4
<1>9. CASE reader = "object"
  BY <1>1, <1>2, <1>7, <1>9
<1>10. CASE reader # "object"
  <2>1. res = IF ~first.ok \/ Takes(reader, first.obj) THEN first
              ELSE Failed("INVALID_TYPE", first.pos)
    BY <1>2, <1>10 DEF cmp_read
  <2>2. res.ok => first.ok /\ res = first
    BY <1>6, <2>1
  <2>3. ASSUME n = 0, reader = PairedReader[r.op] PROVE res.ok
    <3>1. first = Read(o, h)
      BY <1>8, <2>3
    <3>2. first.ok /\ first.obj = o
      BY <1>5, <3>1
    <3>3. Takes(reader, o)
      BY <2>3 DEF Carries, Stands
    <3> QED
      BY <2>1, <3>2, <3>3
  <2> QED
    BY <1>1, <1>7, <2>2, <2>3
<1> QED
  BY <1>9, <1>10

(* A read of an object keeps RoundInv.                                     *)
LEMMA ReadObjectRounds ==
    ASSUME DecodeInv, RoundInv, ReadObject PROVE RoundInv'
<1>1. PICK r \in Readers \cup {"object"}, n \in 0 .. MaxCut :
         /\ n <= Len(wire)
         /\ wire' = Cut(wire, n)
         /\ got' = [ok |-> TRUE, reader |-> r, cut |-> n,
                    result |-> IF r = "object" THEN cmp_read_object(wire', 0)
                               ELSE cmp_read(r, wire', 0)]
  BY DEF ReadObject
<1>2. wire \in Seq(Byte) /\ n \in Nat
  BY WireAssumption DEF DecodeInv, ReadObject
<1>3. PICK b \in Seq(Byte) : b = wire'
  BY <1>1, <1>2, CutBytes
<1>4. PICK res : res = IF r = "object" THEN cmp_read_object(b, 0)
                       ELSE cmp_read(r, b, 0)
  OBVIOUS
<1>5. got'.reader = r /\ got'.result = res /\ got'.cut = n
  BY <1>1, <1>3, <1>4
<1>6. step' = "done" /\ req' = req /\ step = "read"
  BY DEF ReadObject
<1>7. PICK q : q = req.of
  OBVIOUS
<1>8. ASSUME req.op = "object", req.wrote
      PROVE  \E o : Carries(b, n, o, q)
  <2>1. PICK whole : whole = Flat(Writer(q).calls)
    OBVIOUS
  <2>2. q \in Requests /\ Writer(q).error = "NONE" /\ wire = whole
    BY <1>6, <1>7, <1>8, <2>1 DEF RoundInv
  <2> QED
    BY <1>1, <1>2, <1>3, <2>1, <2>2, WrittenIsCarried
<1>9. "object" \notin Readers
  BY DEF Readers, ExactReader, ExactUnsignedReader, SignedReader,
         UnsignedReader, RealReader, SizeReader, ExtReader
<1>10. ASSUME req.op = "object", req.wrote, n = 0, r \in Readers
       PROVE  /\ r = PairedReader[q.op] => res.ok
              /\ res.ok =>
                    /\ res.obj.as = Meaning(q)
                    /\ q.op \in {"ext", "ext_marker"} => res.obj.ext = q.x
                    /\ Len(b) - res.pos =
                          IF q.op \in WithData THEN Len(q.data) ELSE 0
  <2>1. PICK o : Carries(b, n, o, q)
    BY <1>8, <1>10
  <2>2. /\ r = PairedReader[q.op] => res.ok
        /\ res.ok => res.obj = o /\ res.pos = HeaderLength(o)
        /\ Len(DataOf(q)) \in Nat
    BY <1>2, <1>4, <1>9, <1>10, <2>1, ReaderOfWritten
  <2>3. /\ o.as = Meaning(q)
        /\ q.op \in {"ext", "ext_marker"} => o.ext = q.x
    BY <2>1 DEF Carries, Stands
  <2>4. PICK h \in Nat, k \in Nat : h = HeaderLength(o) /\ k = Len(DataOf(q))
    BY <2>1, <2>2 DEF Carries
  <2>5. Len(b) = h + k
    BY <1>10, <2>1, <2>4 DEF Carries
  <2>6. k = IF q.op \in WithData THEN Len(q.data) ELSE 0
    BY <2>4, EmptySeq DEF DataOf
  <2> QED
    BY <2>2, <2>3, <2>4, <2>5, <2>6
<1>11. ASSUME r = "object", res.ok, NEW w, w = cmp_write_object(res.obj),
              NEW w4, w4 = cmp_write_object_v4(res.obj)
       PROVE  /\ Written(w, Len(w.calls)) = SubSeq(b, 1, res.pos)
              /\ IF res.obj.type = "STR8" THEN w4.error # "NONE" ELSE w4 = w
  <2>1. res = cmp_read_object(b, 0)
    BY <1>4, <1>11
  <2>2. 0 \in 0 .. Len(b)
    BY LenProperties
  <2>3. res.pos <= Len(b)
    BY <2>1, <2>2, ObjectRead DEF InBounds
  <2>4. Written(w, Len(w.calls)) = SubSeq(b, 1, res.pos)
    BY <1>11, <2>1, <2>3, WrittenBack
  <2>5. IF res.obj.type = "STR8" THEN w4.error # "NONE" ELSE w4 = w
    BY <1>11 DEF cmp_write_object_v4, Refuse
  <2> QED
    BY <2>4, <2>5
<1>12. RoundTrip'
  BY <1>3, <1>5, <1>6, <1>7, <1>10, <1>11 DEF RoundTrip, Complete, Decoded
<1>13. ASSUME req.op = "object", req.wrote, n > 0, res.ok
       PROVE  q.op \in WithData /\ n <= Len(q.data)
  <2>1. PICK o : Carries(b, n, o, q)
    BY <1>8, <1>13
  <2>2. n <= Len(DataOf(q))
    BY <1>2, <1>4, <1>13, <2>1, ReaderOfWritten
  <2>3. CASE q.op \notin WithData
    <3>1. Len(DataOf(q)) = 0
      BY <2>3, EmptySeq DEF DataOf
    <3> QED
      BY <1>2, <1>13, <2>2, <3>1
  <2> QED
    BY <2>2, <2>3 DEF DataOf
<1>14. TruncatedIsRefused'
  BY <1>5, <1>6, <1>7, <1>13 DEF TruncatedIsRefused, Decoded
<1> QED
  BY <1>6, <1>12, <1>14 DEF RoundInv

(* A read of a string, binary data or an extension keeps RoundInv.         *)
LEMMA ReadDataRounds ==
    ASSUME DecodeInv, RoundInv, ReadData PROVE RoundInv'
<1>1. PICK r \in {"str", "bin", "ext"}, n \in 0 .. MaxCut, room \in Rooms :
         /\ n <= Len(wire)
         /\ wire' = Cut(wire, n)
         /\ got'.reader = r /\ got'.cut = n
         /\ got'.result = DataReader(r, wire', room)
  BY DEF ReadData
<1>2. wire \in Seq(Byte) /\ n \in Nat
  BY WireAssumption DEF DecodeInv, ReadData
<1>3. PICK b \in Seq(Byte) : b = wire'
  BY <1>1, <1>2, CutBytes
<1>4. step' = "done" /\ req' = req /\ step = "read"
  BY DEF ReadData
<1>5. r \notin Readers \cup {"object"}
  BY DEF Readers, ExactReader, ExactUnsignedReader, SignedReader,
         UnsignedReader, RealReader, SizeReader, ExtReader
<1>6. RoundTrip'
  BY <1>1, <1>5 DEF RoundTrip
<1>7. PICK q : q = req.of
  OBVIOUS
<1>8. ASSUME req.op = "object", req.wrote, n > 0,
             DataReader(r, b, room).ok
      PROVE  FALSE
  <2>1. PICK whole : whole = Flat(Writer(q).calls)
    OBVIOUS
  <2>2. q \in Requests /\ Writer(q).error = "NONE" /\ wire = whole
    BY <1>4, <1>7, <1>8, <2>1 DEF RoundInv
  <2>3. PICK o : Carries(b, n, o, q)
    BY <1>1, <1>2, <1>3, <2>1, <2>2, WrittenIsCarried
  <2>4. PICK first : first = cmp_read_object(b, 0)
    OBVIOUS
  <2>5. first.ok /\ first.pos + SizeOf(first.obj.as) <= Len(b)
    BY <1>8, <2>4, DataIsThere
  <2>6. first.obj = o /\ first.pos = HeaderLength(o)
        /\ Len(DataOf(q)) \in Nat
    <3>1. PICK reader : reader = "object"
      OBVIOUS
    <3>2. first = IF reader = "object" THEN cmp_read_object(b, 0)
                  ELSE cmp_read(reader, b, 0)
      BY <2>4, <3>1
    <3>3. PICK first_ok : first_ok = first.ok
      OBVIOUS
    <3>4. /\ first_ok => first.obj = o /\ first.pos = HeaderLength(o)
          /\ Len(DataOf(q)) \in Nat
      BY <1>2, <2>3, <3>2, <3>3, ReaderOfWritten, SMTT(30)
    <3> QED
      BY <2>5, <3>3, <3>4
  <2>7. PICK h \in Nat, k \in Nat, s \in Nat :
           h = HeaderLength(o) /\ k = Len(DataOf(q)) /\ s = SizeOf(o.as)
    BY <2>3, <2>6 DEF Carries
  <2>8. k <= s /\ Len(b) = h + k - n
    BY <2>3, <2>5, <2>6, <2>7 DEF Carries
  <2> QED
    BY <1>2, <1>8, <2>5, <2>6, <2>7, <2>8
<1>9. TruncatedIsRefused'
  BY <1>1, <1>3, <1>4, <1>8 DEF TruncatedIsRefused
<1> QED
  BY <1>4, <1>6, <1>9 DEF RoundInv

(* RoundInv is inductive next to DecodeInv: one step per action.           *)
LEMMA RoundAlways == Spec => []RoundInv
<1>1. Init => RoundInv
  BY DEF Init, RoundInv, RoundTrip, TruncatedIsRefused, Complete, Decoded
<1>2. DecodeInv /\ RoundInv /\ [Next]_vars => RoundInv'
  <2> SUFFICES ASSUME DecodeInv, RoundInv, [Next]_vars PROVE RoundInv'
    OBVIOUS
  <2>0. ASSUME step' # "done" \/ req'.op \notin {"object", "raw"},
               step' \in {"write", "send"} => req'.op \notin {"object", "raw"},
               step' # "read" \/ req'.op # "object"
        PROVE  RoundInv'
    BY <2>0 DEF RoundInv, RoundTrip, TruncatedIsRefused, Complete, Decoded
  <2>1. CASE WriteObject
    <3>1. PICK r \in Objects, room \in Rooms :
             /\ req' = [op |-> "object", of |-> r,
                        wrote |-> Outcome(Writer(r), room).ok,
                        error |-> Outcome(Writer(r), room).error]
             /\ wire' = Outcome(Writer(r), room).bytes
      BY <2>1 DEF WriteObject
    <3>2. r \in Requests
      BY WireAssumption
    <3>3. PICK w : w = Writer(r)
      OBVIOUS
    <3>4. Writes(w, WriteCall, 4)
      BY <3>2, <3>3, WriterWrites
    <3>5. w.calls \in Seq(WriteCall)
      BY <3>4 DEF Writes
    <3>6. Outcome(w, room).ok =>
             /\ w.error = "NONE" /\ Outcome(w, room).bytes = Flat(w.calls)
      BY <3>5, OutcomeOk, WrittenIsFlat
    <3>7. /\ req'.wrote = Outcome(w, room).ok /\ req'.of = r
          /\ wire' = Outcome(w, room).bytes
      BY <3>1, <3>3
    <3>8. req'.wrote => /\ req'.of \in Requests
                        /\ Writer(req'.of).error = "NONE"
                        /\ wire' = Flat(Writer(req'.of).calls)
      BY <3>2, <3>3, <3>6, <3>7
    <3>9. step' = "read"
      BY <2>1 DEF WriteObject
    <3> QED
      BY <3>8, <3>9
         DEF RoundInv, RoundTrip, TruncatedIsRefused, Complete, Decoded
  <2>2. CASE ReceiveObject
    <3>1. step' = "read" /\ req'.op = "raw"
      BY <2>2 DEF ReceiveObject
    <3> QED
      BY <2>0, <3>1
  <2>3. CASE ReadObject
    BY <2>3, ReadObjectRounds
  <2>4. CASE ReadData
    BY <2>4, ReadDataRounds
  <2>5. CASE mux_write_outgoing_msg
    <3>1. step' = "write" /\ req'.op \in {"update", "switch", "shutdown"}
      BY <2>5 DEF mux_write_outgoing_msg
    <3> QED
      BY <2>0, <3>1
  <2>6. CASE mux_msg_writer
    <3>1. step' = "write" /\ req' = req /\ step = "write"
      BY <2>6 DEF mux_msg_writer
    <3> QED
      BY <2>0, <3>1 DEF RoundInv
  <2>7. CASE mux_0mq_send_msg
    <3>1. step' = "send" /\ req' = req /\ step = "write"
      BY <2>7 DEF mux_0mq_send_msg
    <3> QED
      BY <2>0, <3>1 DEF RoundInv
  <2>8. CASE ServerUnpacks
    <3>1. step' = "done" /\ req' = req /\ step = "send"
      BY <2>8 DEF ServerUnpacks
    <3> QED
      BY <2>0, <3>1 DEF RoundInv
  <2>9. CASE ServerPacks
    <3>1. step' = "read" /\ req'.op = "event"
      BY <2>9 DEF ServerPacks
    <3> QED
      BY <2>0, <3>1
  <2>10. CASE mux_process_incoming_msg
    <3>1. step' = "done" /\ req' = req /\ req.op = "event"
      BY <2>10 DEF mux_process_incoming_msg
    <3> QED
      BY <2>0, <3>1
  <2>11. CASE Return
    <3>1. step' = "idle"
      BY <2>11 DEF Return
    <3> QED
      BY <2>0, <3>1
  <2>12. CASE UNCHANGED vars
    BY <2>12
       DEF vars, RoundInv, RoundTrip, TruncatedIsRefused, Complete, Decoded
  <2> QED
    BY <2>1, <2>2, <2>3, <2>4, <2>5, <2>6, <2>7, <2>8, <2>9, <2>10, <2>11,
       <2>12 DEF Next
<1> QED
  BY <1>1, <1>2, DecodeAlways, PTL DEF Spec

(* What any writer of cmp wrote, its reader accepts and every reader that  *)
(* accepts it returns the value that was written; and cmp_write_object     *)
(* gives back the bytes that cmp_read_object read: for every argument, for *)
(* every string of bytes and on a host of either byte order.               *)
THEOREM WhatIsWrittenIsRead == Spec => []RoundTrip
<1>1. RoundInv => RoundTrip
  BY DEF RoundInv
<1> QED
  BY <1>1, RoundAlways, PTL

(* An object that has lost its end is refused, wherever it was cut.        *)
THEOREM CutObjectsAreRefused == Spec => []TruncatedIsRefused
<1>1. RoundInv => TruncatedIsRefused
  BY DEF RoundInv
<1> QED
  BY <1>1, RoundAlways, PTL
-----------------------------------------------------------------------------
(* Messages: an array of numbers, spelled out.                             *)

(* Messages: an array of numbers.  The object that stands for an int, the  *)
(* marker of an array of n, and where in a message each number ends.       *)
Item(n) == UIntObject(IntWord(n))
Start(n) == Object("FIXARRAY", Small(n), 0)
Vector(f) == f \in Seq(Int) /\ Len(f) \in 1 .. 15

Layout(f, q) ==
    /\ q \in [0 .. Len(f) -> Nat] /\ q[0] = 1
    /\ \A i \in 1 .. Len(f) : q[i] = q[i - 1] + HeaderLength(Item(f[i]))

(* As far as they go the bytes b spell the marker and the first i numbers  *)
(* of a message; and they go no further than these.                        *)
Spells(b, f, q, i) ==
    /\ b \in Seq(Byte) /\ Spelled(Start(Len(f)), b, 0)
    /\ \A j \in 1 .. i : Spelled(Item(f[j]), b, q[j - 1])

Whole(b, f, q, i) ==
    /\ Spells(b, f, q, i) /\ Len(b) = q[i]
    /\ \A j \in 0 .. i : q[j] <= Len(b)

(* The number of an int.                                                   *)
LEMMA ItemExact ==
    ASSUME NEW n \in Int
    PROVE  /\ Exact(Item(n)) /\ Item(n).as = IntWord(n)
           /\ Item(n).type = UIntType(IntWord(n))
           /\ HeaderLength(Item(n)) \in 1 .. 10
           /\ Puts(cmp_write_uinteger(IntWord(n)), Encoded(Item(n)))
<1>1. PICK v \in Word : v = IntWord(n)
  BY IntWordType
<1>2. PICK o : o = UIntObject(v)
  OBVIOUS
<1>3. /\ Exact(o) /\ o.as = v /\ o.type = UIntType(v)
      /\ Puts(cmp_write_uinteger(v), Encoded(o))
  BY <1>2, UIntPuts
<1>4. HeaderLength(o) \in 1 .. 10
  BY <1>3, EncodedBytes
<1> QED
  BY <1>1, <1>2, <1>3, <1>4 DEF Item

(* The marker of an array.                                                 *)
LEMMA StartExact ==
    ASSUME NEW n \in 0 .. 15
    PROVE  /\ Exact(Start(n)) /\ HeaderLength(Start(n)) = 1
           /\ Encoded(Start(n)) = <<144 + n>>
           /\ ArrayOf(n) \in Seq(WriteCall)
           /\ Flat(ArrayOf(n)) = <<144 + n>>
           /\ Takes("array", Start(n))
<1>1. n \in Byte
  BY DEF Byte
<1>2. PICK v \in Word : v = Small(n) /\ FitsUnsigned(v, 1) /\ v[8] = n
  BY <1>1, SmallWord
<1>3. PICK o : o = Start(n)
  OBVIOUS
<1>4. o = Object("FIXARRAY", v, 0)
  BY <1>2, <1>3 DEF Start
<1>5. o.type = "FIXARRAY" /\ o.as = v
  BY <1>4 DEF Object
<1>6. "FIXARRAY" \in DOMAIN FixSize /\ FixSize["FIXARRAY"] = 15
  BY DEF FixSize
<1>7. Exact(o) /\ Puts(FixMarker("FIXARRAY", v), Encoded(o))
  BY <1>2, <1>4, <1>6, FixObject
<1>8. PICK m : m = MarkerByte(o)
  OBVIOUS
<1>9. m = 144 + n
  BY <1>2, <1>5, <1>6, <1>8, MarkerValues DEF MarkerByte
<1>10. "FIXARRAY" \in MarkerOnly /\ "FIXARRAY" \notin Numbered
       /\ "FIXARRAY" \notin ExtTypes
  BY <1>6, TypeSets DEF ExtTypes
<1>11. Encoded(o) = <<m>>
  BY <1>5, <1>7, <1>8, <1>10, EncodedShort
<1>12. HeaderLength(o) = 1
  BY <1>5, <1>10 DEF HeaderLength, NumberWidth
<1>13. cmp_write_array(v) = FixMarker("FIXARRAY", v)
  BY <1>2 DEF cmp_write_array
<1>14. ArrayOf(n) = FixMarker("FIXARRAY", v).calls
  BY <1>2, <1>13 DEF ArrayOf
<1>15. Takes("array", o)
  BY <1>5 DEF Takes, SizeReader
<1> QED
  BY <1>3, <1>7, <1>9, <1>11, <1>12, <1>14, <1>15 DEF Puts

(* Every vector has a layout.                                              *)
LEMMA Layouts ==
    ASSUME NEW f \in Seq(Int) PROVE \E q : Layout(f, q)
<1>0. PICK n \in Nat : n = Len(f)
  BY LenProperties
<1>1. PICK h : h = [i \in 1 .. n |-> HeaderLength(Item(f[i]))]
  OBVIOUS
<1>2. \A i \in 1 .. n : h[i] \in Nat /\ h[i] = HeaderLength(Item(f[i]))
  <2> SUFFICES ASSUME NEW i \in 1 .. n
               PROVE  h[i] \in Nat /\ h[i] = HeaderLength(Item(f[i]))
    OBVIOUS
  <2>1. f[i] \in Int
    BY <1>0, ElementOfSeq
  <2>2. HeaderLength(Item(f[i])) \in 1 .. 10
    BY <2>1, ItemExact
  <2> QED
    BY <1>1, <2>2
<1>3. PICK next : next = [x \in (1 .. n) \X Nat |-> x[2] + h[x[1]]]
  OBVIOUS
<1>4. next \in [(1 .. n) \X Nat -> Nat]
  BY <1>2, <1>3
<1>5. PICK q : Iterates(q, n, Nat, 1, next)
  <2>1. 1 \in Nat
    OBVIOUS
  <2> QED
    BY <1>4, <2>1, Recursion
<1>6. q \in [0 .. n -> Nat] /\ q[0] = 1
  BY <1>5 DEF Iterates
<1>7. ASSUME NEW i \in 1 .. n PROVE q[i] = q[i - 1] + h[i]
  <2>1. q[i - 1] \in Nat
    BY <1>6
  <2>2. q[i] = next[<<i, q[i - 1]>>]
    BY <1>5 DEF Iterates
  <2> QED
    BY <1>3, <2>1, <2>2
<1> QED
  BY <1>0, <1>2, <1>6, <1>7 DEF Layout

(* Bytes that agree with b as far as they go spell what b spells.          *)
LEMMA SpelledStill ==
    ASSUME NEW o, Exact(o), NEW b \in Seq(Byte), NEW p \in Nat,
           p + HeaderLength(o) <= Len(b), Spelled(o, b, p),
           NEW c \in Seq(Byte),
           \A k \in 1 .. Len(b) : k <= Len(c) => c[k] = b[k]
    PROVE  Spelled(o, c, p)
<1>1. PICK h \in 1 .. 10 : h = HeaderLength(o)
  BY EncodedBytes
<1>2. PICK m \in Nat, n \in Nat : m = Len(b) /\ n = Len(c)
  BY LenProperties
<1>3. ASSUME NEW i \in 1 .. h, p + i <= n PROVE c[p + i] = Encoded(o)[i]
  <2>1. p + i \in 1 .. m
    BY <1>1, <1>2
  <2>2. b[p + i] = Encoded(o)[i]
    BY <1>1, <1>2, <2>1 DEF Spelled
  <2> QED
    BY <1>2, <1>3, <2>1, <2>2
<1> QED
  BY <1>1, <1>2, <1>3 DEF Spelled

(* An object that is written behind b is spelled there.                    *)
LEMMA SpelledHere ==
    ASSUME NEW o, Exact(o), NEW b \in Seq(Byte), NEW c,
           c = b \o Encoded(o)
    PROVE  /\ c \in Seq(Byte) /\ Len(c) = Len(b) + HeaderLength(o)
           /\ Spelled(o, c, Len(b))
           /\ \A k \in 1 .. Len(b) : c[k] = b[k]
<1>1. PICK e \in Seq(Byte), h \in 1 .. 10 :
         e = Encoded(o) /\ h = HeaderLength(o) /\ Len(e) = h
  BY EncodedBytes
<1>2. PICK m \in Nat : m = Len(b)
  BY LenProperties
<1>3. c = b \o e
  BY <1>1
<1>4. /\ c \in Seq(Byte) /\ Len(c) = Len(b) + Len(e)
      /\ \A i \in 1 .. Len(b) + Len(e) :
            c[i] = IF i <= Len(b) THEN b[i] ELSE e[i - Len(b)]
  BY <1>3, ConcatProperties
<1>5. /\ Len(c) = m + h
      /\ \A i \in 1 .. m + h : c[i] = IF i <= m THEN b[i] ELSE e[i - m]
  BY <1>1, <1>2, <1>4
<1>6. \A i \in 1 .. h : c[m + i] = e[i]
  <2> SUFFICES ASSUME NEW i \in 1 .. h PROVE c[m + i] = e[i]
    OBVIOUS
  <2>1. m + i \in 1 .. m + h /\ ~(m + i <= m) /\ (m + i) - m = i
    OBVIOUS
  <2> QED
    BY <1>5, <2>1
<1> QED
  BY <1>1, <1>2, <1>4, <1>5, <1>6 DEF Spelled

(* Bytes that agree with a message as far as they go spell it.             *)
LEMMA SpellsStill ==
    ASSUME NEW f, Vector(f), NEW q, Layout(f, q), NEW i \in 0 .. Len(f),
           NEW b, Whole(b, f, q, i), NEW c \in Seq(Byte),
           \A k \in 1 .. Len(b) : k <= Len(c) => c[k] = b[k]
    PROVE  Spells(c, f, q, i)
<1>0. PICK n \in 1 .. 15 : n = Len(f)
  BY DEF Vector
<1>1. b \in Seq(Byte) /\ Len(b) \in Nat
  BY LenProperties DEF Whole, Spells
<1>2. Spelled(Start(n), c, 0)
  <2>1. PICK s : s = Start(n)
    OBVIOUS
  <2>2. Exact(s) /\ HeaderLength(s) = 1
    <3>1. n \in 0 .. 15
      OBVIOUS
    <3> QED
      BY <2>1, <3>1, StartExact, Zenon
  <2>3. q[0] = 1 /\ q[0] <= Len(b)
    <3>1. 0 \in 0 .. i
      BY <1>0
    <3> QED
      BY <3>1 DEF Whole, Layout
  <2>4. Spelled(s, b, 0)
    BY <1>0, <2>1 DEF Whole, Spells
  <2>5. 0 + HeaderLength(s) <= Len(b) /\ 0 \in Nat
    BY <2>2, <2>3
  <2>6. Spelled(s, c, 0)
    BY <1>1, <2>2, <2>4, <2>5, SpelledStill
  <2> QED
    BY <2>1, <2>6
<1>3. ASSUME NEW j \in 1 .. i PROVE Spelled(Item(f[j]), c, q[j - 1])
  <2>1. f[j] \in Int /\ j \in 1 .. n /\ j - 1 \in 0 .. n
    BY <1>0, ElementOfSeq DEF Vector
  <2>2. PICK o : o = Item(f[j])
    OBVIOUS
  <2>3. Exact(o)
    BY <2>1, <2>2, ItemExact
  <2>4. PICK p \in Nat : p = q[j - 1]
    BY <1>0, <2>1 DEF Layout
  <2>5. q[j] = p + HeaderLength(o) /\ q[j] <= Len(b)
    BY <1>0, <2>1, <2>2, <2>4 DEF Layout, Whole
  <2>6. Spelled(o, b, p)
    BY <2>2, <2>4 DEF Whole, Spells
  <2>7. Spelled(o, c, p)
    BY <1>1, <2>3, <2>5, <2>6, SpelledStill
  <2> QED
    BY <2>2, <2>4, <2>7
<1> QED
  BY <1>0, <1>2, <1>3 DEF Spells

(* A message begins with its marker ...                                    *)
LEMMA WholeStart ==
    ASSUME NEW f, Vector(f), NEW q, Layout(f, q), NEW b,
           b = <<144 + Len(f)>>
    PROVE  Whole(b, f, q, 0)
<1>0. PICK n \in 1 .. 15 : n = Len(f)
  BY DEF Vector
<1>1. PICK s : s = Start(n)
  OBVIOUS
<1>2. Exact(s) /\ HeaderLength(s) = 1 /\ Encoded(s) = b
  <2>1. n \in 0 .. 15
    OBVIOUS
  <2> QED
    BY <1>0, <1>1, <2>1, StartExact, Zenon
<1>3. b \in Seq(Byte) /\ Len(b) = 1
  <2>1. PICK e : e = Encoded(s)
    OBVIOUS
  <2>2. e \in Seq(Byte) /\ Len(e) = HeaderLength(s)
    BY <1>2, <2>1, EncodedBytes
  <2> QED
    BY <1>2, <2>1, <2>2
<1>4. Spelled(s, b, 0)
  <2>1. \A i \in 1 .. 1 : 0 + i = i
    OBVIOUS
  <2> QED
    BY <1>2, <1>3, <2>1 DEF Spelled
<1>5. q[0] = 1
  BY DEF Layout
<1> QED
  BY <1>0, <1>1, <1>3, <1>4, <1>5 DEF Whole, Spells

(* ... and goes on number by number.                                       *)
LEMMA WholeNext ==
    ASSUME NEW f, Vector(f), NEW q, Layout(f, q), NEW i \in 1 .. Len(f),
           NEW b, Whole(b, f, q, i - 1), NEW c,
           c = b \o Encoded(Item(f[i]))
    PROVE  Whole(c, f, q, i)
<1>0. PICK n \in 1 .. 15 : n = Len(f)
  BY DEF Vector
<1>1. b \in Seq(Byte) /\ Len(b) \in Nat
  BY LenProperties DEF Whole, Spells
<1>2. f[i] \in Int
  BY ElementOfSeq DEF Vector
<1>3. PICK o : o = Item(f[i])
  OBVIOUS
<1>4. Exact(o) /\ HeaderLength(o) \in 1 .. 10
  BY <1>2, <1>3, ItemExact
<1>5. /\ c \in Seq(Byte) /\ Len(c) = Len(b) + HeaderLength(o)
      /\ Spelled(o, c, Len(b)) /\ \A k \in 1 .. Len(b) : c[k] = b[k]
  BY <1>1, <1>3, <1>4, SpelledHere
<1>6. PICK m \in 0 .. n : m = i - 1
  BY <1>0
<1>7. Whole(b, f, q, m)
  BY <1>6
<1>8. Spells(c, f, q, m)
  BY <1>0, <1>5, <1>7, SpellsStill
<1>9. Len(b) = q[m] /\ q[i] = q[m] + HeaderLength(o)
  BY <1>0, <1>3, <1>6, <1>7 DEF Whole, Layout
<1>10. Len(c) = q[i]
  BY <1>5, <1>9
<1>11. ASSUME NEW j \in 1 .. i PROVE Spelled(Item(f[j]), c, q[j - 1])
  <2>1. CASE j = i
    BY <1>3, <1>5, <1>6, <1>9, <2>1
  <2>2. CASE j # i
    <3>1. j \in 1 .. m
      BY <1>0, <1>6, <2>2
    <3> QED
      BY <1>8, <3>1 DEF Spells
  <2> QED
    BY <2>1, <2>2
<1>12. ASSUME NEW j \in 0 .. i PROVE q[j] <= Len(c)
  <2>1. CASE j = i
    BY <1>1, <1>4, <1>5, <1>10, <2>1
  <2>2. CASE j # i
    <3>1. j \in 0 .. m /\ j \in 0 .. n
      BY <1>0, <1>6, <2>2
    <3>2. q[j] <= Len(b) /\ q[j] \in Nat
      BY <1>0, <1>7, <3>1 DEF Whole, Layout
    <3> QED
      BY <1>1, <1>4, <1>5, <3>2
  <2> QED
    BY <2>1, <2>2
<1> QED
  BY <1>5, <1>8, <1>10, <1>11, <1>12 DEF Whole, Spells

(* The calls c put a message on the wire up to its i-th number.            *)
CallsSpell(c, f, q, i) == c \in Seq(WriteCall) /\ Whole(Flat(c), f, q, i)

(* They begin with the marker ...                                          *)
LEMMA CallsStart ==
    ASSUME NEW f, Vector(f), NEW q, Layout(f, q), NEW n, n = Len(f)
    PROVE  CallsSpell(ArrayOf(n), f, q, 0)
<1>1. n \in 0 .. 15
  <2>1. PICK m \in 1 .. 15 : m = n
    BY Zenon DEF Vector
  <2>2. m \in 0 .. 15
    OBVIOUS
  <2> QED
    BY <2>1, <2>2, Zenon
<1>2. PICK c, b : c = ArrayOf(n) /\ b = <<144 + n>>
  OBVIOUS
<1>3. c \in Seq(WriteCall) /\ Flat(c) = b
  BY <1>1, <1>2, StartExact, Zenon
<1>4. Whole(b, f, q, 0)
  BY <1>2, WholeStart
<1> QED
  BY <1>2, <1>3, <1>4 DEF CallsSpell

(* ... and go on with cmp_write_uint.                                      *)
LEMMA CallsNext ==
    ASSUME NEW f, Vector(f), NEW q, Layout(f, q), NEW i \in 1 .. Len(f),
           NEW c, CallsSpell(c, f, q, i - 1), NEW n, n = f[i]
    PROVE  CallsSpell(c \o cmp_write_uint(n), f, q, i)
<1>1. n \in Int
  BY ElementOfSeq DEF Vector
<1>2. PICK d, e : d = cmp_write_uint(n) /\ e = Encoded(Item(n))
  OBVIOUS
<1>3. d \in Seq(WriteCall) /\ Flat(d) = e
  BY <1>1, <1>2, ItemExact DEF cmp_write_uint, Puts
<1>4. PICK s : s = c \o d
  OBVIOUS
<1>5. c \in Seq(WriteCall)
  BY DEF CallsSpell
<1>6. s \in Seq(WriteCall)
  BY <1>3, <1>4, <1>5, ConcatProperties
<1>7. Flat(s) = Flat(c) \o e
  BY <1>3, <1>4, <1>5, FlatConcat
<1>8. PICK a, b : a = Flat(c) /\ b = Flat(s)
  OBVIOUS
<1>9. Whole(a, f, q, i - 1) /\ b = a \o Encoded(Item(f[i]))
  BY <1>2, <1>7, <1>8 DEF CallsSpell
<1>10. Whole(b, f, q, i)
  BY <1>9, WholeNext
<1> QED
  BY <1>2, <1>4, <1>6, <1>8, <1>10 DEF CallsSpell

(* The vectors of the display messages.                                    *)
UpdateFields(u) == <<DISPLAY_UPDATE, u[1], u[2], u[3] - u[1], u[4] - u[2]>>
SwitchFields(u) == <<DISPLAY_SWITCH, u[1], u[2], u[3]>>

(* The writers of lib/src/msgpack.c put them on the wire.                  *)
LEMMA DisplaySpells ==
    /\ \A u \in Updates :
          /\ Vector(UpdateFields(u))
          /\ \A q : Layout(UpdateFields(u), q) =>
                CallsSpell(mux_write_outgoing_update_msg(u),
                           UpdateFields(u), q, Len(UpdateFields(u)))
    /\ \A u \in Switches :
          /\ Vector(SwitchFields(u))
          /\ \A q : Layout(SwitchFields(u), q) =>
                CallsSpell(mux_write_outgoing_switch_msg(u),
                           SwitchFields(u), q, Len(SwitchFields(u)))
    /\ Vector(<<SHUTDOWN>>)
    /\ \A q : Layout(<<SHUTDOWN>>, q) =>
          CallsSpell(mux_write_outgoing_shutdown_msg, <<SHUTDOWN>>, q, 1)
<1>0. DISPLAY_UPDATE \in Int /\ DISPLAY_SWITCH \in Int /\ SHUTDOWN \in Int
  BY DEF DISPLAY_UPDATE, DISPLAY_SWITCH, SHUTDOWN
<1>1. ASSUME NEW u \in Updates
      PROVE  /\ Vector(UpdateFields(u))
             /\ \A q : Layout(UpdateFields(u), q) =>
                   CallsSpell(mux_write_outgoing_update_msg(u),
                              UpdateFields(u), q, Len(UpdateFields(u)))
  <2>1. u[1] \in Int /\ u[2] \in Int /\ u[3] \in Int /\ u[4] \in Int
    BY WireAssumption
  <2>2. PICK k \in Int, x \in Int, y \in Int, w \in Int, h \in Int :
           k = DISPLAY_UPDATE /\ x = u[1] /\ y = u[2] /\ w = u[3] - u[1]
           /\ h = u[4] - u[2]
    BY <1>0, <2>1
  <2>3. PICK f : f = <<k, x, y, w, h>>
    OBVIOUS
  <2>4. f = UpdateFields(u)
    BY <2>2, <2>3 DEF UpdateFields
  <2>5. /\ f \in Seq(Int) /\ Len(f) = 5 /\ f[1] = k /\ f[2] = x /\ f[3] = y
        /\ f[4] = w /\ f[5] = h
    BY <2>3
  <2>6. Vector(f)
    BY <2>5 DEF Vector
  <2>7. ASSUME NEW q, Layout(f, q)
        PROVE  CallsSpell(mux_write_outgoing_update_msg(u), f, q, 5)
    <3>0. PICK c0 : c0 = ArrayOf(5)
      OBVIOUS
    <3>1. PICK c1 : c1 = c0 \o cmp_write_uint(k)
      OBVIOUS
    <3>2. PICK c2 : c2 = c1 \o cmp_write_uint(x)
      OBVIOUS
    <3>3. PICK c3 : c3 = c2 \o cmp_write_uint(y)
      OBVIOUS
    <3>4. PICK c4 : c4 = c3 \o cmp_write_uint(w)
      OBVIOUS
    <3>5. PICK c5 : c5 = c4 \o cmp_write_uint(h)
      OBVIOUS
    <3>6. c5 = mux_write_outgoing_update_msg(u)
      BY <2>2, <3>0, <3>1, <3>2, <3>3, <3>4, <3>5, Zenon
         DEF mux_write_outgoing_update_msg
    <3>7. /\ 1 \in 1 .. Len(f) /\ 2 \in 1 .. Len(f) /\ 3 \in 1 .. Len(f)
          /\ 4 \in 1 .. Len(f) /\ 5 \in 1 .. Len(f)
          /\ 1 - 1 = 0 /\ 2 - 1 = 1 /\ 3 - 1 = 2 /\ 4 - 1 = 3 /\ 5 - 1 = 4
      BY <2>5
    <3>8. CallsSpell(c0, f, q, 0)
      BY <2>5, <2>6, <2>7, <3>0, CallsStart
    <3>9. CallsSpell(c1, f, q, 1)
      BY <2>5, <2>6, <2>7, <3>1, <3>7, <3>8, CallsNext
    <3>10. CallsSpell(c2, f, q, 2)
      BY <2>5, <2>6, <2>7, <3>2, <3>7, <3>9, CallsNext
    <3>11. CallsSpell(c3, f, q, 3)
      BY <2>5, <2>6, <2>7, <3>3, <3>7, <3>10, CallsNext
    <3>12. CallsSpell(c4, f, q, 4)
      BY <2>5, <2>6, <2>7, <3>4, <3>7, <3>11, CallsNext
    <3>13. CallsSpell(c5, f, q, 5)
      BY <2>5, <2>6, <2>7, <3>5, <3>7, <3>12, CallsNext
    <3> QED
      BY <3>6, <3>13
  <2> QED
    BY <2>4, <2>5, <2>6, <2>7
<1>2. ASSUME NEW u \in Switches
      PROVE  /\ Vector(SwitchFields(u))
             /\ \A q : Layout(SwitchFields(u), q) =>
                   CallsSpell(mux_write_outgoing_switch_msg(u),
                              SwitchFields(u), q, Len(SwitchFields(u)))
  <2>1. u[1] \in Int /\ u[2] \in Int /\ u[3] \in Int
    BY WireAssumption
  <2>2. PICK k \in Int, x \in Int, y \in Int, w \in Int :
           k = DISPLAY_SWITCH /\ x = u[1] /\ y = u[2] /\ w = u[3]
    BY <1>0, <2>1
  <2>3. PICK f : f = <<k, x, y, w>>
    OBVIOUS
  <2>4. f = SwitchFields(u)
    BY <2>2, <2>3 DEF SwitchFields
  <2>5. /\ f \in Seq(Int) /\ Len(f) = 4 /\ f[1] = k /\ f[2] = x /\ f[3] = y
        /\ f[4] = w
    BY <2>3
  <2>6. Vector(f)
    BY <2>5 DEF Vector
  <2>7. ASSUME NEW q, Layout(f, q)
        PROVE  CallsSpell(mux_write_outgoing_switch_msg(u), f, q, 4)
    <3>0. PICK c0 : c0 = ArrayOf(4)
      OBVIOUS
    <3>1. PICK c1 : c1 = c0 \o cmp_write_uint(k)
      OBVIOUS
    <3>2. PICK c2 : c2 = c1 \o cmp_write_uint(x)
      OBVIOUS
    <3>3. PICK c3 : c3 = c2 \o cmp_write_uint(y)
      OBVIOUS
    <3>4. PICK c4 : c4 = c3 \o cmp_write_uint(w)
      OBVIOUS
    <3>6. c4 = mux_write_outgoing_switch_msg(u)
      BY <2>2, <3>0, <3>1, <3>2, <3>3, <3>4, Zenon
         DEF mux_write_outgoing_switch_msg
    <3>7. /\ 1 \in 1 .. Len(f) /\ 2 \in 1 .. Len(f) /\ 3 \in 1 .. Len(f)
          /\ 4 \in 1 .. Len(f)
          /\ 1 - 1 = 0 /\ 2 - 1 = 1 /\ 3 - 1 = 2 /\ 4 - 1 = 3
      BY <2>5
    <3>8. CallsSpell(c0, f, q, 0)
      BY <2>5, <2>6, <2>7, <3>0, CallsStart
    <3>9. CallsSpell(c1, f, q, 1)
      BY <2>5, <2>6, <2>7, <3>1, <3>7, <3>8, CallsNext
    <3>10. CallsSpell(c2, f, q, 2)
      BY <2>5, <2>6, <2>7, <3>2, <3>7, <3>9, CallsNext
    <3>11. CallsSpell(c3, f, q, 3)
      BY <2>5, <2>6, <2>7, <3>3, <3>7, <3>10, CallsNext
    <3>12. CallsSpell(c4, f, q, 4)
      BY <2>5, <2>6, <2>7, <3>4, <3>7, <3>11, CallsNext
    <3> QED
      BY <3>6, <3>12
  <2> QED
    BY <2>4, <2>5, <2>6, <2>7
<1>3. PICK k \in Int, f \in {<<SHUTDOWN>>} : k = SHUTDOWN /\ f = <<k>>
  BY <1>0
<1>4. f \in Seq(Int) /\ Len(f) = 1 /\ f[1] = k
  BY <1>3
<1>5. Vector(f)
  BY <1>4 DEF Vector
<1>6. ASSUME NEW q, Layout(f, q)
      PROVE  CallsSpell(mux_write_outgoing_shutdown_msg, f, q, 1)
  <2>0. PICK c0 : c0 = ArrayOf(1)
    OBVIOUS
  <2>1. PICK c1 : c1 = c0 \o cmp_write_uint(k)
    OBVIOUS
  <2>2. c1 = mux_write_outgoing_shutdown_msg
    BY <1>3, <2>0, <2>1, Zenon DEF mux_write_outgoing_shutdown_msg
  <2>3. 1 \in 1 .. Len(f) /\ 1 - 1 = 0
    BY <1>4
  <2>4. CallsSpell(c0, f, q, 0)
    BY <1>4, <1>5, <1>6, <2>0, CallsStart
  <2>5. CallsSpell(c1, f, q, 1)
    BY <1>4, <1>5, <1>6, <2>1, <2>3, <2>4, CallsNext
  <2> QED
    BY <2>2, <2>5
<1> QED
  BY <1>1, <1>2, <1>3, <1>5, <1>6

(* The word of an int: its sign, and its bytes if it has at most 16 bits.  *)
LEMMA IntWordSign ==
    ASSUME NEW n \in Int
    PROVE  FitsUnsigned(IntWord(n), 4) <=> n >= 0
<1>1. PICK v \in Word : v = IntWord(n)
  BY IntWordType
<1>2. \A i \in 1 .. 4 : v[i] = IF n < 0 THEN 255 ELSE 0
  BY <1>1, SMT DEF IntWord
<1>3. FitsUnsigned(v, 4) <=> n >= 0
  BY <1>2, SMT DEF FitsUnsigned
<1> QED
  BY <1>1, <1>3

(* The bytes of a number of 16 bits as a word.                             *)
LEMMA IntWordBytes ==
    ASSUME NEW n \in Uint16, NEW v, v = IntWord(n)
    PROVE  /\ \A i \in 1 .. 6 : v[i] = 0
           /\ v[7] = n \div 256 /\ v[8] = n % 256
           /\ n \div 256 \in 0 .. 255 /\ n % 256 \in 0 .. 255
           /\ n <= 255 <=> n \div 256 = 0
           /\ n <= 255 => n % 256 = n
<1>0. n \in Int /\ 0 <= n /\ n <= 65535
  BY SMT DEF Uint16
<1>1. n \div 256 >= 0 /\ n \div 256 \in Int
  BY <1>0, SMT
<1>2. n \div 256 <= 255
  BY <1>0, SMT
<1>3. n % 256 \in 0 .. 255
  BY <1>0, SMT
<1>4. n <= 255 => n \div 256 = 0
  BY <1>0, SMT
<1>5. n \div 256 = 0 => n <= 255
  BY <1>0, SMT
<1>6. n <= 255 => n % 256 = n
  BY <1>0, SMT
<1>7. n \div 16777216 = 0
  BY <1>0, SMT
<1>8. n \div 65536 = 0
  BY <1>0, SMT
<1>9. n \div 1 = n
  BY <1>0, SMT
<1>10. \A k \in 0 .. 255 : k % 256 = k
  BY <1>0, SMT
<1>11. PICK hi \in 0 .. 255 : hi = n \div 256
  BY <1>0, <1>1, <1>2, SMT
<1>12. v = [i \in 1 .. 8 |->
              IF i > 4 THEN (n \div <<16777216, 65536, 256, 1>>[i - 4]) % 256
              ELSE IF n < 0 THEN 255 ELSE 0]
  BY <1>0, SMT DEF IntWord
<1>13. v[1] = 0 /\ v[2] = 0 /\ v[3] = 0 /\ v[4] = 0
  BY <1>0, <1>12, SMT
<1>14. v[5] = (n \div 16777216) % 256
  BY <1>0, <1>12, SMT
<1>15. v[6] = (n \div 65536) % 256
  BY <1>0, <1>12, SMT
<1>16. v[7] = (n \div 256) % 256
  BY <1>0, <1>12, SMT
<1>17. v[8] = (n \div 1) % 256
  BY <1>0, <1>12, SMT
<1>18. v[5] = 0 /\ v[6] = 0
  BY <1>0, <1>7, <1>8, <1>10, <1>14, <1>15, SMT
<1>19. v[7] = hi
  BY <1>0, <1>10, <1>11, <1>16, SMT
<1>20. v[8] = n % 256
  BY <1>0, <1>9, <1>17, SMT
<1>21. \A i \in 1 .. 6 : v[i] = 0
  BY <1>0, <1>13, <1>18, SMT
<1> QED
  BY <1>0, <1>3, <1>4, <1>5, <1>6, <1>11, <1>19, <1>20, <1>21, SMT

(* Short byte strings.                                                     *)
LEMMA ByteBefore ==
    ASSUME NEW x \in Byte, NEW y \in Byte, NEW z \in Byte
    PROVE  /\ <<x>> \o <<y>> = <<x, y>>
           /\ <<x>> \o <<y, z>> = <<x, y, z>>
<1>1. PICK a, b, c, d, e : a = <<x>> /\ b = <<y>> /\ c = <<y, z>>
                           /\ d = <<x, y>> /\ e = <<x, y, z>>
  OBVIOUS
<1>2. /\ a \in Seq(Byte) /\ b \in Seq(Byte) /\ c \in Seq(Byte)
      /\ d \in Seq(Byte) /\ e \in Seq(Byte)
      /\ Len(a) = 1 /\ Len(b) = 1 /\ Len(c) = 2 /\ Len(d) = 2 /\ Len(e) = 3
      /\ a[1] = x /\ b[1] = y /\ c[1] = y /\ c[2] = z
      /\ d[1] = x /\ d[2] = y /\ e[1] = x /\ e[2] = y /\ e[3] = z
  BY <1>1
<1>3. a \o b = d
  <2>1. PICK s : s = a \o b
    OBVIOUS
  <2>2. /\ s \in Seq(Byte) /\ Len(s) = Len(a) + Len(b)
        /\ \A i \in 1 .. Len(a) + Len(b) :
              s[i] = IF i <= Len(a) THEN a[i] ELSE b[i - Len(a)]
    BY <1>2, <2>1, ConcatProperties
  <2>3. Len(s) = 2 /\ s[1] = x /\ s[2] = y
    BY <1>2, <2>2
  <2>4. s = d
    BY <1>2, <2>2, <2>3, SeqEqual
  <2> QED
    BY <2>1, <2>4
<1>4. a \o c = e
  <2>1. PICK s : s = a \o c
    OBVIOUS
  <2>2. /\ s \in Seq(Byte) /\ Len(s) = Len(a) + Len(c)
        /\ \A i \in 1 .. Len(a) + Len(c) :
              s[i] = IF i <= Len(a) THEN a[i] ELSE c[i - Len(a)]
    BY <1>2, <2>1, ConcatProperties
  <2>3. Len(s) = 3 /\ s[1] = x /\ s[2] = y /\ s[3] = z
    BY <1>2, <2>2
  <2>4. s = e
    BY <1>2, <2>2, <2>3, SeqEqual
  <2> QED
    BY <2>1, <2>4
<1> QED
  BY <1>1, <1>3, <1>4

(* msgpack-c++ packs a number of 16 bits as cmp does.                      *)
LEMMA PackedAsWritten ==
    ASSUME NEW n \in Uint16
    PROVE  /\ PackedNumber(n) = Encoded(Item(n))
           /\ Item(n).type \in {"POSITIVE_FIXNUM", "UINT8", "UINT16"}
<1>0. n \in Int /\ 0 <= n /\ n <= 65535
  BY SMT DEF Uint16
<1>1. PICK v \in Word : v = IntWord(n)
  BY <1>0, IntWordType, SMT
<1>a. n \div 256 \in 0 .. 255 /\ n % 256 \in 0 .. 255
  BY <1>1, IntWordBytes, Zenon
<1>2. PICK hi \in 0 .. 255, lo \in 0 .. 255 :
         hi = n \div 256 /\ lo = n % 256
  BY <1>a, Zenon
<1>3. /\ \A i \in 1 .. 6 : v[i] = 0
      /\ v[7] = hi /\ v[8] = lo
      /\ n <= 255 <=> hi = 0
      /\ n <= 255 => lo = n
  BY <1>1, <1>2, IntWordBytes
<1>4. PICK o : o = Item(n)
  OBVIOUS
<1>5. Exact(o) /\ o.as = v /\ o.type = UIntType(v)
  BY <1>0, <1>1, <1>4, ItemExact, SMT
<1>6. FitsUnsigned(v, 2) /\ (FitsUnsigned(v, 1) <=> n <= 255)
  BY <1>3, SMT DEF FitsUnsigned
<1>7. PICK m : m = MarkerByte(o)
  OBVIOUS
<1>8. CASE n <= 127
  <2>1. FitsUnsigned(v, 1) /\ v[8] <= 127 /\ lo = n
    BY <1>0, <1>3, <1>6, <1>8, SMT
  <2>2. o.type = "POSITIVE_FIXNUM"
    BY <1>5, <2>1 DEF UIntType
  <2>3. m = n
    BY <1>3, <1>5, <1>7, <2>1, <2>2 DEF MarkerByte
  <2>4. "POSITIVE_FIXNUM" \in MarkerOnly
    BY DEF MarkerOnly
  <2>5. Encoded(o) = <<m>>
    BY <1>5, <1>7, <2>2, <2>4, EncodedShort
  <2>6. PackedNumber(n) = <<n>>
    BY <1>8 DEF PackedNumber
  <2> QED
    BY <1>4, <2>2, <2>3, <2>5, <2>6
<1>9. CASE n > 127
  <2>1. PICK t : t = IF n <= 255 THEN "UINT8" ELSE "UINT16"
    OBVIOUS
  <2>2. o.type = t
    <3>1. n <= 255 => ~(v[8] <= 127)
      BY <1>0, <1>3, <1>9, SMT
    <3> QED
      BY <1>5, <1>6, <2>1, <3>1 DEF UIntType
  <2>3. /\ t \in Numbered \ ExtTypes /\ Width["UINT8"] = 1
        /\ Width["UINT16"] = 2
    BY <2>1, TypeSets DEF Numbered, ExtTypes, Width
  <2>4. m = Marker[t]
    <3>1. t \notin DOMAIN FixSize
      BY <2>1, TypeSets
    <3> QED
      BY <1>7, <2>1, <2>2, <3>1 DEF MarkerByte
  <2>5. Marker["UINT8"] = 204 /\ Marker["UINT16"] = 205
    BY DEF Marker
  <2>6. Encoded(o) = <<m>> \o Low(v, Width[t])
    BY <1>5, <1>7, <2>2, <2>3, EncodedShort
  <2>7. CASE n <= 255
    <3>1. m = 204 /\ Width[t] = 1
      BY <2>1, <2>3, <2>4, <2>5, <2>7
    <3>2. Low(v, 1) = [i \in 1 .. 1 |-> v[8 - 1 + i]]
      BY LowBytes
    <3>3. Low(v, 1) = <<lo>>
      <4>1. PICK s : s = <<lo>>
        OBVIOUS
      <4>2. s = [i \in 1 .. 1 |-> v[8 - 1 + i]]
        BY <1>3, <4>1
      <4> QED
        BY <3>2, <4>1, <4>2
    <3>4. <<204>> \o <<lo>> = <<204, lo>>
      <4>1. 204 \in Byte /\ hi \in Byte /\ lo \in Byte
        BY DEF Byte
      <4> QED
        BY <4>1, ByteBefore, Zenon
    <3>5. PackedNumber(n) = <<204, lo>>
      <4>1. ~(n <= 127)
        BY <1>0, <1>9, SMT
      <4> QED
        BY <1>3, <2>7, <4>1 DEF PackedNumber
    <3>6. o.type = "UINT8"
      BY <2>1, <2>2, <2>7
    <3> QED
      BY <1>4, <2>6, <3>1, <3>3, <3>4, <3>5, <3>6, Zenon
  <2>8. CASE n > 255
    <3>1. m = 205 /\ Width[t] = 2
      BY <1>0, <2>1, <2>3, <2>4, <2>5, <2>8, SMT
    <3>2. Low(v, 2) = [i \in 1 .. 2 |-> v[8 - 2 + i]]
      BY LowBytes
    <3>3. Low(v, 2) = <<hi, lo>>
      <4>1. PICK s : s = <<hi, lo>>
        OBVIOUS
      <4>2. s = [i \in 1 .. 2 |-> v[8 - 2 + i]]
        BY <1>3, <4>1
      <4> QED
        BY <3>2, <4>1, <4>2
    <3>4. <<205>> \o <<hi, lo>> = <<205, hi, lo>>
      <4>1. PICK k : k = 205
        OBVIOUS
      <4>2. k \in Byte /\ hi \in Byte /\ lo \in Byte
        BY <4>1 DEF Byte
      <4>3. <<k>> \o <<hi, lo>> = <<k, hi, lo>>
        BY <4>2, ByteBefore, Zenon
      <4> QED
        BY <4>1, <4>3
    <3>5. PackedNumber(n) = <<205, hi, lo>>
      <4>1. ~(n <= 127) /\ ~(n <= 255)
        BY <1>0, <1>9, <2>8, SMT
      <4> QED
        BY <1>2, <4>1, Zenon DEF PackedNumber
    <3>6. o.type = "UINT16"
      BY <1>0, <2>1, <2>2, <2>8, SMT
    <3> QED
      BY <1>4, <2>6, <3>1, <3>3, <3>4, <3>5, <3>6, Zenon
  <2> QED
    BY <1>0, <2>7, <2>8, SMT
<1> QED
  BY <1>0, <1>8, <1>9, SMT

(* What sendMessage packs spells the vector.                               *)
LEMMA PackedSpells ==
    ASSUME NEW vec, Vector(vec), \A i \in 1 .. Len(vec) : vec[i] \in Uint16,
           NEW q, Layout(vec, q)
    PROVE  Whole(Packed(vec), vec, q, Len(vec))
<1>0. PICK n \in 1 .. 15 : n = Len(vec)
  BY DEF Vector
<1>n. n \in Nat
  OBVIOUS
<1>b. PICK Strings : Strings = Seq(Byte)
  OBVIOUS
<1>a. PICK base : base = <<144 + n>>
  OBVIOUS
<1>d. PICK d : d = [i \in 1 .. n |-> PackedNumber(vec[i])]
  OBVIOUS
<1>e. \A i \in 1 .. n : d[i] = PackedNumber(vec[i])
                        /\ d[i] = Encoded(Item(vec[i]))
  <2> SUFFICES ASSUME NEW i \in 1 .. n
               PROVE  d[i] = PackedNumber(vec[i])
                      /\ d[i] = Encoded(Item(vec[i]))
    OBVIOUS
  <2>1. PICK k : k = vec[i]
    OBVIOUS
  <2>2. k \in Uint16
    BY <1>0, <2>1
  <2>3. PackedNumber(k) = Encoded(Item(k))
    BY <2>2, PackedAsWritten
  <2> QED
    BY <1>d, <2>1, <2>3
<1>1. \A i \in 1 .. n : d[i] \in Strings
  <2> SUFFICES ASSUME NEW i \in 1 .. n PROVE d[i] \in Strings
    OBVIOUS
  <2>1. vec[i] \in Int
    BY <1>0, ElementOfSeq DEF Vector
  <2>2. PICK o : o = Item(vec[i]) /\ Exact(o)
    BY <2>1, ItemExact
  <2>3. Encoded(o) \in Seq(Byte)
    BY <2>2, EncodedBytes
  <2> QED
    BY <1>b, <1>e, <2>2, <2>3
<1>w. Whole(base, vec, q, 0)
  BY <1>0, <1>a, WholeStart
<1>2. PICK next : next = [x \in (1 .. n) \X Strings |-> x[2] \o d[x[1]]]
  OBVIOUS
<1>3. \A i \in 1 .. n, b \in Strings : b \o d[i] \in Strings
  BY <1>1, <1>b, ConcatProperties
<1>4. \A i \in 1 .. n, b \in Strings : next[<<i, b>>] = b \o d[i]
  BY <1>2
<1>5. next \in [(1 .. n) \X Strings -> Strings]
  BY <1>2, <1>3
<1>6. base \in Strings
  BY <1>b, <1>w DEF Whole, Spells
<1>8. PICK h \in [0 .. n -> Strings] :
         h[0] = base /\ \A i \in 1 .. n : h[i] = next[<<i, h[i - 1]>>]
  <2>1. \E h : Iterates(h, n, Strings, base, next)
    BY <1>n, <1>5, <1>6, Recursion
  <2> QED
    BY <2>1 DEF Iterates
<1>9. ASSUME NEW i \in 1 .. n PROVE h[i] = h[i - 1] \o d[i]
  <2>1. i - 1 \in 0 .. n
    OBVIOUS
  <2>2. h[i - 1] \in Strings
    BY <1>8, <2>1
  <2> QED
    BY <1>4, <1>8, <2>2
<1> DEFINE Step(f) == [i \in 0 .. n |-> IF i = 0 THEN base
                                        ELSE f[i - 1] \o PackedNumber(vec[i])]
           Result == CHOOSE f : f = Step(f)
<1>7. Packed(vec) = Result[n]
  BY <1>0, <1>a DEF Packed
<1>10. h = Step(h)
  <2>1. \A i \in 0 .. n : h[i] = Step(h)[i]
    <3> SUFFICES ASSUME NEW i \in 0 .. n
                 PROVE  h[i] = IF i = 0 THEN base
                               ELSE h[i - 1] \o PackedNumber(vec[i])
      OBVIOUS
    <3>1. CASE i = 0
      BY <1>8, <3>1
    <3>2. CASE i # 0
      <4>1. i \in 1 .. n
        BY <3>2
      <4>2. h[i] = h[i - 1] \o d[i] /\ d[i] = PackedNumber(vec[i])
        BY <1>9, <1>e, <4>1
      <4> QED
        BY <3>2, <4>2, Zenon
    <3> QED
      BY <3>1, <3>2
  <2> QED
    BY <1>8, <2>1
<1>11. PICK f : f = Result /\ f = Step(f)
  BY <1>10
<1> HIDE DEF Result
<1>12. f[0] = base
  <2>1. 0 \in 0 .. n
    OBVIOUS
  <2> QED
    BY <1>11, <2>1
<1>13. ASSUME NEW i \in 1 .. n PROVE f[i] = f[i - 1] \o Encoded(Item(vec[i]))
  <2>1. i \in 0 .. n /\ i # 0
    OBVIOUS
  <2>2. f[i] = f[i - 1] \o PackedNumber(vec[i])
    BY <1>11, <2>1
  <2>3. PackedNumber(vec[i]) = Encoded(Item(vec[i]))
    BY <1>e, Zenon
  <2> QED
    BY <2>2, <2>3, Zenon
<1> DEFINE P == {j \in 0 .. n : Whole(f[j], vec, q, j)}
<1>14. \A i \in 0 .. n : i \in P
  <2>1. 0 \in P
    BY <1>12, <1>w
  <2>2. ASSUME NEW i \in 1 .. n, i - 1 \in P PROVE i \in P
    <3>1. PICK b, c : b = f[i - 1] /\ c = f[i]
      OBVIOUS
    <3>2. Whole(b, vec, q, i - 1)
      BY <2>2, <3>1
    <3>3. c = b \o Encoded(Item(vec[i]))
      BY <1>13, <3>1, Zenon
    <3>4. i \in 1 .. Len(vec)
      BY <1>0, Zenon
    <3>5. Whole(c, vec, q, i)
      BY <3>2, <3>3, <3>4, WholeNext, Zenon
    <3>6. i \in 0 .. n
      OBVIOUS
    <3> QED
      BY <3>1, <3>5, <3>6, Zenon
  <2> HIDE DEF P
  <2> QED
    BY <1>n, <2>1, <2>2, CountingUp
<1>15. n \in 0 .. n
  OBVIOUS
<1>16. Whole(f[n], vec, q, n)
  BY <1>14, <1>15, Zenon
<1> QED
  BY <1>0, <1>7, <1>11, <1>16, Zenon
-----------------------------------------------------------------------------
(* Readers of a message.                                                   *)

(* A reader that goes from number to number: where the bytes end decides   *)
(* how far it comes.  g[i] is what it has after i numbers, R what reading  *)
(* one number at a position gives.                                         *)
Steps(g, n, p, R) ==
    /\ g[0] = Read(None, p)
    /\ \A i \in 1 .. n :
          g[i] = IF g[i - 1].ok THEN R[g[i - 1].pos] ELSE g[i - 1]

Reaches(x, len, o, p) == IF p <= len THEN x = Read(o, p) ELSE ~x.ok

Readable(R, n, len, o, q) ==
    /\ q \in [0 .. n -> Nat] /\ q[0] <= len
    /\ \A i \in 1 .. n :
          /\ q[i - 1] <= q[i]
          /\ q[i - 1] <= len => Reaches(R[q[i - 1]], len, o[i], q[i])

Arrives(g, n, len, o, q) ==
    /\ \A i \in 1 .. n : Reaches(g[i], len, o[i], q[i])
    /\ \A i \in 0 .. n : /\ g[i].ok <=> q[i] <= len
                         /\ g[i].ok => g[i].pos = q[i]

(* It comes as far as there are bytes.                                     *)
LEMMA StepsReach ==
    ASSUME NEW n \in Nat, NEW len \in Nat, NEW q, NEW o, NEW R,
           Readable(R, n, len, o, q),
           NEW g, Steps(g, n, q[0], R)
    PROVE  Arrives(g, n, len, o, q)
<1>1. \A x, p : Read(x, p).ok /\ Read(x, p).pos = p
  BY DEF Read
<1>r. /\ q \in [0 .. n -> Nat] /\ q[0] <= len
      /\ \A i \in 1 .. n :
            /\ q[i - 1] <= q[i]
            /\ q[i - 1] <= len => Reaches(R[q[i - 1]], len, o[i], q[i])
  BY DEF Readable
<1> DEFINE P == {j \in 0 .. n : /\ j > 0 => Reaches(g[j], len, o[j], q[j])
                                /\ g[j].ok <=> q[j] <= len
                                /\ g[j].ok => g[j].pos = q[j]}
<1>2. 0 \in P
  BY <1>1, <1>r DEF Steps
<1>3. ASSUME NEW i \in 1 .. n, i - 1 \in P PROVE i \in P
  <2>1. i \in 0 .. n /\ i - 1 \in 0 .. n
    OBVIOUS
  <2>2. PICK a \in Nat, c \in Nat : a = q[i - 1] /\ c = q[i] /\ a <= c
    BY <1>r, <2>1
  <2>3. PICK x, y : x = g[i - 1] /\ y = g[i]
    OBVIOUS
  <2>4. (x.ok <=> a <= len) /\ (x.ok => x.pos = a)
    BY <1>3, <2>2, <2>3
  <2>5. y = IF x.ok THEN R[x.pos] ELSE x
    BY <2>3 DEF Steps
  <2>6. a <= len => Reaches(R[a], len, o[i], c)
    BY <1>r, <2>2
  <2>7. Reaches(y, len, o[i], c)
    <3>1. CASE a <= len
      <4>1. y = R[a]
        BY <2>4, <2>5, <3>1
      <4> QED
        BY <2>6, <3>1, <4>1
    <3>2. CASE ~(a <= len)
      <4>1. y = x /\ ~y.ok /\ ~(c <= len)
        BY <2>2, <2>4, <2>5, <3>2
      <4> QED
        BY <4>1 DEF Reaches
    <3> QED
      BY <3>1, <3>2
  <2>8. (y.ok <=> c <= len) /\ (y.ok => y.pos = c)
    BY <1>1, <2>7 DEF Reaches
  <2> QED
    BY <2>1, <2>2, <2>3, <2>7, <2>8
<1>4. \A i \in 0 .. n : i \in P
  <2> HIDE DEF P
  <2> QED
    BY <1>2, <1>3, CountingUp
<1>5. ASSUME NEW i \in 1 .. n PROVE Reaches(g[i], len, o[i], q[i])
  <2>1. i \in 0 .. n /\ i > 0
    OBVIOUS
  <2> QED
    BY <1>4, <2>1
<1> QED
  BY <1>4, <1>5 DEF Arrives

(* Such a sequence of readings exists.                                     *)
LEMMA StepsExist ==
    ASSUME NEW n \in Nat, NEW p \in Nat, NEW R,
           \A k \in Nat : R[k].ok => R[k].pos \in Nat
    PROVE  \E g : g = [i \in 0 .. n |-> g[i]] /\ Steps(g, n, p, R)
<1>1. PICK base : base = Read(None, p)
  OBVIOUS
<1>2. PICK S : S = {base} \cup {R[k] : k \in Nat}
  OBVIOUS
<1>3. base.pos = p
  BY <1>1 DEF Read
<1>4. \A x \in S : x.ok => x.pos \in Nat /\ R[x.pos] \in S
  BY <1>2, <1>3
<1>5. PICK next : next = [y \in (1 .. n) \X S |->
                            IF y[2].ok THEN R[y[2].pos] ELSE y[2]]
  OBVIOUS
<1>6. \A i \in 1 .. n, x \in S :
         next[<<i, x>>] = IF x.ok THEN R[x.pos] ELSE x
  BY <1>5
<1>7. next \in [(1 .. n) \X S -> S]
  BY <1>4, <1>5
<1>8. base \in S
  BY <1>2
<1>9. PICK g \in [0 .. n -> S] :
         g[0] = base /\ \A i \in 1 .. n : g[i] = next[<<i, g[i - 1]>>]
  <2>1. \E g : Iterates(g, n, S, base, next)
    BY <1>7, <1>8, Recursion
  <2> QED
    BY <2>1 DEF Iterates
<1>10. ASSUME NEW i \in 1 .. n
       PROVE  g[i] = IF g[i - 1].ok THEN R[g[i - 1].pos] ELSE g[i - 1]
  <2>1. i - 1 \in 0 .. n
    OBVIOUS
  <2>2. PICK x \in S : x = g[i - 1]
    BY <1>9, <2>1
  <2> QED
    BY <1>6, <1>9, <2>2
<1>11. Steps(g, n, p, R)
  BY <1>1, <1>9, <1>10 DEF Steps
<1>12. g = [i \in 0 .. n |-> g[i]]
  BY <1>9
<1> QED
  BY <1>11, <1>12, Zenon

(* The server reads a number as cmp does, from the formats without a sign. *)
LEMMA ServerReads ==
    ASSUME NEW b \in Seq(Byte), NEW p \in Nat, NEW o, Exact(o),
           o.type \in UnsignedFormats, Spelled(o, b, p)
    PROVE  Reaches(ServerNumber(b, p), Len(b), o, p + HeaderLength(o))
<1>1. PICK len \in Nat : len = Len(b)
  BY LenProperties
<1>2. PICK t \in Types, v \in Word : t = o.type /\ v = o.as
  BY DEF Exact, Sound
<1>3. t \in {"POSITIVE_FIXNUM", "UINT8", "UINT16", "UINT32", "UINT64"}
  BY <1>2 DEF UnsignedFormats
<1>4. t \notin ExtTypes /\ t \notin Signed
  BY <1>3, TypeSets DEF ExtTypes, Signed
<1>5. o.ext = 0 /\ o = Object(t, v, 0)
  BY <1>2, <1>4 DEF Exact
<1>6. PICK w \in 0 .. 8 : w = NumberWidth(t)
  BY <1>2, EncodedBytes
<1>7. /\ Encoded(o)[1] = MarkerByte(o)
      /\ \A i \in 1 .. w : Encoded(o)[1 + i] = v[8 - w + i]
  BY <1>2, <1>6, EncodedBytes
<1>8. HeaderLength(o) = 1 + w
  BY <1>2, <1>4, <1>6 DEF HeaderLength
<1>9. \A i \in 1 .. 1 + w : p + i <= len => b[p + i] = Encoded(o)[i]
  BY <1>1, <1>8 DEF Spelled
<1>10. \A e, k : ~Failed(e, k).ok
  BY DEF Failed
<1>11. PICK n : n = IF TypeOf(b[p + 1]) = "POSITIVE_FIXNUM" THEN 0
                    ELSE Width[TypeOf(b[p + 1])]
  OBVIOUS
<1>12. CASE ~(p + 1 <= len)
  <2>1. ~ServerNumber(b, p).ok
    BY <1>1, <1>10, <1>12 DEF ServerNumber, CanRead
  <2>2. ~(p + (1 + w) <= len)
    BY <1>12
  <2> QED
    BY <1>1, <1>8, <2>1, <2>2 DEF Reaches
<1>13. CASE p + 1 <= len
  <2>1. PICK m \in Byte : m = b[p + 1] /\ TypeOf(m) = t
    <3>1. 1 \in 1 .. 1 + w
      OBVIOUS
    <3>2. b[p + 1] = MarkerByte(o)
      BY <1>7, <1>9, <1>13, <3>1
    <3> QED
      BY <1>2, <3>2, MarkerTellsType
  <2>2. n = w
    <3>1. CASE t = "POSITIVE_FIXNUM"
      <4>1. t \notin Numbered
        BY <3>1, TypeSets
      <4> QED
        BY <1>6, <1>11, <2>1, <3>1, <4>1 DEF NumberWidth
    <3>2. CASE t # "POSITIVE_FIXNUM"
      <4>1. t \in Numbered
        BY <1>3, <3>2 DEF Numbered
      <4> QED
        BY <1>6, <1>11, <2>1, <3>2, <4>1 DEF NumberWidth
    <3> QED
      BY <3>1, <3>2
  <2>3. t \in UnsignedFormats
    BY <1>2
  <2>4. ServerNumber(b, p) =
           IF ~CanRead(b, p, 1) \/ t \notin UnsignedFormats
              \/ ~CanRead(b, p + 1, n)
           THEN Failed("type_error", p)
           ELSE Read(Object(t, IF n = 0 THEN Small(b[p + 1])
                               ELSE ZeroExtend(Bytes(b, p + 1, n)), 0),
                     p + 1 + n)
    BY <1>11, <2>1, Zenon DEF ServerNumber
  <2>5. CanRead(b, p, 1)
    BY <1>1, <1>13 DEF CanRead
  <2>6. CASE ~(p + 1 + w <= len)
    <3>1. ~CanRead(b, p + 1, n)
      BY <1>1, <2>2, <2>6 DEF CanRead
    <3>2. ~ServerNumber(b, p).ok
      BY <1>10, <2>4, <3>1
    <3>3. ~(p + (1 + w) <= len)
      BY <2>6
    <3> QED
      BY <1>1, <1>8, <3>2, <3>3 DEF Reaches
  <2>7. CASE p + 1 + w <= len
    <3>1. CanRead(b, p + 1, n)
      BY <1>1, <2>2, <2>7 DEF CanRead
    <3>2. PICK u : u = IF n = 0 THEN Small(b[p + 1])
                       ELSE ZeroExtend(Bytes(b, p + 1, n))
      OBVIOUS
    <3>3. ServerNumber(b, p) = Read(Object(t, u, 0), p + 1 + n)
      BY <2>3, <2>4, <2>5, <3>1, <3>2, Zenon
    <3>4. u = v
      <4>1. CASE t = "POSITIVE_FIXNUM"
        <5>1. n = 0
          BY <1>11, <2>1, <4>1
        <5>2. m = v[8]
          <6>1. MarkerByte(o) = v[8]
            BY <1>2, <4>1 DEF MarkerByte
          <6>2. 1 \in 1 .. 1 + w
            OBVIOUS
          <6> QED
            BY <1>7, <1>9, <1>13, <2>1, <6>1, <6>2
        <5>3. FitsUnsigned(v, 1)
          BY <1>2, <4>1 DEF Exact, Sound
        <5>4. Small(v[8]) = v
          BY <5>3, OneByteWords
        <5> QED
          BY <2>1, <3>2, <5>1, <5>2, <5>4
      <4>2. CASE t # "POSITIVE_FIXNUM"
        <5>1. t \in Numbered
          BY <1>3, <4>2 DEF Numbered
        <5>2. w = Width[t] /\ w \in 1 .. 8
          BY <1>6, <5>1, NumberedFormats DEF NumberWidth
        <5>3. PICK q \in Nat : q = p + 1
          OBVIOUS
        <5>4. q + w <= len
          BY <2>7, <5>3
        <5>5. \A i \in 1 .. w : b[q + i] = v[8 - w + i]
          <6> SUFFICES ASSUME NEW i \in 1 .. w
                       PROVE  b[q + i] = v[8 - w + i]
            OBVIOUS
          <6>1. 1 + i \in 1 .. 1 + w /\ p + (1 + i) <= len
                /\ p + (1 + i) = q + i
            BY <2>7, <5>3
          <6> QED
            BY <1>7, <1>9, <6>1
        <5>6. Number(t, b, q) = v
          BY <1>1, <1>2, <5>1, <5>2, <5>4, <5>5, NumberBack
        <5>7. PICK s : s = Bytes(b, q, w)
          OBVIOUS
        <5>8. s \in [1 .. w -> Byte]
          BY <1>1, <5>2, <5>4, <5>7, BytesRead
        <5>9. Memory(be(s)) = s
          BY <5>8, NetworkOrder
        <5>10. Number(t, b, q) = ZeroExtend(Memory(be(s)))
          BY <1>4, <5>2, <5>7 DEF Number
        <5>11. n # 0
          BY <2>2, <5>2
        <5> QED
          BY <2>2, <3>2, <5>3, <5>6, <5>7, <5>9, <5>10, <5>11, Zenon
      <4> QED
        BY <4>1, <4>2
    <3>5. ServerNumber(b, p) = Read(o, p + 1 + w)
      BY <1>5, <2>2, <3>3, <3>4
    <3>6. p + (1 + w) = p + 1 + w /\ p + (1 + w) <= len
      BY <2>7
    <3> QED
      BY <1>1, <1>8, <3>5, <3>6 DEF Reaches
  <2> QED
    BY <2>6, <2>7
<1> QED
  BY <1>12, <1>13

(* Where both readers of numbers go on.                                    *)
LEMMA ReadersGoOn ==
    ASSUME NEW b \in Seq(Byte), NEW p \in Nat
    PROVE  /\ ServerNumber(b, p).ok => ServerNumber(b, p).pos \in Nat
           /\ \A r : cmp_read(r, b, p).ok => cmp_read(r, b, p).pos \in Nat
<1>1. PICK len \in Nat : len = Len(b)
  BY LenProperties
<1>2. \A e, k : ~Failed(e, k).ok
  BY DEF Failed
<1>3. ASSUME NEW r, cmp_read(r, b, p).ok PROVE cmp_read(r, b, p).pos \in Nat
  <2>1. CASE p <= len
    <3>1. InBounds(cmp_read(r, b, p), b)
      BY <1>1, <2>1, TypedRead
    <3> QED
      BY <1>1, <3>1 DEF InBounds
  <2>2. CASE ~(p <= len)
    <3>1. ~CanRead(b, p, 1)
      BY <1>1, <2>2 DEF CanRead
    <3>2. ~cmp_read_object(b, p).ok
      BY <1>2, <3>1 DEF cmp_read_object
    <3>3. ~cmp_read(r, b, p).ok
      BY <3>2 DEF cmp_read
    <3> QED
      BY <1>3, <3>3
  <2> QED
    BY <2>1, <2>2
<1>4. ASSUME ServerNumber(b, p).ok PROVE ServerNumber(b, p).pos \in Nat
  <2>1. PICK t : t = TypeOf(b[p + 1])
    OBVIOUS
  <2>2. PICK n : n = IF t = "POSITIVE_FIXNUM" THEN 0 ELSE Width[t]
    OBVIOUS
  <2>3. PICK x : x = Object(t, IF n = 0 THEN Small(b[p + 1])
                               ELSE ZeroExtend(Bytes(b, p + 1, n)), 0)
    OBVIOUS
  <2>4. ServerNumber(b, p) =
           IF ~CanRead(b, p, 1) \/ t \notin UnsignedFormats
              \/ ~CanRead(b, p + 1, n)
           THEN Failed("type_error", p)
           ELSE Read(x, p + 1 + n)
    BY <2>1, <2>2, <2>3, Zenon DEF ServerNumber
  <2>5. t \in UnsignedFormats /\ ServerNumber(b, p) = Read(x, p + 1 + n)
    BY <1>2, <1>4, <2>4
  <2>6. n \in Nat
    BY <2>2, <2>5 DEF UnsignedFormats, Width
  <2> QED
    BY <2>5, <2>6 DEF Read
<1> QED
  BY <1>3, <1>4

(* What msgpack-c++ makes of n numbers that follow the marker.             *)
Numbers(b, n) ==
    LET item[i \in 0 .. n] ==
            IF i = 0 THEN Read(None, 1)
            ELSE IF item[i - 1].ok THEN ServerNumber(b, item[i - 1].pos)
            ELSE item[i - 1]
    IN  IF n > 0 /\ \A i \in 1 .. n : item[i].ok
                        /\ FitsUnsigned(item[i].obj.as, 4)
        THEN [ok |-> TRUE, vec |-> [i \in 1 .. n |-> item[i].obj.as]]
        ELSE [ok |-> FALSE, vec |-> <<>>]

(* The markers of short arrays.                                            *)
LEMMA ArrayMarkers ==
    ASSUME NEW m \in 144 .. 159 PROVE TypeOf(m) = "FIXARRAY"
BY DEF TypeOf

(* The server unpacks a whole message, whatever follows it.                *)
LEMMA UnpackedWhole ==
    ASSUME NEW f, Vector(f), NEW q, Layout(f, q),
           NEW b, Spells(b, f, q, Len(f)),
           \A j \in 0 .. Len(f) : q[j] <= Len(b)
    PROVE  Unpacked(b) =
              IF \A i \in 1 .. Len(f) : f[i] >= 0
              THEN [ok |-> TRUE, vec |-> [i \in 1 .. Len(f) |-> IntWord(f[i])]]
              ELSE [ok |-> FALSE, vec |-> <<>>]
<1>0. PICK n \in 1 .. 15 : n = Len(f)
  BY DEF Vector
<1>n. n \in Nat /\ n \in 0 .. 15 /\ 0 \in 0 .. n /\ 1 \in 1 .. 1
  OBVIOUS
<1>b. b \in Seq(Byte)
  BY DEF Spells
<1>l. PICK len \in Nat : len = Len(b)
  BY <1>b, LenProperties
<1>q. /\ q \in [0 .. n -> Nat] /\ q[0] = 1
      /\ \A i \in 1 .. n : q[i] = q[i - 1] + HeaderLength(Item(f[i]))
      /\ \A j \in 0 .. n : q[j] <= len
  BY <1>0, <1>l DEF Layout
<1>1. b[1] = 144 + n /\ b # <<>>
  <2>1. PICK s : s = Start(n)
    OBVIOUS
  <2>2. HeaderLength(s) = 1 /\ Encoded(s) = <<144 + n>>
    BY <1>n, <2>1, StartExact, Zenon
  <2>3. Spelled(s, b, 0)
    BY <1>0, <2>1 DEF Spells
  <2>4. 1 <= len
    BY <1>n, <1>q
  <2>5. b[0 + 1] = Encoded(s)[1]
    <3>1. 0 + 1 <= Len(b)
      BY <1>l, <2>4
    <3> QED
      BY <1>n, <2>2, <2>3, <3>1 DEF Spelled
  <2>6. b # <<>>
    BY <1>l, <2>4
  <2> QED
    BY <2>2, <2>5, <2>6
<1>2. PICK o : o = [i \in 1 .. n |-> Item(f[i])]
  OBVIOUS
<1>3. ASSUME NEW i \in 1 .. n
      PROVE  /\ o[i] = Item(f[i]) /\ f[i] \in Int /\ Exact(o[i])
             /\ o[i].as = IntWord(f[i]) /\ o[i].type \in UnsignedFormats
             /\ HeaderLength(o[i]) \in 1 .. 10
             /\ Spelled(o[i], b, q[i - 1])
             /\ i - 1 \in 0 .. n /\ i \in 0 .. n /\ q[i - 1] \in Nat
             /\ q[i] = q[i - 1] + HeaderLength(o[i])
  <2>1. o[i] = Item(f[i]) /\ i - 1 \in 0 .. n /\ i \in 0 .. n
    BY <1>2
  <2>2. f[i] \in Int
    BY <1>0, ElementOfSeq DEF Vector
  <2>3. PICK x : x = o[i]
    OBVIOUS
  <2>4. /\ Exact(x) /\ x.as = IntWord(f[i]) /\ x.type = UIntType(IntWord(f[i]))
        /\ HeaderLength(x) \in 1 .. 10
    BY <2>1, <2>2, <2>3, ItemExact
  <2>5. x.type \in UnsignedFormats
    BY <2>4 DEF UIntType, UnsignedFormats
  <2>6. Spelled(x, b, q[i - 1])
    BY <1>0, <2>1, <2>3 DEF Spells
  <2> QED
    BY <1>q, <2>1, <2>2, <2>3, <2>4, <2>5, <2>6
<1>4. PICK R : R = [k \in Nat |-> ServerNumber(b, k)]
  OBVIOUS
<1>5. \A k \in Nat : R[k] = ServerNumber(b, k)
  BY <1>4
<1>6. PICK g : g = [i \in 0 .. n |-> g[i]] /\ Steps(g, n, 1, R)
  <2>1. \A k \in Nat : R[k].ok => R[k].pos \in Nat
    BY <1>b, <1>5, ReadersGoOn
  <2>2. 1 \in Nat
    OBVIOUS
  <2> QED
    BY <1>n, <2>1, <2>2, StepsExist, Zenon
<1>7. Arrives(g, n, len, o, q)
  <2>1. \A i \in 1 .. n : q[i - 1] <= q[i]
    <3> SUFFICES ASSUME NEW i \in 1 .. n PROVE q[i - 1] <= q[i]
      OBVIOUS
    <3>1. PICK a \in Nat, c \in 1 .. 10 : a = q[i - 1] /\ q[i] = a + c
      BY <1>3
    <3> QED
      BY <3>1
  <2>2. ASSUME NEW i \in 1 .. n
        PROVE  Reaches(R[q[i - 1]], len, o[i], q[i])
    <3>1. PICK a \in Nat : a = q[i - 1]
      BY <1>3
    <3>2. Reaches(ServerNumber(b, a), Len(b), o[i], a + HeaderLength(o[i]))
      BY <1>3, <1>b, <3>1, ServerReads
    <3> QED
      BY <1>3, <1>5, <1>l, <3>1, <3>2
  <2>3. q[0] <= len /\ Steps(g, n, q[0], R)
    BY <1>6, <1>n, <1>q
  <2>4. Readable(R, n, len, o, q)
    BY <1>q, <2>1, <2>2, <2>3 DEF Readable
  <2> QED
    BY <1>n, <2>3, <2>4, StepsReach, Zenon
<1>8. \A i \in 1 .. n : g[i] = Read(o[i], q[i])
  BY <1>3, <1>7, <1>q DEF Arrives, Reaches
<1> DEFINE Step(h) == [i \in 0 .. n |->
                         IF i = 0 THEN Read(None, 1)
                         ELSE IF h[i - 1].ok THEN ServerNumber(b, h[i - 1].pos)
                         ELSE h[i - 1]]
           Result == CHOOSE h : h = Step(h)
<1>9. g = Step(g)
  <2>1. \A i \in 0 .. n : g[i] = Step(g)[i]
    <3> SUFFICES ASSUME NEW i \in 0 .. n
                 PROVE  g[i] = IF i = 0 THEN Read(None, 1)
                               ELSE IF g[i - 1].ok
                               THEN ServerNumber(b, g[i - 1].pos)
                               ELSE g[i - 1]
      OBVIOUS
    <3>1. CASE i = 0
      BY <1>6, <3>1 DEF Steps
    <3>2. CASE i # 0
      <4>1. i \in 1 .. n
        BY <3>2
      <4>2. PICK x : x = g[i - 1]
        OBVIOUS
      <4>3. g[i] = IF x.ok THEN R[x.pos] ELSE x
        BY <1>6, <4>1, <4>2 DEF Steps
      <4>4. x.ok => x.pos \in Nat
        BY <1>3, <1>7, <4>1, <4>2 DEF Arrives
      <4>5. g[i] = IF x.ok THEN ServerNumber(b, x.pos) ELSE x
        BY <1>5, <4>3, <4>4
      <4> QED
        BY <3>2, <4>2, <4>5, Zenon
    <3> QED
      BY <3>1, <3>2
  <2>2. DOMAIN Step(g) = 0 .. n /\ Step(g) = [i \in 0 .. n |-> Step(g)[i]]
    OBVIOUS
  <2>3. g = [i \in 0 .. n |-> g[i]]
    BY <1>6, Zenon
  <2> HIDE DEF Step
  <2> QED
    BY <2>1, <2>2, <2>3
<1>10. PICK item : item = Result /\ item = Step(item)
  BY <1>9
<1> HIDE DEF Result
<1>11. item[0] = g[0]
  <2>1. item[0] = Read(None, 1)
    BY <1>10, <1>n
  <2> QED
    BY <1>6, <2>1 DEF Steps
<1>12. \A i \in 0 .. n : item[i] = g[i]
  <2> DEFINE P == {j \in 0 .. n : item[j] = g[j]}
  <2>1. 0 \in P
    BY <1>11, <1>n
  <2>2. ASSUME NEW i \in 1 .. n, i - 1 \in P PROVE i \in P
    <3>1. i \in 0 .. n /\ i # 0
      OBVIOUS
    <3>2. PICK x : x = item[i - 1] /\ x = g[i - 1]
      BY <2>2
    <3>3. item[i] = IF x.ok THEN ServerNumber(b, x.pos) ELSE x
      BY <1>10, <3>1, <3>2
    <3>4. g[i] = IF x.ok THEN ServerNumber(b, x.pos) ELSE x
      BY <1>9, <3>1, <3>2
    <3> QED
      BY <3>1, <3>3, <3>4
  <2> HIDE DEF P
  <2>3. \A i \in 0 .. n : i \in P
    BY <1>n, <2>1, <2>2, CountingUp
  <2> QED
    BY <2>3 DEF P
<1>13. \A i \in 1 .. n : /\ item[i].ok /\ item[i].obj.as = IntWord(f[i])
                         /\ FitsUnsigned(item[i].obj.as, 4) <=> f[i] >= 0
  <2> SUFFICES ASSUME NEW i \in 1 .. n
               PROVE  /\ item[i].ok /\ item[i].obj.as = IntWord(f[i])
                      /\ FitsUnsigned(item[i].obj.as, 4) <=> f[i] >= 0
    OBVIOUS
  <2>1. item[i] = Read(o[i], q[i])
    BY <1>3, <1>8, <1>12
  <2>2. item[i].ok /\ item[i].obj = o[i]
    BY <2>1 DEF Read
  <2>3. FitsUnsigned(IntWord(f[i]), 4) <=> f[i] >= 0
    BY <1>3, IntWordSign
  <2> QED
    BY <1>3, <2>2, <2>3
<1>14. PICK v : v = [i \in 1 .. n |-> item[i].obj.as]
  OBVIOUS
<1>15. v = [i \in 1 .. n |-> IntWord(f[i])]
  BY <1>13, <1>14
<1>16. TypeOf(b[1]) = "FIXARRAY" /\ b[1] - 144 = n
  <2>1. PICK m : m = 144 + n
    OBVIOUS
  <2>2. m \in 144 .. 159 /\ m - 144 = n
    BY <2>1, SMT
  <2>3. TypeOf(m) = "FIXARRAY"
    BY <2>2, ArrayMarkers, Zenon
  <2> QED
    BY <1>1, <2>1, <2>2, <2>3, Zenon
<1>17. Unpacked(b) =
          IF n > 0 /\ \A i \in 1 .. n : item[i].ok
                         /\ FitsUnsigned(item[i].obj.as, 4)
          THEN [ok |-> TRUE, vec |-> v] ELSE [ok |-> FALSE, vec |-> <<>>]
  <2>1. (IF b # <<>> /\ TypeOf(b[1]) = "FIXARRAY" THEN b[1] - 144 ELSE 0) = n
    BY <1>1, <1>16
  <2>2. Unpacked(b) = Numbers(b, IF b # <<>> /\ TypeOf(b[1]) = "FIXARRAY"
                                 THEN b[1] - 144 ELSE 0)
    BY Zenon DEF Unpacked, Numbers
  <2>3. Unpacked(b) = Numbers(b, n)
    BY <2>1, <2>2, Zenon
  <2>4. Numbers(b, n) =
           IF n > 0 /\ \A i \in 1 .. n : Result[i].ok
                         /\ FitsUnsigned(Result[i].obj.as, 4)
           THEN [ok |-> TRUE, vec |-> [i \in 1 .. n |-> Result[i].obj.as]]
           ELSE [ok |-> FALSE, vec |-> <<>>]
    BY Zenon DEF Numbers, Result, Step
  <2> QED
    BY <1>10, <1>14, <2>3, <2>4, Zenon
<1>18. (n > 0 /\ \A i \in 1 .. n : item[i].ok
                      /\ FitsUnsigned(item[i].obj.as, 4))
       <=> \A i \in 1 .. n : f[i] >= 0
  BY <1>13
<1>19. Unpacked(b) = IF \A i \in 1 .. n : f[i] >= 0
                     THEN [ok |-> TRUE, vec |-> v]
                     ELSE [ok |-> FALSE, vec |-> <<>>]
  BY <1>17, <1>18, Zenon
<1> QED
  BY <1>0, <1>15, <1>19, Zenon

(* A typed reader takes an object of its types as cmp_read_object does.    *)
LEMMA TypedReads ==
    ASSUME NEW b \in Seq(Byte), NEW p \in Nat, NEW o, Exact(o),
           Spelled(o, b, p), NEW r, Takes(r, o)
    PROVE  Reaches(cmp_read(r, b, p), Len(b), o, p + HeaderLength(o))
<1>1. PICK x, h : x = cmp_read_object(b, p) /\ h = p + HeaderLength(o)
  OBVIOUS
<1>2. IF h <= Len(b) THEN x = Read(o, h) ELSE ~x.ok
  BY <1>1, ReadBack, Zenon
<1>3. cmp_read(r, b, p) = IF ~x.ok \/ Takes(r, x.obj) THEN x
                          ELSE Failed("INVALID_TYPE", x.pos)
  BY <1>1, Zenon DEF cmp_read
<1>4. Read(o, h).ok /\ Read(o, h).obj = o
  BY DEF Read
<1>5. x.ok => x.obj = o
  BY <1>2, <1>4
<1>6. cmp_read(r, b, p) = x
  BY <1>3, <1>5, Zenon
<1> QED
  BY <1>1, <1>2, <1>6, Zenon DEF Reaches

(* Numbers o[1] ... o[n] lie one after the other from q[0] on, each of a   *)
(* format that cmp_read_uint takes.                                        *)
InARow(b, n, o, q) ==
    /\ q \in [0 .. n -> Nat]
    /\ \A i \in 1 .. n :
          /\ Exact(o[i]) /\ Takes("uint", o[i]) /\ Spelled(o[i], b, q[i - 1])
          /\ HeaderLength(o[i]) \in 1 .. 10
          /\ q[i] = q[i - 1] + HeaderLength(o[i])

(* The arguments of a callback are read if all of them are there.          *)
LEMMA ArgumentsRead ==
    ASSUME NEW b \in Seq(Byte), NEW n \in Nat, NEW o, NEW q,
           InARow(b, n, o, q), q[0] <= Len(b)
    PROVE  /\ Arguments(b, q[0], n).ok <=> q[n] <= Len(b)
           /\ (\A j \in 0 .. n : q[j] <= Len(b)) =>
                 Arguments(b, q[0], n).args = [i \in 1 .. n |-> o[i].as]
<1>n. 0 \in 0 .. n /\ n \in 0 .. n
  OBVIOUS
<1>l. PICK len \in Nat : len = Len(b)
  BY LenProperties
<1>q. /\ q \in [0 .. n -> Nat] /\ q[0] <= len
      /\ \A i \in 1 .. n :
            /\ Exact(o[i]) /\ Takes("uint", o[i]) /\ Spelled(o[i], b, q[i - 1])
            /\ HeaderLength(o[i]) \in 1 .. 10
            /\ q[i] = q[i - 1] + HeaderLength(o[i])
  BY <1>l DEF InARow
<1>p. PICK p \in Nat : p = q[0]
  BY <1>n, <1>q
<1>4. PICK R : R = [k \in Nat |-> cmp_read("uint", b, k)]
  OBVIOUS
<1>5. \A k \in Nat : R[k] = cmp_read("uint", b, k)
  BY <1>4
<1>6. PICK g : g = [i \in 0 .. n |-> g[i]] /\ Steps(g, n, p, R)
  <2>1. \A k \in Nat : R[k].ok => R[k].pos \in Nat
    BY <1>5, ReadersGoOn
  <2> QED
    BY <2>1, StepsExist, Zenon
<1>7. Arrives(g, n, len, o, q)
  <2>1. ASSUME NEW i \in 1 .. n
        PROVE  /\ q[i - 1] <= q[i]
               /\ Reaches(R[q[i - 1]], len, o[i], q[i])
    <3>0. i - 1 \in 0 .. n
      OBVIOUS
    <3>1. PICK a \in Nat, c \in 1 .. 10 :
             a = q[i - 1] /\ c = HeaderLength(o[i]) /\ q[i] = a + c
      BY <1>q, <3>0
    <3>2. Exact(o[i]) /\ Takes("uint", o[i]) /\ Spelled(o[i], b, a)
      BY <1>q, <3>1
    <3>3. Reaches(cmp_read("uint", b, a), Len(b), o[i], a + HeaderLength(o[i]))
      BY <3>2, TypedReads
    <3>4. Reaches(R[a], len, o[i], a + c)
      BY <1>5, <1>l, <3>1, <3>3
    <3>5. a <= a + c
      OBVIOUS
    <3> QED
      BY <3>1, <3>4, <3>5
  <2>2. Readable(R, n, len, o, q)
    BY <1>q, <2>1 DEF Readable
  <2>3. Steps(g, n, q[0], R)
    BY <1>6, <1>p, Zenon
  <2> QED
    BY <2>2, <2>3, StepsReach, Zenon
<1> DEFINE Step(h) == [i \in 0 .. n |->
                         IF i = 0 THEN Read(None, p)
                         ELSE IF h[i - 1].ok
                         THEN cmp_read("uint", b, h[i - 1].pos)
                         ELSE h[i - 1]]
           Result == CHOOSE h : h = Step(h)
<1>9. g = Step(g)
  <2>1. \A i \in 0 .. n : g[i] = Step(g)[i]
    <3> SUFFICES ASSUME NEW i \in 0 .. n
                 PROVE  g[i] = IF i = 0 THEN Read(None, p)
                               ELSE IF g[i - 1].ok
                               THEN cmp_read("uint", b, g[i - 1].pos)
                               ELSE g[i - 1]
      OBVIOUS
    <3>1. CASE i = 0
      BY <1>6, <3>1 DEF Steps
    <3>2. CASE i # 0
      <4>1. i \in 1 .. n /\ i - 1 \in 0 .. n
        BY <3>2
      <4>2. PICK x : x = g[i - 1]
        OBVIOUS
      <4>3. g[i] = IF x.ok THEN R[x.pos] ELSE x
        BY <1>6, <4>1, <4>2 DEF Steps
      <4>4. x.ok => x.pos \in Nat
        BY <1>7, <1>q, <4>1, <4>2 DEF Arrives
      <4>5. g[i] = IF x.ok THEN cmp_read("uint", b, x.pos) ELSE x
        BY <1>5, <4>3, <4>4
      <4> QED
        BY <3>2, <4>2, <4>5, Zenon
    <3> QED
      BY <3>1, <3>2
  <2>2. DOMAIN Step(g) = 0 .. n /\ Step(g) = [i \in 0 .. n |-> Step(g)[i]]
    OBVIOUS
  <2>3. g = [i \in 0 .. n |-> g[i]]
    BY <1>6, Zenon
  <2> HIDE DEF Step
  <2> QED
    BY <2>1, <2>2, <2>3
<1>10. PICK item : item = Result /\ item = Step(item)
  BY <1>9
<1> HIDE DEF Result
<1>11. item[0] = g[0]
  <2>1. item[0] = Read(None, p)
    BY <1>10, <1>n
  <2> QED
    BY <1>6, <2>1 DEF Steps
<1>12. \A i \in 0 .. n : item[i] = g[i]
  <2> DEFINE P == {j \in 0 .. n : item[j] = g[j]}
  <2>1. 0 \in P
    BY <1>11, <1>n
  <2>2. ASSUME NEW i \in 1 .. n, i - 1 \in P PROVE i \in P
    <3>1. i \in 0 .. n /\ i # 0
      OBVIOUS
    <3>2. PICK x : x = item[i - 1] /\ x = g[i - 1]
      BY <2>2
    <3>3. item[i] = IF x.ok THEN cmp_read("uint", b, x.pos) ELSE x
      BY <1>10, <3>1, <3>2
    <3>4. g[i] = IF x.ok THEN cmp_read("uint", b, x.pos) ELSE x
      BY <1>9, <3>1, <3>2
    <3> QED
      BY <3>1, <3>3, <3>4
  <2> HIDE DEF P
  <2>3. \A i \in 0 .. n : i \in P
    BY <2>1, <2>2, CountingUp
  <2> QED
    BY <2>3 DEF P
<1>13. PICK out : out = Arguments(b, q[0], n)
                  /\ out = [ok |-> item[n].ok,
                            args |-> [i \in 1 .. n |-> item[i].obj.as]]
  <2>1. Arguments(b, p, n) =
           [ok |-> Result[n].ok, args |-> [i \in 1 .. n |-> Result[i].obj.as]]
    BY Zenon DEF Arguments, Result, Step
  <2> QED
    BY <1>10, <1>p, <2>1, Zenon
<1>14. out.ok <=> q[n] <= len
  <2>1. g[n].ok <=> q[n] <= len
    BY <1>7, <1>n DEF Arrives
  <2>2. out.ok = item[n].ok
    BY <1>13
  <2> QED
    BY <1>12, <1>n, <2>1, <2>2
<1>15. ASSUME \A j \in 0 .. n : q[j] <= len
       PROVE  out.args = [i \in 1 .. n |-> o[i].as]
  <2>1. ASSUME NEW i \in 1 .. n PROVE item[i].obj.as = o[i].as
    <3>1. i \in 0 .. n
      OBVIOUS
    <3>2. item[i] = Read(o[i], q[i])
      BY <1>7, <1>12, <1>15, <3>1 DEF Arrives, Reaches
    <3>3. item[i].obj = o[i]
      BY <3>2 DEF Read
    <3> QED
      BY <3>3
  <2>2. out.args = [i \in 1 .. n |-> item[i].obj.as]
    BY <1>13
  <2> QED
    BY <2>1, <2>2
<1> QED
  BY <1>13, <1>14, <1>15, <1>l

(* What mux_process_incoming_msg makes of the bytes b ...                  *)
Incoming(b) ==
    LET size == cmp_read("array", b, 0)
        type == cmp_read("uint", b, size.pos)
        cb == Callback(type.obj.as)
        args == Arguments(b, type.pos, cb.n)
    IN  IF size.ok /\ type.ok /\ cb.n > 0 /\ args.ok
        THEN [ok |-> TRUE, callback |-> cb.name, args |-> args.args]
        ELSE Nothing

(* ... and what it should make of an event.                                *)
Delivered(e) ==
    IF e.dev = "mouse"
    THEN [ok |-> TRUE, callback |-> "mux_receive_mouse",
          args |-> <<IntWord(e.x), IntWord(e.y), IntWord(e.flags)>>]
    ELSE [ok |-> TRUE, callback |-> "mux_receive_kb",
          args |-> <<IntWord(e.code), IntWord(e.flags)>>]

CallbackOf(e) == IF e.dev = "mouse" THEN "mux_receive_mouse"
                 ELSE "mux_receive_kb"

(* The words of the two event types differ.                                *)
LEMMA EventTypes ==
    /\ MOUSE \in Uint16 /\ KEYBOARD \in Uint16
    /\ IntWord(MOUSE) # IntWord(KEYBOARD)
<1>1. PICK a, c : a = IntWord(MOUSE) /\ c = IntWord(KEYBOARD)
  OBVIOUS
<1>2. MOUSE \in Uint16 /\ KEYBOARD \in Uint16
  BY SMT DEF MOUSE, KEYBOARD, Uint16
<1>3. a[8] = MOUSE % 256 /\ c[8] = KEYBOARD % 256
  <2>1. \A v : \A n \in Uint16 : v = IntWord(n) => v[8] = n % 256
    BY IntWordBytes, Zenon
  <2> QED
    BY <1>1, <1>2, <2>1, Zenon
<1>4. MOUSE % 256 = 3 /\ KEYBOARD % 256 = 4
  BY SMT DEF MOUSE, KEYBOARD
<1>5. a[8] # c[8]
  BY <1>3, <1>4
<1> QED
  BY <1>1, <1>2, <1>5

(* The vector of an event: its type, and the numbers of its callback.      *)
LEMMA EventVectors ==
    ASSUME NEW e \in InputEvents, NEW f, f = EventVector(e)
    PROVE  /\ Vector(f) /\ \A i \in 1 .. Len(f) : f[i] \in Uint16
           /\ Len(f) \in 3 .. 4
           /\ Callback(IntWord(f[1])) = [name |-> CallbackOf(e),
                                         n |-> Len(f) - 1]
           /\ Delivered(e) = [ok |-> TRUE, callback |-> CallbackOf(e),
                              args |-> [i \in 1 .. Len(f) - 1 |->
                                           IntWord(f[i + 1])]]
<1>i. \A k \in Uint16 : k \in Int
  BY SMT DEF Uint16
<1>1. CASE e.dev = "mouse"
  <2>1. e.x \in Uint16 /\ e.y \in Uint16 /\ e.flags \in Uint16
    BY <1>1, SMT DEF InputEvents
  <2>2. PICK k \in Uint16, x \in Uint16, y \in Uint16, z \in Uint16 :
           k = MOUSE /\ x = e.x /\ y = e.y /\ z = e.flags
    BY <2>1, EventTypes, Zenon
  <2>3. f = <<k, x, y, z>>
    BY <1>1, <2>2 DEF EventVector
  <2>4. k \in Int /\ x \in Int /\ y \in Int /\ z \in Int
    BY <1>i, Zenon
  <2>5. /\ f \in Seq(Int) /\ Len(f) = 4 /\ f[1] = k /\ f[2] = x /\ f[3] = y
        /\ f[4] = z
    BY <2>3, <2>4
  <2>6. Vector(f)
    BY <2>5 DEF Vector
  <2>7. \A i \in 1 .. Len(f) : f[i] \in Uint16
    BY <2>5
  <2>8. Callback(IntWord(f[1])) = [name |-> CallbackOf(e), n |-> Len(f) - 1]
    <3>1. Callback(IntWord(k)) = [name |-> "mux_receive_mouse", n |-> 3]
      BY <2>2, EventTypes, Zenon DEF Callback
    <3>2. CallbackOf(e) = "mux_receive_mouse" /\ Len(f) - 1 = 3
      BY <1>1, <2>5 DEF CallbackOf
    <3> QED
      BY <2>5, <3>1, <3>2, Zenon
  <2>9. PICK X, Y, Z : X = IntWord(x) /\ Y = IntWord(y) /\ Z = IntWord(z)
    OBVIOUS
  <2>10. Delivered(e) = [ok |-> TRUE, callback |-> CallbackOf(e),
                         args |-> <<X, Y, Z>>]
    BY <1>1, <2>2, <2>9, Zenon DEF Delivered, CallbackOf
  <2>11. <<X, Y, Z>> = [i \in 1 .. Len(f) - 1 |-> IntWord(f[i + 1])]
    <3>1. PICK s : s = [i \in 1 .. 3 |-> IntWord(f[i + 1])]
      OBVIOUS
    <3>2. s[1] = X /\ s[2] = Y /\ s[3] = Z
      BY <2>5, <2>9, <3>1
    <3>3. s = <<X, Y, Z>>
      BY <3>1, <3>2
    <3>4. Len(f) - 1 = 3
      BY <2>5
    <3> QED
      BY <3>1, <3>3, <3>4, Zenon
  <2>12. Len(f) \in 3 .. 4
    BY <2>5
  <2> QED
    BY <2>6, <2>7, <2>8, <2>10, <2>11, <2>12, Zenon
<1>2. CASE e.dev # "mouse"
  <2>1. e.dev = "keyboard" /\ e.code \in Uint16 /\ e.flags \in Uint16
    BY <1>2, SMT DEF InputEvents
  <2>2. PICK k \in Uint16, x \in Uint16, y \in Uint16 :
           k = KEYBOARD /\ x = e.code /\ y = e.flags
    BY <2>1, EventTypes, Zenon
  <2>3. f = <<k, x, y>>
    BY <1>2, <2>2 DEF EventVector
  <2>4. k \in Int /\ x \in Int /\ y \in Int
    BY <1>i, Zenon
  <2>5. f \in Seq(Int) /\ Len(f) = 3 /\ f[1] = k /\ f[2] = x /\ f[3] = y
    BY <2>3, <2>4
  <2>6. Vector(f)
    BY <2>5 DEF Vector
  <2>7. \A i \in 1 .. Len(f) : f[i] \in Uint16
    BY <2>5
  <2>8. Callback(IntWord(f[1])) = [name |-> CallbackOf(e), n |-> Len(f) - 1]
    <3>1. Callback(IntWord(k)) = [name |-> "mux_receive_kb", n |-> 2]
      BY <2>2, EventTypes, Zenon DEF Callback
    <3>2. CallbackOf(e) = "mux_receive_kb" /\ Len(f) - 1 = 2
      BY <1>2, <2>5 DEF CallbackOf
    <3> QED
      BY <2>5, <3>1, <3>2, Zenon
  <2>9. PICK X, Y : X = IntWord(x) /\ Y = IntWord(y)
    OBVIOUS
  <2>10. Delivered(e) = [ok |-> TRUE, callback |-> CallbackOf(e),
                         args |-> <<X, Y>>]
    BY <1>2, <2>2, <2>9, Zenon DEF Delivered, CallbackOf
  <2>11. <<X, Y>> = [i \in 1 .. Len(f) - 1 |-> IntWord(f[i + 1])]
    <3>1. PICK s : s = [i \in 1 .. 2 |-> IntWord(f[i + 1])]
      OBVIOUS
    <3>2. s[1] = X /\ s[2] = Y
      BY <2>5, <2>9, <3>1
    <3>3. s = <<X, Y>>
      BY <3>1, <3>2
    <3>4. Len(f) - 1 = 2
      BY <2>5
    <3> QED
      BY <3>1, <3>3, <3>4, Zenon
  <2>12. Len(f) \in 3 .. 4
    BY <2>5
  <2> QED
    BY <2>6, <2>7, <2>8, <2>10, <2>11, <2>12, Zenon
<1> QED
  BY <1>1, <1>2, Zenon

(* A number of 16 bits is a number.                                        *)
LEMMA ShortNumbers == \A k \in Uint16 : k \in Int
BY SMT DEF Uint16

(* cmp_read_uint takes the three formats of numbers of 16 bits.            *)
LEMMA TakesUint ==
    ASSUME NEW o, o.type \in {"POSITIVE_FIXNUM", "UINT8", "UINT16"}
    PROVE  Takes("uint", o)
<1>1. "uint" \in DOMAIN UnsignedReader
  BY DEF UnsignedReader
<1>2. UnsignedReader["uint"] = UnsignedBase \cup {"UINT16", "UINT32"}
  BY DEF UnsignedReader
<1>3. o.type \in UnsignedReader["uint"]
  BY <1>2 DEF UnsignedBase
<1> QED
  BY <1>1, <1>3, Zenon DEF Takes

(* mux_process_incoming_msg calls the callback of an event that is whole   *)
(* and none for an event that has lost its end.                            *)
LEMMA IncomingEvent ==
    ASSUME NEW e \in InputEvents, NEW f, f = EventVector(e),
           NEW q, Layout(f, q), NEW b, Spells(b, f, q, Len(f))
    PROVE  /\ q[Len(f)] > Len(b) => Incoming(b) = Nothing
           /\ (\A j \in 0 .. Len(f) : q[j] <= Len(b)) =>
                 Incoming(b) = Delivered(e)
<1>0. /\ Vector(f) /\ \A i \in 1 .. Len(f) : f[i] \in Uint16
      /\ Len(f) \in 3 .. 4
      /\ Callback(IntWord(f[1])) = [name |-> CallbackOf(e), n |-> Len(f) - 1]
      /\ Delivered(e) = [ok |-> TRUE, callback |-> CallbackOf(e),
                         args |-> [i \in 1 .. Len(f) - 1 |->
                                      IntWord(f[i + 1])]]
  BY EventVectors, Zenon
<1>1. PICK m \in 2 .. 3 : Len(f) = m + 1 /\ Len(f) - 1 = m
  <2>1. PICK n \in 3 .. 4 : n = Len(f)
    BY <1>0, Zenon
  <2>2. n - 1 \in 2 .. 3 /\ (n - 1) + 1 = n
    OBVIOUS
  <2> QED
    BY <2>1, <2>2
<1>b. b \in Seq(Byte)
  BY DEF Spells
<1>l. PICK len \in Nat : len = Len(b)
  BY <1>b, LenProperties
<1>q. /\ q \in [0 .. m + 1 -> Nat] /\ q[0] = 1
      /\ \A i \in 1 .. m + 1 : q[i] = q[i - 1] + HeaderLength(Item(f[i]))
  BY <1>1 DEF Layout
<1>2. ASSUME NEW i \in 1 .. m + 1
      PROVE  /\ Exact(Item(f[i])) /\ Item(f[i]).as = IntWord(f[i])
             /\ Takes("uint", Item(f[i])) /\ Spelled(Item(f[i]), b, q[i - 1])
             /\ HeaderLength(Item(f[i])) \in 1 .. 10
             /\ i - 1 \in 0 .. m + 1 /\ q[i - 1] \in Nat
             /\ q[i] = q[i - 1] + HeaderLength(Item(f[i]))
  <2>1. PICK k \in Uint16 : k = f[i]
    BY <1>0, <1>1
  <2>2. k \in Int
    BY ShortNumbers, Zenon
  <2>3. Exact(Item(k)) /\ Item(k).as = IntWord(k)
        /\ HeaderLength(Item(k)) \in 1 .. 10
    BY <2>2, ItemExact, Zenon
  <2>4. Item(k).type \in {"POSITIVE_FIXNUM", "UINT8", "UINT16"}
    BY PackedAsWritten, Zenon
  <2>5. Takes("uint", Item(k))
    <3>1. PICK x : x = Item(k)
      OBVIOUS
    <3>2. x.type \in {"POSITIVE_FIXNUM", "UINT8", "UINT16"}
      BY <2>4, <3>1, Zenon
    <3> QED
      BY <3>1, <3>2, TakesUint
  <2>6. Spelled(Item(f[i]), b, q[i - 1])
    BY <1>1 DEF Spells
  <2>7. i - 1 \in 0 .. m + 1
    OBVIOUS
  <2>8. q[i - 1] \in Nat
    BY <1>q, <2>7
  <2>9. q[i] = q[i - 1] + HeaderLength(Item(f[i]))
    BY <1>q, Zenon
  <2> QED
    BY <2>1, <2>3, <2>5, <2>6, <2>7, <2>8, <2>9, Zenon
<1>3. PICK size, type, cb, args :
         /\ size = cmp_read("array", b, 0)
         /\ type = cmp_read("uint", b, size.pos)
         /\ cb = Callback(type.obj.as)
         /\ args = Arguments(b, type.pos, cb.n)
  OBVIOUS
<1>4. Incoming(b) =
         IF size.ok /\ type.ok /\ cb.n > 0 /\ args.ok
         THEN [ok |-> TRUE, callback |-> cb.name, args |-> args.args]
         ELSE Nothing
  BY <1>3, Zenon DEF Incoming
<1>5. \A x, p : Read(x, p).ok /\ Read(x, p).pos = p /\ Read(x, p).obj = x
  BY DEF Read
<1>6. Reaches(size, len, Start(m + 1), 1)
  <2>1. m + 1 \in 0 .. 15
    OBVIOUS
  <2>2. PICK s : s = Start(m + 1)
    OBVIOUS
  <2>3. Exact(s) /\ HeaderLength(s) = 1 /\ Takes("array", s)
    BY <2>1, <2>2, StartExact, Zenon
  <2>4. Spelled(s, b, 0)
    BY <1>1, <2>2 DEF Spells
  <2>5. 0 \in Nat /\ 0 + 1 = 1
    OBVIOUS
  <2>6. Reaches(cmp_read("array", b, 0), Len(b), s, 0 + HeaderLength(s))
    BY <1>b, <2>3, <2>4, <2>5, TypedReads, Zenon
  <2> QED
    BY <1>3, <1>l, <2>2, <2>3, <2>5, <2>6, Zenon
<1>7. CASE ~(1 <= len)
  <2>1. ~size.ok
    BY <1>6, <1>7 DEF Reaches
  <2>2. Incoming(b) = Nothing
    BY <1>4, <2>1, Zenon
  <2>3. ~(\A j \in 0 .. Len(f) : q[j] <= Len(b))
    <3>1. 0 \in 0 .. m + 1
      OBVIOUS
    <3> QED
      BY <1>1, <1>7, <1>l, <1>q, <3>1
  <2> QED
    BY <2>2, <2>3
<1>8. CASE 1 <= len
  <2>1. size = Read(Start(m + 1), 1)
    BY <1>6, <1>8 DEF Reaches
  <2>2. size.ok /\ size.pos = 1
    BY <1>5, <2>1, Zenon
  <2>3. 1 \in 1 .. m + 1 /\ 1 - 1 = 0 /\ 1 \in 0 .. m + 1
    OBVIOUS
  <2>4. PICK o : o = Item(f[1])
    OBVIOUS
  <2>5. /\ Exact(o) /\ o.as = IntWord(f[1]) /\ Takes("uint", o)
        /\ Spelled(o, b, 1) /\ q[1] = 1 + HeaderLength(o)
    BY <1>2, <1>q, <2>3, <2>4
  <2>6. Reaches(type, len, o, q[1])
    <3>1. 1 \in Nat
      OBVIOUS
    <3>2. Reaches(cmp_read("uint", b, 1), Len(b), o, 1 + HeaderLength(o))
      BY <1>b, <2>5, <3>1, TypedReads, Zenon
    <3> QED
      BY <1>3, <1>l, <2>2, <2>5, <3>2, Zenon
  <2>7. CASE ~(q[1] <= len)
    <3>1. ~type.ok
      BY <2>6, <2>7 DEF Reaches
    <3>2. Incoming(b) = Nothing
      BY <1>4, <3>1, Zenon
    <3>3. ~(\A j \in 0 .. Len(f) : q[j] <= Len(b))
      BY <1>1, <1>l, <2>3, <2>7
    <3> QED
      BY <3>2, <3>3
  <2>8. CASE q[1] <= len
    <3>1. type = Read(o, q[1])
      BY <2>6, <2>8 DEF Reaches
    <3>2. type.ok /\ type.pos = q[1] /\ type.obj = o
      BY <1>5, <3>1, Zenon
    <3>3. cb = [name |-> CallbackOf(e), n |-> m]
      BY <1>0, <1>1, <1>3, <2>5, <3>2, Zenon
    <3>4. cb.name = CallbackOf(e) /\ cb.n = m
      BY <3>3
    <3>5. PICK p, w : p = [i \in 0 .. m |-> q[i + 1]]
                      /\ w = [i \in 1 .. m |-> Item(f[i + 1])]
      OBVIOUS
    <3>6. p[0] = q[1] /\ p[m] = q[m + 1]
      BY <3>5
    <3>7. InARow(b, m, w, p)
      <4>1. p \in [0 .. m -> Nat]
        <5>1. ASSUME NEW i \in 0 .. m PROVE q[i + 1] \in Nat
          BY <1>q
        <5> QED
          BY <3>5, <5>1
      <4>2. ASSUME NEW i \in 1 .. m
            PROVE  /\ Exact(w[i]) /\ Takes("uint", w[i])
                   /\ Spelled(w[i], b, p[i - 1])
                   /\ HeaderLength(w[i]) \in 1 .. 10
                   /\ p[i] = p[i - 1] + HeaderLength(w[i])
        <5>1. PICK j \in 1 .. m + 1 : j = i + 1
          OBVIOUS
        <5>2. w[i] = Item(f[j]) /\ p[i] = q[j] /\ p[i - 1] = q[j - 1]
          <6>1. i \in 0 .. m /\ i - 1 \in 0 .. m /\ (i - 1) + 1 = j - 1
            BY <5>1
          <6> QED
            BY <3>5, <5>1, <6>1
        <5>3. /\ Exact(Item(f[j])) /\ Takes("uint", Item(f[j]))
              /\ Spelled(Item(f[j]), b, q[j - 1])
              /\ HeaderLength(Item(f[j])) \in 1 .. 10
              /\ q[j] = q[j - 1] + HeaderLength(Item(f[j]))
          BY <1>2, Zenon
        <5> QED
          BY <5>2, <5>3, Zenon
      <4> QED
        BY <4>1, <4>2, Zenon DEF InARow
    <3>8. args = Arguments(b, p[0], m)
      BY <1>3, <3>2, <3>4, <3>6, Zenon
    <3>9. m \in Nat /\ m > 0 /\ p[0] <= Len(b)
      BY <1>l, <2>8, <3>6
    <3>10. /\ args.ok <=> p[m] <= Len(b)
           /\ (\A j \in 0 .. m : p[j] <= Len(b)) =>
                 args.args = [i \in 1 .. m |-> w[i].as]
      <4>1. /\ Arguments(b, p[0], m).ok <=> p[m] <= Len(b)
            /\ (\A j \in 0 .. m : p[j] <= Len(b)) =>
                 Arguments(b, p[0], m).args = [i \in 1 .. m |-> w[i].as]
        BY <1>b, <3>7, <3>9, ArgumentsRead
      <4>2. PICK x : x = Arguments(b, p[0], m)
        OBVIOUS
      <4>3. args = x
        BY <3>8, <4>2, Zenon
      <4> QED
        BY <4>1, <4>2, <4>3, Zenon
    <3>11. ASSUME q[Len(f)] > Len(b) PROVE Incoming(b) = Nothing
      <4>1. p[m] \in Nat /\ p[m] > len
        BY <1>1, <1>l, <1>q, <3>6, <3>11
      <4>2. ~args.ok
        BY <1>l, <3>10, <4>1
      <4> QED
        BY <1>4, <4>2, Zenon
    <3>12. ASSUME \A j \in 0 .. Len(f) : q[j] <= Len(b)
           PROVE  Incoming(b) = Delivered(e)
      <4>1. \A j \in 0 .. m : p[j] <= Len(b)
        BY <1>1, <3>5, <3>12
      <4>2. args.ok
        BY <3>9, <3>10, <4>1
      <4>3. args.args = [i \in 1 .. m |-> w[i].as]
        BY <3>10, <4>1, Zenon
      <4>4. ASSUME NEW i \in 1 .. m PROVE w[i].as = IntWord(f[i + 1])
        <5>1. PICK j \in 1 .. m + 1 : j = i + 1
          OBVIOUS
        <5>2. w[i] = Item(f[j])
          BY <3>5, <5>1
        <5>3. Item(f[j]).as = IntWord(f[j])
          BY <1>2, Zenon
        <5> QED
          BY <5>1, <5>2, <5>3, Zenon
      <4>5. args.args = [i \in 1 .. m |-> IntWord(f[i + 1])]
        BY <4>3, <4>4
      <4>6. Incoming(b) = [ok |-> TRUE, callback |-> CallbackOf(e),
                           args |-> args.args]
        BY <1>4, <2>2, <3>2, <3>4, <3>9, <4>2, Zenon
      <4> QED
        BY <1>0, <1>1, <4>5, <4>6, Zenon
    <3> QED
      BY <3>11, <3>12, Zenon
  <2> QED
    BY <2>7, <2>8, Zenon
<1> QED
  BY <1>7, <1>8, Zenon
-----------------------------------------------------------------------------
(* Messages from the one who writes to the one who reads.                  *)

(* The message f, of which b is in the buffer and c still to be written;   *)
(* the message f on the wire, followed by whatever was in the buffer; the  *)
(* event e without its last n bytes.                                       *)
ToWrite(b, c, f) ==
    /\ Vector(f) /\ b \in Seq(Byte) /\ c \in Seq(WriteCall)
    /\ \E q : Layout(f, q) /\ Whole(b \o Flat(c), f, q, Len(f))

OnWire(b, f) ==
    /\ Vector(f)
    /\ \E q : /\ Layout(f, q) /\ Spells(b, f, q, Len(f))
              /\ \A j \in 0 .. Len(f) : q[j] <= Len(b)

EventOnWire(b, e, n) ==
    /\ e \in InputEvents /\ n \in Nat /\ n <= Len(Packed(EventVector(e)))
    /\ b = Cut(Packed(EventVector(e)), n)

(* One ctx->write moves bytes into the buffer.                             *)
LEMMA WriteOne ==
    ASSUME NEW f, NEW b, NEW c, ToWrite(b, c, f), c # <<>>
    PROVE  ToWrite(b \o Head(c).data, Tail(c), f)
<1>1. b \in Seq(Byte) /\ c \in Seq(WriteCall) /\ Vector(f)
  BY DEF ToWrite
<1>2. PICK h, t : h = Head(c) /\ t = Tail(c)
  OBVIOUS
<1>3. h \in WriteCall /\ t \in Seq(WriteCall)
  BY <1>1, <1>2, HeadTailProperties
<1>4. PICK s : s = <<h>>
  OBVIOUS
<1>5. s \in Seq(WriteCall) /\ Flat(s) = h.data
  BY <1>3, <1>4, FlatShort
<1>6. c = s \o t
  <2>1. Len(s) = 1 /\ s[1] = h
    BY <1>4
  <2>2. /\ Len(t) = Len(c) - 1 /\ \A i \in 1 .. Len(t) : t[i] = c[i + 1]
        /\ c[1] = h /\ Len(c) \in Nat
    BY <1>1, <1>2, HeadTailProperties, LenProperties
  <2>3. PICK u : u = s \o t
    OBVIOUS
  <2>4. /\ u \in Seq(WriteCall) /\ Len(u) = Len(s) + Len(t)
        /\ \A i \in 1 .. Len(s) + Len(t) :
              u[i] = IF i <= Len(s) THEN s[i] ELSE t[i - Len(s)]
    BY <1>3, <1>5, <2>3, ConcatProperties
  <2>5. PICK n \in Nat : n = Len(c)
    BY <2>2
  <2>6. Len(u) = n /\ Len(t) = n - 1
    BY <2>1, <2>2, <2>4, <2>5
  <2>7. ASSUME NEW i \in 1 .. n PROVE u[i] = c[i]
    <3>1. u[i] = IF i <= 1 THEN s[i] ELSE t[i - 1]
      BY <2>1, <2>4, <2>6
    <3>2. CASE i <= 1
      BY <2>1, <2>2, <3>1, <3>2
    <3>3. CASE ~(i <= 1)
      <4>1. i - 1 \in 1 .. n - 1 /\ (i - 1) + 1 = i
        BY <3>3
      <4> QED
        BY <2>2, <2>6, <3>1, <3>3, <4>1
    <3> QED
      BY <3>2, <3>3
  <2> QED
    BY <1>1, <2>3, <2>4, <2>5, <2>6, <2>7, SeqEqual
<1>7. Flat(c) = h.data \o Flat(t)
  BY <1>3, <1>5, <1>6, FlatConcat, Zenon
<1>8. h.data \in Seq(Byte) /\ Flat(t) \in Seq(Byte)
  <2>1. PICK w : w = [calls |-> t]
    OBVIOUS
  <2>2. w.calls = t
    BY <2>1
  <2>3. Flat(t) \in Seq(Byte)
    BY <1>3, <2>2, WrittenIsFlat
  <2> QED
    BY <1>3, <2>3 DEF WriteCall
<1>9. (b \o h.data) \o Flat(t) = b \o Flat(c)
  <2>1. PICK x \in Seq(Byte), y \in Seq(Byte) : x = h.data /\ y = Flat(t)
    BY <1>8
  <2>2. (b \o x) \o y = b \o (x \o y)
    BY <1>1, ConcatAssociative
  <2> QED
    BY <1>7, <2>1, <2>2
<1>10. b \o h.data \in Seq(Byte)
  BY <1>1, <1>8, ConcatProperties
<1> QED
  BY <1>1, <1>2, <1>3, <1>9, <1>10 DEF ToWrite

(* The message has been written, and the rest of the buffer follows it.    *)
LEMMA WrittenOut ==
    ASSUME NEW f, NEW b, ToWrite(b, <<>>, f), NEW d \in Seq(Byte)
    PROVE  OnWire(b \o d, f)
<1>1. b \in Seq(Byte) /\ Vector(f) /\ Flat(<<>>) = <<>>
  BY FlatShort DEF ToWrite
<1>2. b \o Flat(<<>>) = b
  BY <1>1, ConcatEmptySeq
<1>3. PICK q : Layout(f, q) /\ Whole(b, f, q, Len(f))
  BY <1>2 DEF ToWrite
<1>4. PICK c : c = b \o d
  OBVIOUS
<1>5. PICK m \in Nat, k \in Nat : m = Len(b) /\ k = Len(d)
  BY <1>1, LenProperties
<1>6. /\ c \in Seq(Byte) /\ Len(c) = Len(b) + Len(d)
      /\ \A i \in 1 .. Len(b) + Len(d) :
            c[i] = IF i <= Len(b) THEN b[i] ELSE d[i - Len(b)]
  BY <1>1, <1>4, ConcatProperties
<1>7. PICK n \in 1 .. 15 : n = Len(f)
  BY <1>1 DEF Vector
<1>8. Spells(c, f, q, n)
  <2>1. \A i \in 1 .. Len(b) : i <= Len(c) => c[i] = b[i]
    BY <1>5, <1>6
  <2>2. n \in 0 .. Len(f)
    BY <1>7
  <2> QED
    BY <1>1, <1>3, <1>6, <1>7, <2>1, <2>2, SpellsStill
<1>9. ASSUME NEW j \in 0 .. n PROVE q[j] <= Len(c)
  <2>1. q[j] <= m
    BY <1>3, <1>5, <1>7 DEF Whole
  <2>2. q[j] \in Nat
    BY <1>3, <1>7 DEF Layout
  <2>3. Len(c) = m + k
    BY <1>5, <1>6
  <2> QED
    BY <2>1, <2>2, <2>3
<1> QED
  BY <1>1, <1>3, <1>4, <1>7, <1>8, <1>9 DEF OnWire

(* What the library makes of an event that has lost n bytes.               *)
LEMMA EventBack ==
    ASSUME NEW e, NEW n, NEW b, EventOnWire(b, e, n)
    PROVE  Incoming(b) = IF n > 0 THEN Nothing ELSE Delivered(e)
<1>1. PICK f, w : f = EventVector(e) /\ w = Packed(f)
  OBVIOUS
<1>2. e \in InputEvents /\ n \in Nat /\ n <= Len(w) /\ b = Cut(w, n)
  BY <1>1 DEF EventOnWire
<1>3. Vector(f) /\ \A i \in 1 .. Len(f) : f[i] \in Uint16
  BY <1>1, <1>2, EventVectors, Zenon
<1>4. PICK q : Layout(f, q)
  BY <1>3, Layouts DEF Vector
<1>5. Whole(w, f, q, Len(f))
  BY <1>1, <1>3, <1>4, PackedSpells, Zenon
<1>6. PICK k \in 1 .. 15 : k = Len(f)
  BY <1>3 DEF Vector
<1>7. w \in Seq(Byte) /\ Len(w) = q[k] /\ \A j \in 0 .. k : q[j] <= Len(w)
  BY <1>5, <1>6 DEF Whole, Spells
<1>8. PICK m \in Nat : m = Len(w)
  BY <1>7, LenProperties
<1>9. b \in Seq(Byte) /\ Len(b) = m - n /\ \A i \in 1 .. m - n : b[i] = w[i]
  BY <1>2, <1>7, <1>8, CutBytes
<1>10. Spells(b, f, q, k)
  <2>1. \A i \in 1 .. Len(w) : i <= Len(b) => b[i] = w[i]
    BY <1>2, <1>8, <1>9
  <2>2. k \in 0 .. Len(f)
    BY <1>6
  <2> QED
    BY <1>3, <1>4, <1>5, <1>6, <1>9, <2>1, <2>2, SpellsStill
<1>11. /\ q[k] > Len(b) => Incoming(b) = Nothing
       /\ (\A j \in 0 .. k : q[j] <= Len(b)) => Incoming(b) = Delivered(e)
  BY <1>1, <1>2, <1>4, <1>6, <1>10, IncomingEvent, Zenon
<1>12. CASE n > 0
  <2>1. q[k] > Len(b)
    BY <1>2, <1>7, <1>8, <1>9, <1>12
  <2> QED
    BY <1>11, <1>12, <2>1
<1>13. CASE ~(n > 0)
  <2>1. Len(b) = Len(w)
    BY <1>2, <1>8, <1>9, <1>13
  <2>2. \A j \in 0 .. k : q[j] <= Len(b)
    BY <1>7, <2>1
  <2> QED
    BY <1>11, <1>13, <2>2
<1> QED
  BY <1>12, <1>13

(* The inductive invariant of the messages: where a message is between the *)
(* one who writes it and the one who reads it, its bytes spell its         *)
(* numbers.                                                                *)
MessageInv ==
    /\ step \in {"write", "send"} =>
          req.op \in {"update", "switch", "shutdown"}
    /\ step = "write" => ToWrite(msg.buf, calls, Fields)
    /\ step = "send" => OnWire(wire, Fields)
    /\ (step = "read" /\ req.op = "event") =>
          EventOnWire(wire, req.of, req.cut)
    /\ MessagesUnderstood

(* A display message that starts is all in the calls to be made.           *)
LEMMA MessageStarts ==
    ASSUME mux_write_outgoing_msg PROVE MessageInv'
<1>1. /\ step' = "write" /\ msg' = [buf |-> <<>>, size |-> 0]
      /\ req'.op \in {"update", "switch", "shutdown"}
  BY DEF mux_write_outgoing_msg
<1>2. msg'.buf = <<>>
  BY <1>1
<1>3. ASSUME NEW f, NEW c, Vector(f),
             \A q : Layout(f, q) => CallsSpell(c, f, q, Len(f))
      PROVE  ToWrite(<<>>, c, f)
  <2>1. PICK q : Layout(f, q)
    BY <1>3, Layouts DEF Vector
  <2>2. c \in Seq(WriteCall) /\ Whole(Flat(c), f, q, Len(f))
    BY <1>3, <2>1 DEF CallsSpell
  <2>3. <<>> \in Seq(Byte) /\ <<>> \o Flat(c) = Flat(c)
    BY <2>2, EmptySeq, ConcatEmptySeq DEF Whole, Spells
  <2> QED
    BY <1>3, <2>1, <2>2, <2>3 DEF ToWrite
<1>4. ToWrite(<<>>, calls', Fields')
  <2>1. CASE \E u \in Updates :
                /\ req' = [op |-> "update", box |-> u]
                /\ calls' = mux_write_outgoing_update_msg(u)
    <3>1. PICK u \in Updates :
             /\ req' = [op |-> "update", box |-> u]
             /\ calls' = mux_write_outgoing_update_msg(u)
      BY <2>1
    <3>2. Fields' = UpdateFields(u)
      BY <3>1 DEF Fields, UpdateFields
    <3>3. PICK f, c : /\ f = UpdateFields(u)
                      /\ c = mux_write_outgoing_update_msg(u)
      OBVIOUS
    <3>4. Vector(f) /\ \A q : Layout(f, q) => CallsSpell(c, f, q, Len(f))
      BY <3>3, DisplaySpells, Zenon
    <3>5. ToWrite(<<>>, c, f)
      BY <1>3, <3>4, Zenon
    <3> QED
      BY <3>1, <3>2, <3>3, <3>5, Zenon
  <2>2. CASE \E u \in Switches :
                /\ req' = [op |-> "switch", surface |-> u]
                /\ calls' = mux_write_outgoing_switch_msg(u)
    <3>1. PICK u \in Switches :
             /\ req' = [op |-> "switch", surface |-> u]
             /\ calls' = mux_write_outgoing_switch_msg(u)
      BY <2>2
    <3>2. Fields' = SwitchFields(u)
      BY <3>1 DEF Fields, SwitchFields
    <3>3. PICK f, c : /\ f = SwitchFields(u)
                      /\ c = mux_write_outgoing_switch_msg(u)
      OBVIOUS
    <3>4. Vector(f) /\ \A q : Layout(f, q) => CallsSpell(c, f, q, Len(f))
      BY <3>3, DisplaySpells, Zenon
    <3>5. ToWrite(<<>>, c, f)
      BY <1>3, <3>4, Zenon
    <3> QED
      BY <3>1, <3>2, <3>3, <3>5, Zenon
  <2>3. CASE /\ req' = [op |-> "shutdown"]
             /\ calls' = mux_write_outgoing_shutdown_msg
    <3>2. Fields' = <<SHUTDOWN>>
      BY <2>3 DEF Fields
    <3>3. PICK f, c : f = <<SHUTDOWN>> /\ c = mux_write_outgoing_shutdown_msg
      OBVIOUS
    <3>l. Len(f) = 1
      BY <3>3
    <3>4. Vector(f) /\ \A q : Layout(f, q) => CallsSpell(c, f, q, Len(f))
      BY <3>3, <3>l, DisplaySpells, Zenon
    <3>5. ToWrite(<<>>, c, f)
      BY <1>3, <3>4, Zenon
    <3> QED
      BY <2>3, <3>2, <3>3, <3>5, Zenon
  <2> QED
    BY <2>1, <2>2, <2>3 DEF mux_write_outgoing_msg
<1>5. MessagesUnderstood'
  BY <1>1 DEF MessagesUnderstood
<1> QED
  BY <1>1, <1>2, <1>4, <1>5 DEF MessageInv

(* The request does not change while a message is on its way.              *)
LEMMA SameFields == ASSUME req' = req PROVE Fields' = Fields
BY DEF Fields

(* A call of mux_msg_writer.                                               *)
LEMMA MessageGrows ==
    ASSUME MessageInv, mux_msg_writer PROVE MessageInv'
<1>1. /\ step = "write" /\ step' = "write" /\ req' = req /\ calls # <<>>
      /\ calls' = Tail(calls)
      /\ msg' = [buf |-> msg.buf \o Head(calls).data,
                 size |-> Grown(Len(Head(calls).data))]
  BY DEF mux_msg_writer
<1>2. msg'.buf = msg.buf \o Head(calls).data
  BY <1>1
<1>3. ToWrite(msg.buf, calls, Fields)
  BY <1>1 DEF MessageInv
<1>4. ToWrite(msg.buf \o Head(calls).data, Tail(calls), Fields)
  BY <1>1, <1>3, WriteOne, Zenon
<1>5. ToWrite(msg'.buf, calls', Fields')
  BY <1>1, <1>2, <1>4, SameFields, Zenon
<1>6. MessagesUnderstood'
  BY <1>1 DEF MessagesUnderstood
<1> QED
  BY <1>1, <1>5, <1>6 DEF MessageInv

(* The buffer goes out as a whole.                                         *)
LEMMA MessageSent ==
    ASSUME BufferInv, MessageInv, mux_0mq_send_msg PROVE MessageInv'
<1>1. /\ step = "write" /\ step' = "send" /\ req' = req /\ calls = <<>>
  BY DEF mux_0mq_send_msg
<1>2. PICK x \in Fillers :
         wire' = msg.buf \o [i \in 1 .. msg.size - Len(msg.buf) |-> x]
  BY DEF mux_0mq_send_msg
<1>3. x \in Byte
  BY WireAssumption
<1>4. PICK k \in Nat : k = msg.size - Len(msg.buf)
  <2>1. msg.buf \in Seq(Byte) /\ msg.size \in Nat /\ Len(msg.buf) <= msg.size
    BY DEF BufferInv, NoOverrun
  <2> QED
    BY <2>1, LenProperties
<1>5. PICK d : d = [i \in 1 .. k |-> x]
  OBVIOUS
<1>6. d \in Seq(Byte)
  BY <1>3, <1>5
<1>7. ToWrite(msg.buf, <<>>, Fields)
  BY <1>1 DEF MessageInv
<1>8. OnWire(msg.buf \o d, Fields)
  BY <1>6, <1>7, WrittenOut, Zenon
<1>9. OnWire(wire', Fields')
  BY <1>1, <1>2, <1>4, <1>5, <1>8, SameFields, Zenon
<1>10. MessagesUnderstood'
  BY <1>1 DEF MessagesUnderstood
<1> QED
  BY <1>1, <1>9, <1>10 DEF MessageInv

(* The server unpacks it.                                                  *)
LEMMA MessageUnpacked ==
    ASSUME MessageInv, ServerUnpacks PROVE MessageInv'
<1>1. /\ step = "send" /\ step' = "done" /\ req' = req
      /\ got' = Unpacked(wire)
  BY DEF ServerUnpacks
<1>2. /\ OnWire(wire, Fields)
      /\ req.op \in {"update", "switch", "shutdown"}
  BY <1>1 DEF MessageInv
<1>3. PICK f, b, g : f = Fields /\ b = wire /\ g = got'
  OBVIOUS
<1>4. g = IF \A i \in 1 .. Len(f) : f[i] >= 0
          THEN [ok |-> TRUE, vec |-> [i \in 1 .. Len(f) |-> IntWord(f[i])]]
          ELSE [ok |-> FALSE, vec |-> <<>>]
  <2>1. OnWire(b, f) /\ g = Unpacked(b)
    BY <1>1, <1>2, <1>3, Zenon
  <2>2. PICK q : /\ Layout(f, q) /\ Spells(b, f, q, Len(f))
                 /\ \A j \in 0 .. Len(f) : q[j] <= Len(b)
    BY <2>1 DEF OnWire
  <2>3. Vector(f)
    BY <2>1 DEF OnWire
  <2> QED
    BY <2>1, <2>2, <2>3, UnpackedWhole, Zenon
<1>5. DOMAIN f = 1 .. Len(f)
  BY <1>2, <1>3, LenProperties DEF OnWire, Vector
<1>6. /\ g.ok <=> \A i \in DOMAIN f : f[i] >= 0
      /\ g.ok => g.vec = [i \in DOMAIN f |-> IntWord(f[i])]
  BY <1>4, <1>5
<1>7. MessagesUnderstood'
  <2>1. req'.op # "event" /\ Fields' = f /\ got' = g
    BY <1>1, <1>2, <1>3, SameFields
  <2> QED
    BY <1>6, <2>1 DEF MessagesUnderstood
<1> QED
  BY <1>1, <1>7 DEF MessageInv

(* An event that the server packs, of which the end may be missing.        *)
LEMMA EventPacked ==
    ASSUME ServerPacks PROVE MessageInv'
<1>1. PICK e \in Events, n \in 0 .. MaxCut :
         /\ n <= Len(Packed(EventVector(e)))
         /\ req' = [op |-> "event", of |-> e, cut |-> n]
         /\ wire' = Cut(Packed(EventVector(e)), n)
  BY DEF ServerPacks
<1>2. step' = "read" /\ req'.op = "event" /\ req'.of = e /\ req'.cut = n
  BY <1>1 DEF ServerPacks
<1>3. e \in InputEvents /\ n \in Nat
  BY WireAssumption
<1>4. EventOnWire(wire', e, n)
  BY <1>1, <1>3, Zenon DEF EventOnWire
<1>5. MessagesUnderstood'
  BY <1>2 DEF MessagesUnderstood
<1> QED
  BY <1>2, <1>4, <1>5 DEF MessageInv

(* The library takes it apart.                                             *)
LEMMA EventTakenApart ==
    ASSUME MessageInv, mux_process_incoming_msg PROVE MessageInv'
<1>1. /\ step = "read" /\ step' = "done" /\ req' = req /\ req.op = "event"
  BY DEF mux_process_incoming_msg
<1>2. got' = Incoming(wire)
  BY Zenon DEF mux_process_incoming_msg, Incoming
<1>3. EventOnWire(wire, req.of, req.cut)
  BY <1>1 DEF MessageInv
<1>4. Incoming(wire) = IF req.cut > 0 THEN Nothing ELSE Delivered(req.of)
  BY <1>3, EventBack, Zenon
<1>5. MessagesUnderstood'
  <2>1. PICK e, n : e = req'.of /\ n = req'.cut
    OBVIOUS
  <2>2. got' = IF n > 0 THEN Nothing ELSE Delivered(e)
    BY <1>1, <1>2, <1>4, <2>1, Zenon
  <2>3. got' = IF n > 0 THEN Nothing
               ELSE IF e.dev = "mouse"
               THEN [ok |-> TRUE, callback |-> "mux_receive_mouse",
                     args |-> <<IntWord(e.x), IntWord(e.y), IntWord(e.flags)>>]
               ELSE [ok |-> TRUE, callback |-> "mux_receive_kb",
                     args |-> <<IntWord(e.code), IntWord(e.flags)>>]
    BY <2>2, Zenon DEF Delivered
  <2>4. req'.op \notin {"update", "switch", "shutdown"}
    BY <1>1
  <2> QED
    BY <2>1, <2>3, <2>4, Zenon DEF MessagesUnderstood
<1> QED
  BY <1>1, <1>5 DEF MessageInv

(* MessageInv is inductive next to BufferInv: one step per action.         *)
LEMMA MessageAlways == Spec => []MessageInv
<1>1. Init => MessageInv
  BY DEF Init, MessageInv, MessagesUnderstood
<1>2. BufferInv /\ MessageInv /\ [Next]_vars => MessageInv'
  <2> SUFFICES ASSUME BufferInv, MessageInv, [Next]_vars PROVE MessageInv'
    OBVIOUS
  <2>0. ASSUME step' \notin {"write", "send"},
               step' \in {"read", "done"} => req'.op \in {"object", "raw"}
        PROVE  MessageInv'
    BY <2>0 DEF MessageInv, MessagesUnderstood
  <2>1. CASE WriteObject
    <3>1. step' = "read" /\ req'.op = "object"
      BY <2>1 DEF WriteObject
    <3> QED
      BY <2>0, <3>1
  <2>2. CASE ReceiveObject
    <3>1. step' = "read" /\ req'.op = "raw"
      BY <2>2 DEF ReceiveObject
    <3> QED
      BY <2>0, <3>1
  <2>3. CASE ReadObject
    <3>1. step' = "done" /\ req'.op \in {"object", "raw"}
      BY <2>3 DEF ReadObject
    <3> QED
      BY <2>0, <3>1
  <2>4. CASE ReadData
    <3>1. step' = "done" /\ req'.op \in {"object", "raw"}
      BY <2>4 DEF ReadData
    <3> QED
      BY <2>0, <3>1
  <2>5. CASE mux_write_outgoing_msg
    BY <2>5, MessageStarts
  <2>6. CASE mux_msg_writer
    BY <2>6, MessageGrows
  <2>7. CASE mux_0mq_send_msg
    BY <2>7, MessageSent
  <2>8. CASE ServerUnpacks
    BY <2>8, MessageUnpacked
  <2>9. CASE ServerPacks
    BY <2>9, EventPacked
  <2>10. CASE mux_process_incoming_msg
    BY <2>10, EventTakenApart
  <2>11. CASE Return
    <3>1. step' = "idle"
      BY <2>11 DEF Return
    <3> QED
      BY <2>0, <3>1
  <2>12. CASE UNCHANGED vars
    <3>1. UNCHANGED <<step, req, calls, msg, wire, got>> /\ Fields' = Fields
      BY <2>12, SameFields DEF vars
    <3> QED
      BY <3>1 DEF MessageInv, MessagesUnderstood
  <2> QED
    BY <2>1, <2>2, <2>3, <2>4, <2>5, <2>6, <2>7, <2>8, <2>9, <2>10, <2>11,
       <2>12 DEF Next
<1> QED
  BY <1>1, <1>2, BufferAlways, PTL DEF Spec

(* The server reads from a display message the numbers the library put in, *)
(* or refuses it for a negative one, whatever the buffer holds behind it;  *)
(* the library delivers the events of the server as they were sent, and no *)
(* event that has lost its end: for every box, surface and event, for      *)
(* every first size of the buffer and on a host of either byte order.      *)
THEOREM MessagesArriveAsSent == Spec => []MessagesUnderstood
<1>1. MessageInv => MessagesUnderstood
  BY DEF MessageInv
<1> QED
  BY <1>1, MessageAlways, PTL
=============================================================================

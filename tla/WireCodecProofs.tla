-------------------------- MODULE WireCodecProofs --------------------------
(***************************************************************************)
(* Proofs about WireCodec, for every byte string, every typed request to   *)
(* the writers, every room of a buffer and a host of either byte order:    *)
(* no message overruns its buffer, no reader reads or stores out of        *)
(* bounds, and the numbers that come out of an object are those received.  *)
(***************************************************************************)
EXTENDS WireCodec, SequenceTheorems, WellFoundedInduction, TLAPS
-----------------------------------------------------------------------------
(* Bytes and words.                                                        *)

(* A function on 1 .. n into the bytes is a byte string of n bytes.        *)
LEMMA ByteStringLength ==
    ASSUME NEW n \in Nat, NEW b \in [1 .. n -> Byte]
    PROVE  b \in Seq(Byte) /\ Len(b) = n
<1>1. PICK s : s = SubSeq(b, 1, n)
  OBVIOUS
<1>2. 1 \in Int /\ n \in Int /\ \A i \in 1 .. n : b[i] \in Byte
  OBVIOUS
<1>3. /\ s \in Seq(Byte)
      /\ Len(s) = IF 1 <= n THEN n - 1 + 1 ELSE 0
      /\ \A i \in 1 .. n - 1 + 1 : s[i] = b[1 + i - 1]
  BY <1>1, <1>2, SubSeqProperties
<1>4. Len(s) = n /\ \A i \in 1 .. n : s[i] = b[i]
  BY <1>3
<1>5. s \in [1 .. n -> Byte]
  BY <1>3, <1>4, LenProperties
<1>6. s = b
  BY <1>4, <1>5
<1> QED
  BY <1>3, <1>4, <1>6

(* The low k bytes of a word are its last k.                               *)
LEMMA LowBytes ==
    ASSUME NEW v \in Word, NEW k \in 1 .. 8
    PROVE  Low(v, k) = [i \in 1 .. k |-> v[8 - k + i]]
<1>1. v \in Seq(Byte) /\ Len(v) = 8
  BY ByteStringLength DEF Word
<1>2. 9 - k \in Int /\ 8 \in Int /\ \A i \in (9 - k) .. 8 : v[i] \in Byte
  BY DEF Word
<1>3. PICK m \in Int : m = 9 - k
  BY <1>2
<1>4. PICK s : s = SubSeq(v, m, 8)
  OBVIOUS
<1>sub. /\ s \in Seq(Byte)
        /\ Len(s) = IF m <= 8 THEN 8 - m + 1 ELSE 0
        /\ \A i \in 1 .. 8 - m + 1 : s[i] = v[m + i - 1]
  BY <1>2, <1>3, <1>4, SubSeqProperties
<1>5. s \in Seq(Byte) /\ Len(s) = k /\ \A i \in 1 .. k : s[i] = v[8 - k + i]
  BY <1>3, <1>sub
<1>6. s \in [1 .. k -> Byte]
  BY <1>5, LenProperties
<1>7. s = [i \in 1 .. k |-> v[8 - k + i]]
  BY <1>5, <1>6
<1> QED
  BY <1>3, <1>4, <1>7 DEF Low

(* Reversing the bytes twice gives them back.                              *)
LEMMA MirrorTwice ==
    ASSUME NEW n \in Nat, NEW b \in [1 .. n -> Byte]
    PROVE  Mirror(b) \in [1 .. n -> Byte] /\ Mirror(Mirror(b)) = b
<1>1. Len(b) = n
  BY ByteStringLength
<1>2. PICK m : m = Mirror(b)
  OBVIOUS
<1>3. m = [i \in 1 .. n |-> b[n + 1 - i]]
  BY <1>1, <1>2 DEF Mirror
<1>4. m \in [1 .. n -> Byte]
  BY <1>3
<1>5. Len(m) = n
  BY <1>4, ByteStringLength
<1>6. Mirror(m) = [i \in 1 .. n |-> m[n + 1 - i]]
  BY <1>5 DEF Mirror
<1>7. \A i \in 1 .. n : m[n + 1 - i] = b[i]
  BY <1>3
<1>8. [i \in 1 .. n |-> m[n + 1 - i]] = [i \in 1 .. n |-> b[i]]
  BY <1>7
<1>9. b = [i \in 1 .. n |-> b[i]]
  OBVIOUS
<1> QED
  BY <1>2, <1>4, <1>6, <1>8, <1>9

(* The be* functions undo what the host's byte order does.                 *)
LEMMA NetworkOrder ==
    ASSUME NEW n \in Nat, NEW b \in [1 .. n -> Byte]
    PROVE  be(Memory(b)) = b /\ Memory(be(b)) = b
BY MirrorTwice DEF be, Memory

(* On the wire a number is its k low bytes, the high ones first.           *)
LEMMA PayloadBytes ==
    ASSUME NEW v \in Word, NEW k \in 1 .. 8
    PROVE  /\ Payload(v, k) \in [1 .. k -> Byte]
           /\ Payload(v, k) \in Seq(Byte)
           /\ Len(Payload(v, k)) = k
           /\ \A i \in 1 .. k : Payload(v, k)[i] = v[8 - k + i]
<1>1. Low(v, k) = [i \in 1 .. k |-> v[8 - k + i]]
  BY LowBytes
<1>2. \A i \in 1 .. k : v[8 - k + i] \in Byte
  BY DEF Word
<1>3. Low(v, k) \in [1 .. k -> Byte]
  BY <1>1, <1>2
<1>4. Payload(v, k) = Low(v, k)
  BY <1>3, NetworkOrder DEF Payload
<1>5. PICK p : p = Payload(v, k)
  OBVIOUS
<1>6. p \in [1 .. k -> Byte]
  BY <1>3, <1>4, <1>5
<1>7. p \in Seq(Byte) /\ Len(p) = k
  BY <1>6, ByteStringLength
<1> QED
  BY <1>1, <1>4, <1>5, <1>6, <1>7

(* An int has a word, a negative one too.                                  *)
LEMMA IntWordType ==
    ASSUME NEW n \in Int PROVE IntWord(n) \in Word
<1>1. ASSUME NEW i \in 1 .. 8, i > 4
      PROVE  (n \div <<16777216, 65536, 256, 1>>[i - 4]) % 256 \in Byte
  <2>1. \E d \in Nat : d = <<16777216, 65536, 256, 1>>[i - 4] /\ d > 0
    <3>1. i = 5 \/ i = 6 \/ i = 7 \/ i = 8
      BY <1>1
    <3> QED
      BY <3>1, SMT
  <2>2. \A d \in Nat : d > 0 => (n \div d) % 256 \in Byte
    BY DEF Byte
  <2> QED
    BY <2>1, <2>2, SMT
<1> QED
  BY <1>1, SMT DEF IntWord, Word, Byte
-----------------------------------------------------------------------------
(* Writers: the calls of ctx->write they make.                             *)

(* A call of ctx->write, and one that the display messages make: with at   *)
(* most eight bytes, the width of the widest number.                       *)
WriteErrors == {"NONE", "TYPE_MARKER_WRITING", "FIXED_VALUE_WRITING",
                "LENGTH_WRITING", "EXT_TYPE_WRITING", "DATA_WRITING",
                "INPUT_VALUE_TOO_LARGE"}
WriteCall == [data : Seq(Byte), error : WriteErrors]
ShortCall == {c \in WriteCall : Len(c.data) <= 8}

(* At most n calls from S, and an error or none.                           *)
Writes(w, S, n) ==
    w.error \in WriteErrors /\ w.calls \in Seq(S) /\ Len(w.calls) <= n

(* The formats in which a number or a size follows the marker.             *)
Numbered == {"BIN8", "BIN16", "BIN32", "EXT8", "EXT16", "EXT32", "FLOAT",
             "DOUBLE", "UINT8", "UINT16", "UINT32", "UINT64", "SINT8",
             "SINT16", "SINT32", "SINT64", "STR8", "STR16", "STR32",
             "ARRAY16", "ARRAY32", "MAP16", "MAP32"}

(* Their widths, and a byte for the marker of every type.                  *)
LEMMA NumberedFormats ==
    /\ \A t \in Numbered : Width[t] \in 1 .. 8 /\ t \in Types
    /\ \A t \in Types : Marker[t] \in Byte
BY DEF Numbered, Width, Types, Marker, Byte

(* A byte is a byte string of length one.                                  *)
LEMMA OneByte ==
    ASSUME NEW c \in Byte PROVE <<c>> \in Seq(Byte) /\ Len(<<c>>) = 1
OBVIOUS

(* A call with at most eight bytes is a short one.                         *)
LEMMA ShortCalls ==
    ASSUME NEW b \in Seq(Byte), Len(b) <= 8, NEW e \in WriteErrors
    PROVE  Call(b, e) \in ShortCall
BY DEF Call, ShortCall, WriteCall

(* A single call.                                                          *)
LEMMA EmitOne ==
    ASSUME NEW S, NEW c \in S
    PROVE  Writes(Emit(<<c>>), S, 1)
<1>1. <<c>> \in Seq(S) /\ Len(<<c>>) = 1
  OBVIOUS
<1> QED
  BY <1>1 DEF Emit, Writes, WriteErrors

(* A writer that refuses its argument writes nothing.                      *)
LEMMA RefuseAll ==
    ASSUME NEW S, NEW e \in WriteErrors PROVE Writes(Refuse(e), S, 0)
BY EmptySeq DEF Refuse, Writes

(* A bound on the calls may be raised.                                     *)
LEMMA WritesMore ==
    ASSUME NEW S, NEW w, NEW m \in Nat, NEW n \in Nat, m <= n, Writes(w, S, m)
    PROVE  Writes(w, S, n)
BY LenProperties DEF Writes

(* A writer, and more calls unless it refused.                             *)
LEMMA ThenWrites ==
    ASSUME NEW S, NEW w, NEW m \in Nat, NEW n \in Nat, Writes(w, S, m),
           NEW more \in Seq(S), Len(more) <= n
    PROVE  Writes(Then(w, more), S, m + n)
<1>1. CASE w.error # "NONE"
  <2>1. Then(w, more) = w
    BY <1>1 DEF Then
  <2> QED
    BY <2>1, WritesMore
<1>2. CASE w.error = "NONE"
  <2>1. PICK s : s = w.calls \o more
    OBVIOUS
  <2>2. w.calls \in Seq(S) /\ Len(w.calls) <= m
    BY DEF Writes
  <2>3. s \in Seq(S) /\ Len(s) = Len(w.calls) + Len(more)
    BY <2>1, <2>2, ConcatProperties
  <2>4. Len(s) <= m + n
    BY <2>2, <2>3, LenProperties
  <2>5. Then(w, more) = Emit(s)
    BY <1>2, <2>1 DEF Then
  <2> QED
    BY <2>3, <2>4, <2>5 DEF Emit, Writes, WriteErrors
<1> QED
  BY <1>1, <1>2

(* A single further call.                                                  *)
LEMMA OneMore ==
    ASSUME NEW S, NEW c \in S PROVE <<c>> \in Seq(S) /\ Len(<<c>>) <= 1
OBVIOUS

(* A marker is one call of one byte.                                       *)
LEMMA MarkerWrites ==
    ASSUME NEW S, ShortCall \subseteq S, NEW c \in Byte
    PROVE  /\ Writes(write_type_marker(c), S, 1)
           /\ Writes(write_fixed_value(c), S, 1)
<1>1. <<c>> \in Seq(Byte) /\ Len(<<c>>) <= 8
  BY OneByte
<1>2. /\ Call(<<c>>, "TYPE_MARKER_WRITING") \in S
      /\ Call(<<c>>, "FIXED_VALUE_WRITING") \in S
  BY <1>1, ShortCalls DEF WriteErrors
<1> QED
  BY <1>2, EmitOne DEF write_type_marker, write_fixed_value

(* A marker and the number, or the size, that follows it.                  *)
LEMMA NumberWrites ==
    ASSUME NEW S, ShortCall \subseteq S, NEW t \in Numbered, NEW v \in Word
    PROVE  /\ Writes(SizeMarker(t, v), S, 2)
           /\ Writes(cmp_write_u(t, v), S, 2)
           /\ Writes(cmp_write_s(t, v), S, 2)
           /\ Writes(cmp_write_real(t, v), S, 2)
<1>1. Marker[t] \in Byte /\ Width[t] \in 1 .. 8
  BY NumberedFormats
<1>2. Writes(write_type_marker(Marker[t]), S, 1)
  BY <1>1, MarkerWrites
<1>3. PICK p : p = Payload(v, Width[t])
  OBVIOUS
<1>4. p \in Seq(Byte) /\ Len(p) = Width[t]
  BY <1>1, <1>3, PayloadBytes
<1>5. Call(p, "NONE") \in S /\ Call(p, "LENGTH_WRITING") \in S
  BY <1>1, <1>4, ShortCalls DEF WriteErrors
<1>6. \A c \in S : Writes(Then(write_type_marker(Marker[t]), <<c>>), S, 1 + 1)
  BY <1>2, OneMore, ThenWrites
<1> QED
  BY <1>3, <1>5, <1>6 DEF SizeMarker, cmp_write_u, cmp_write_s, cmp_write_real

(* A marker that carries a small size is one call, or a refusal.           *)
LEMMA FixMarkerWrites ==
    ASSUME NEW S, ShortCall \subseteq S, NEW t \in DOMAIN FixSize,
           NEW v \in Word
    PROVE  Writes(FixMarker(t, v), S, 1)
<1>1. v[8] \in Byte
  BY DEF Word
<1>2. FixSize[t] \in 0 .. 31 /\ Marker[t] \in 0 .. 160
  BY DEF FixSize, Marker
<1>nums. PICK m \in 0 .. 160, k \in 0 .. 31 : m = Marker[t] /\ k = FixSize[t]
  BY <1>2
<1>3. CASE FitsUnsigned(v, 1) /\ v[8] <= FixSize[t]
  <2>1. Marker[t] + v[8] \in Byte
    <3>1. PICK c \in 0 .. 255 : c = v[8]
      BY <1>1 DEF Byte
    <3>2. c <= k
      BY <1>3, <1>nums, <3>1
    <3>3. m + c \in Byte
      BY <3>2 DEF Byte
    <3> QED
      BY <1>nums, <3>1, <3>3
  <2> QED
    BY <1>3, <2>1, MarkerWrites DEF FixMarker
<1>4. CASE ~(FitsUnsigned(v, 1) /\ v[8] <= FixSize[t])
  <2>1. FixMarker(t, v) = Refuse("INPUT_VALUE_TOO_LARGE")
    BY <1>4 DEF FixMarker
  <2> QED
    BY <2>1, RefuseAll, WritesMore DEF WriteErrors
<1> QED
  BY <1>3, <1>4

(* Numbers that fit their marker.                                          *)
LEMMA FixNumWrites ==
    ASSUME NEW S, ShortCall \subseteq S, NEW c \in Byte
    PROVE  /\ Writes(cmp_write_pfix(c), S, 2)
           /\ Writes(cmp_write_nfix(c), S, 2)
           /\ Writes(cmp_write_sfix(c), S, 2)
<1>1. Writes(write_fixed_value(c), S, 2)
  BY MarkerWrites, WritesMore
<1>2. Writes(Refuse("INPUT_VALUE_TOO_LARGE"), S, 2)
  BY RefuseAll, WritesMore DEF WriteErrors
<1> QED
  BY <1>1, <1>2 DEF cmp_write_pfix, cmp_write_nfix, cmp_write_sfix

(* The writers that choose the shortest format.                            *)
LEMMA IntegerWrites ==
    ASSUME NEW S, ShortCall \subseteq S, NEW v \in Word
    PROVE  /\ Writes(cmp_write_uinteger(v), S, 2)
           /\ Writes(cmp_write_integer(v), S, 2)
<1>1. v[8] \in Byte
  BY DEF Word
<1>2. /\ Writes(cmp_write_pfix(v[8]), S, 2)
      /\ Writes(cmp_write_nfix(v[8]), S, 2)
  BY <1>1, FixNumWrites
<1>3. /\ \A t \in Numbered : Writes(cmp_write_u(t, v), S, 2)
      /\ \A t \in Numbered : Writes(cmp_write_s(t, v), S, 2)
  BY NumberWrites
<1>4. Writes(cmp_write_uinteger(v), S, 2)
  BY <1>2, <1>3 DEF cmp_write_uinteger, Numbered
<1> QED
  BY <1>2, <1>3, <1>4 DEF cmp_write_integer, Numbered

(* Markers that carry a size.                                              *)
LEMMA SizeWrites ==
    ASSUME NEW S, ShortCall \subseteq S, NEW v \in Word
    PROVE  /\ Writes(cmp_write_array(v), S, 2)
           /\ Writes(cmp_write_map(v), S, 2)
           /\ Writes(cmp_write_str_marker(v), S, 2)
           /\ Writes(cmp_write_str_marker_v4(v), S, 2)
           /\ Writes(cmp_write_bin_marker(v), S, 2)
<1>1. \A t \in {"FIXARRAY", "FIXMAP", "FIXSTR"} : Writes(FixMarker(t, v), S, 2)
  <2>1. DOMAIN FixSize = {"FIXARRAY", "FIXMAP", "FIXSTR"}
    BY DEF FixSize
  <2> QED
    BY <2>1, FixMarkerWrites, WritesMore
<1>2. \A t \in Numbered : Writes(SizeMarker(t, v), S, 2)
  BY NumberWrites
<1>3. Writes(cmp_write_array(v), S, 2) /\ Writes(cmp_write_map(v), S, 2)
  BY <1>1, <1>2 DEF cmp_write_array, cmp_write_map, Numbered
<1>4. /\ StrType(v) \in {"FIXSTR", "STR8", "STR16", "STR32"}
      /\ StrTypeV4(v) \in {"FIXSTR", "STR8", "STR16", "STR32"}
  BY DEF StrType, StrTypeV4
<1>5. \A t \in {"FIXSTR", "STR8", "STR16", "STR32"} :
         Writes(cmp_write_str_marker_as(t, v), S, 2)
  BY <1>1, <1>2 DEF cmp_write_str_marker_as, Numbered
<1>6. /\ Writes(cmp_write_str_marker(v), S, 2)
      /\ Writes(cmp_write_str_marker_v4(v), S, 2)
  BY <1>4, <1>5 DEF cmp_write_str_marker, cmp_write_str_marker_v4
<1>7. BinType(v) \in Numbered
  BY DEF BinType, Numbered
<1> QED
  BY <1>2, <1>3, <1>6, <1>7 DEF cmp_write_bin_marker

(* Data behind its marker goes out in one call of any length.              *)
LEMMA DataWrites ==
    ASSUME NEW v \in Word, NEW b \in Seq(Byte)
    PROVE  /\ Writes(cmp_write_str(v, b), WriteCall, 4)
           /\ Writes(cmp_write_str_v4(v, b), WriteCall, 4)
           /\ Writes(cmp_write_bin(v, b), WriteCall, 4)
<1>1. ShortCall \subseteq WriteCall
  BY DEF ShortCall
<1>2. Call(b, "DATA_WRITING") \in WriteCall
  BY DEF Call, WriteCall, WriteErrors
<1>3. Data(v, b) \in Seq(WriteCall) /\ Len(Data(v, b)) <= 1
  BY <1>2, OneMore, EmptySeq DEF Data
<1>4. \A w : Writes(w, WriteCall, 2) =>
                Writes(Then(w, Data(v, b)), WriteCall, 3)
  BY <1>3, ThenWrites
<1>5. \A w : Writes(w, WriteCall, 2) =>
                Writes(Then(w, Data(v, b)), WriteCall, 4)
  BY <1>4, WritesMore
<1>6. /\ Writes(cmp_write_str_marker(v), WriteCall, 2)
      /\ Writes(cmp_write_str_marker_v4(v), WriteCall, 2)
      /\ Writes(cmp_write_bin_marker(v), WriteCall, 2)
  BY <1>1, SizeWrites
<1> QED
  BY <1>5, <1>6 DEF cmp_write_str, cmp_write_str_v4, cmp_write_str_as,
     cmp_write_bin, cmp_write_bin_as, cmp_write_str_marker,
     cmp_write_str_marker_v4, cmp_write_bin_marker

(* Extensions: marker, size, type and data.                                *)
LEMMA ExtWrites ==
    ASSUME NEW x \in Byte, NEW v \in Word, NEW b \in Seq(Byte)
    PROVE  /\ Writes(cmp_write_ext_marker(x, v), WriteCall, 4)
           /\ Writes(cmp_write_ext(x, v, b), WriteCall, 4)
<1>1. ShortCall \subseteq WriteCall
  BY DEF ShortCall
<1>2. Call(b, "DATA_WRITING") \in WriteCall
  BY DEF Call, WriteCall, WriteErrors
<1>3. Call(<<x>>, "EXT_TYPE_WRITING") \in WriteCall
  BY OneByte DEF Call, WriteCall, WriteErrors
<1>4. \A w : \A c \in WriteCall :
         Writes(w, WriteCall, 1) => Writes(Then(w, <<c>>), WriteCall, 2)
  <2> SUFFICES ASSUME NEW w, NEW c \in WriteCall, Writes(w, WriteCall, 1)
               PROVE  Writes(Then(w, <<c>>), WriteCall, 1 + 1)
    OBVIOUS
  <2> QED
    BY OneMore, ThenWrites
<1>5. \A w : \A c \in WriteCall :
         Writes(w, WriteCall, 2) => Writes(Then(w, <<c>>), WriteCall, 3)
  <2> SUFFICES ASSUME NEW w, NEW c \in WriteCall, Writes(w, WriteCall, 2)
               PROVE  Writes(Then(w, <<c>>), WriteCall, 2 + 1)
    OBVIOUS
  <2> QED
    BY OneMore, ThenWrites
<1>6. \A w : \A c \in WriteCall :
         Writes(w, WriteCall, 3) => Writes(Then(w, <<c>>), WriteCall, 4)
  <2> SUFFICES ASSUME NEW w, NEW c \in WriteCall, Writes(w, WriteCall, 3)
               PROVE  Writes(Then(w, <<c>>), WriteCall, 3 + 1)
    OBVIOUS
  <2> QED
    BY OneMore, ThenWrites
<1>7. ASSUME NEW t \in DOMAIN FixExtSize
      PROVE  /\ Writes(cmp_write_fixext_marker(t, x), WriteCall, 2)
             /\ Writes(cmp_write_fixext(t, x, b), WriteCall, 3)
  <2>1. Marker[t] \in Byte
    <3>1. t \in Types
      BY DEF FixExtSize, Types, Marker
    <3> QED
      BY <3>1, NumberedFormats
  <2>2. Writes(write_type_marker(Marker[t]), WriteCall, 1)
    BY <1>1, <2>1, MarkerWrites
  <2>3. Writes(cmp_write_fixext_marker(t, x), WriteCall, 2)
    BY <1>3, <1>4, <2>2 DEF cmp_write_fixext_marker
  <2> QED
    BY <1>2, <1>5, <2>3 DEF cmp_write_fixext
<1>8. ASSUME NEW t \in {"EXT8", "EXT16", "EXT32"}
      PROVE  /\ Writes(cmp_write_ext_marker_as(t, x, v), WriteCall, 3)
             /\ Writes(cmp_write_ext_as(t, x, v, b), WriteCall, 4)
  <2>1. Writes(SizeMarker(t, v), WriteCall, 2)
    BY <1>1, NumberWrites DEF Numbered
  <2>2. Writes(cmp_write_ext_marker_as(t, x, v), WriteCall, 3)
    BY <1>3, <1>5, <2>1 DEF cmp_write_ext_marker_as
  <2> QED
    BY <1>2, <1>6, <2>2 DEF cmp_write_ext_as
<1>9. ExtType(v) \in DOMAIN FixExtSize \cup {"EXT8", "EXT16", "EXT32"}
  BY DEF ExtType
<1>10. \A w : Writes(w, WriteCall, 2) \/ Writes(w, WriteCall, 3)
              => Writes(w, WriteCall, 4)
  BY WritesMore
<1> QED
  BY <1>7, <1>8, <1>9, <1>10 DEF cmp_write_ext_marker, cmp_write_ext

(* Every writer makes at most four calls, whatever it is asked.            *)
LEMMA WriterWrites ==
    ASSUME NEW r \in Requests PROVE Writes(Writer(r), WriteCall, 4)
<1>1. ShortCall \subseteq WriteCall
  BY DEF ShortCall
<1>2. \A w : \A n \in 1 .. 4 :
         Writes(w, WriteCall, n) => Writes(w, WriteCall, 4)
  BY WritesMore
<1>w. Uint32 \subseteq Word
  BY DEF Uint32
<1>3. CASE \/ r \in [op : {"integer", "uinteger", "sfix", "nil", "bool"},
                    v : Word]
           \/ r \in [op : {"array", "map", "str_marker", "str_marker_v4",
                          "bin_marker"}, v : Uint32]
  <2>0. r.v \in Word
    BY <1>w, <1>3
  <2>1. r.v \in Word /\ r.v[8] \in Byte
    BY <2>0 DEF Word
  <2>2. /\ Writes(cmp_write_integer(r.v), WriteCall, 2)
        /\ Writes(cmp_write_uinteger(r.v), WriteCall, 2)
        /\ Writes(cmp_write_sfix(r.v[8]), WriteCall, 2)
    BY <1>1, <2>1, IntegerWrites, FixNumWrites
  <2>3. /\ Writes(cmp_write_array(r.v), WriteCall, 2)
        /\ Writes(cmp_write_map(r.v), WriteCall, 2)
        /\ Writes(cmp_write_str_marker(r.v), WriteCall, 2)
        /\ Writes(cmp_write_str_marker_v4(r.v), WriteCall, 2)
        /\ Writes(cmp_write_bin_marker(r.v), WriteCall, 2)
    BY <1>1, <2>1, SizeWrites
  <2>4. /\ Writes(cmp_write_nil, WriteCall, 1)
        /\ Writes(cmp_write_bool(r.v[8]), WriteCall, 1)
    <3>1. /\ Marker["NIL"] \in Byte
          /\ Marker["BOOLEAN"] + (IF r.v[8] = 0 THEN 0 ELSE 1) \in Byte
      BY DEF Marker, Byte
    <3> QED
      BY <1>1, <3>1, MarkerWrites DEF cmp_write_nil, cmp_write_bool
  <2>5. \/ r.op = "integer" \/ r.op = "uinteger" \/ r.op = "sfix"
        \/ r.op = "nil" \/ r.op = "bool" \/ r.op = "array" \/ r.op = "map"
        \/ r.op = "str_marker" \/ r.op = "str_marker_v4"
        \/ r.op = "bin_marker"
    BY <1>3
  <2> QED
    BY <1>2, <2>2, <2>3, <2>4, <2>5 DEF Writer
<1>4. CASE r \in [op : {"decimal"},
                 v : [exact : BOOLEAN, float : Word, double : Word]]
  <2>1. r.op = "decimal" /\ r.v.float \in Word /\ r.v.double \in Word
    BY <1>4
  <2>2. /\ Writes(cmp_write_real("FLOAT", r.v.float), WriteCall, 2)
        /\ Writes(cmp_write_real("DOUBLE", r.v.double), WriteCall, 2)
    BY <1>1, <2>1, NumberWrites DEF Numbered
  <2> QED
    BY <1>2, <2>1, <2>2 DEF Writer, cmp_write_decimal
<1>5. CASE r \in [op : {"str", "str_v4", "bin"}, v : Uint32, data : Seq(Byte)]
  <2>1. r.op \in {"str", "str_v4", "bin"} /\ r.v \in Word
        /\ r.data \in Seq(Byte)
    BY <1>w, <1>5
  <2> QED
    BY <2>1, DataWrites DEF Writer
<1>6. CASE r \in [op : {"ext"}, x : Byte, v : Uint32, data : Seq(Byte)]
  <2>1. r.op = "ext" /\ r.x \in Byte /\ r.v \in Word /\ r.data \in Seq(Byte)
    BY <1>w, <1>6
  <2> QED
    BY <2>1, ExtWrites DEF Writer
<1>7. CASE r \in [op : {"ext_marker"}, x : Byte, v : Uint32]
  <2>1. r.op = "ext_marker" /\ r.x \in Byte /\ r.v \in Word
    BY <1>w, <1>7
  <2> QED
    BY <2>1, ExtWrites, EmptySeq DEF Writer
<1> QED
  BY <1>3, <1>4, <1>5, <1>6, <1>7 DEF Requests

-----------------------------------------------------------------------------
(* Byte strings put together from calls.                                   *)

(* Induction up to n, on the set of the numbers for which a claim holds.   *)
LEMMA CountingUp ==
    ASSUME NEW n \in Nat, NEW P, 0 \in P,
           \A i \in 1 .. n : i - 1 \in P => i \in P
    PROVE  \A i \in 0 .. n : i \in P
<1> SUFFICES ASSUME NEW k \in 0 .. n, k \notin P PROVE FALSE
  OBVIOUS
<1>1. PICK S : S = {i \in 0 .. n : i \notin P}
  OBVIOUS
<1>2. S # {} /\ S \subseteq Nat
  BY <1>1
<1>3. PICK x \in S : \A y \in S : ~(<<y, x>> \in OpToRel(<, Nat))
  BY <1>2, WFMin, NatLessThanWellFounded
<1>4. x \in 0 .. n /\ x \notin P /\ \A y \in S : ~(y < x)
  BY <1>1, <1>2, <1>3 DEF OpToRel
<1>5. x # 0
  BY <1>4
<1>6. x - 1 \in 0 .. n /\ x - 1 \notin S
  BY <1>4, <1>5
<1>7. x - 1 \in P
  BY <1>1, <1>6
<1> QED
  BY <1>4, <1>5, <1>7

(* A function on 0 .. n is given by its value at 0 and a step from each    *)
(* value to the next.                                                      *)
Iterates(g, n, S, base, next) ==
    /\ g \in [0 .. n -> S] /\ g[0] = base
    /\ \A i \in 1 .. n : g[i] = next[<<i, g[i - 1]>>]

(* There is such a function, for every step.                               *)
LEMMA Recursion ==
    ASSUME NEW n \in Nat, NEW S, NEW base \in S,
           NEW next \in [(1 .. n) \X S -> S]
    PROVE  \E g : Iterates(g, n, S, base, next)
<1> DEFINE Good(g, k) == /\ g[0] = base
                         /\ \A i \in 1 .. k : g[i] = next[<<i, g[i - 1]>>]
           P == {k \in 0 .. n : \E g \in [0 .. k -> S] : Good(g, k)}
<1>1. 0 \in P
  <2>1. PICK g : g = [i \in 0 .. 0 |-> base]
    OBVIOUS
  <2>2. g \in [0 .. 0 -> S] /\ Good(g, 0)
    BY <2>1
  <2> QED
    BY <2>2
<1>2. ASSUME NEW k \in 1 .. n, k - 1 \in P
      PROVE  k \in P
  <2>1. PICK g \in [0 .. k - 1 -> S] : Good(g, k - 1)
    BY <1>2
  <2>2. PICK x : x = next[<<k, g[k - 1]>>]
    OBVIOUS
  <2>3. g[k - 1] \in S
    OBVIOUS
  <2>4. x \in S
    BY <2>2, <2>3
  <2>5. PICK h : h = [i \in 0 .. k |-> IF i < k THEN g[i] ELSE x]
    OBVIOUS
  <2>6. h \in [0 .. k -> S]
    BY <2>4, <2>5
  <2>7. \A i \in 0 .. k - 1 : h[i] = g[i]
    BY <2>5
  <2>8. h[k] = x /\ h[0] = base
    BY <2>1, <2>5
  <2>9. ASSUME NEW i \in 1 .. k
        PROVE  h[i] = next[<<i, h[i - 1]>>]
    <3>1. CASE i < k
      <4>1. g[i] = next[<<i, g[i - 1]>>]
        BY <2>1, <3>1
      <4>2. h[i] = g[i] /\ h[i - 1] = g[i - 1]
        BY <2>7, <3>1
      <4> QED
        BY <4>1, <4>2
    <3>2. CASE i = k
      <4>1. h[k - 1] = g[k - 1]
        BY <2>7
      <4> QED
        BY <2>2, <2>8, <3>2, <4>1
    <3> QED
      BY <3>1, <3>2
  <2>10. Good(h, k)
    BY <2>8, <2>9
  <2> QED
    BY <2>6, <2>10
<1>3. n \in P
  <2> HIDE DEF P
  <2> QED
    BY <1>1, <1>2, CountingUp
<1> QED
  BY <1>3 DEF Iterates
(* The bytes of the calls, one after the other.                            *)
Flat(s) == Written([calls |-> s], Len(s))

(* Written as a recursion: nothing, and one call more.                     *)
Accumulates(g, s, n) ==
    /\ g \in [0 .. n -> Seq(Byte)] /\ g[0] = <<>>
    /\ \A i \in 1 .. n : g[i] = g[i - 1] \o s[i].data

(* The recursion of Written is one of these.                               *)
LEMMA WrittenFunction ==
    ASSUME NEW s \in Seq(WriteCall), NEW n \in 0 .. Len(s),
           NEW w, w.calls = s
    PROVE  \E g : Accumulates(g, s, n) /\ Written(w, n) = g[n]
<1>0. n \in Nat /\ Len(s) \in Nat
  BY LenProperties
<1>b. PICK Strings : Strings = Seq(Byte)
  OBVIOUS
<1>d. PICK d : d = [i \in 1 .. n |-> s[i].data]
  OBVIOUS
<1>1. \A i \in 1 .. n : d[i] \in Strings
  <2>1. \A i \in 1 .. Len(s) : s[i] \in WriteCall
    BY ElementOfSeq
  <2>2. \A i \in 1 .. n : s[i].data \in Seq(Byte)
    BY <1>0, <2>1 DEF WriteCall
  <2> QED
    BY <1>b, <1>d, <2>2
<1>2. PICK next : next = [x \in (1 .. n) \X Strings |-> x[2] \o d[x[1]]]
  OBVIOUS
<1>3. \A i \in 1 .. n, b \in Strings : b \o d[i] \in Strings
  BY <1>1, <1>b, ConcatProperties
<1>4. \A i \in 1 .. n, b \in Strings : next[<<i, b>>] = b \o d[i]
  BY <1>2
<1>5. next \in [(1 .. n) \X Strings -> Strings]
  BY <1>2, <1>3
<1>6. <<>> \in Strings
  BY <1>b, EmptySeq
<1>8. PICK h \in [0 .. n -> Strings] :
         h[0] = <<>> /\ \A i \in 1 .. n : h[i] = next[<<i, h[i - 1]>>]
  <2>1. PICK base : base = <<>> /\ base \in Strings
    BY <1>6
  <2>2. \E h : Iterates(h, n, Strings, base, next)
    BY <1>0, <1>5, <2>1, Recursion
  <2> QED
    BY <2>1, <2>2 DEF Iterates
<1>9. ASSUME NEW i \in 1 .. n PROVE h[i] = h[i - 1] \o d[i]
  <2>1. i - 1 \in 0 .. n
    BY <1>0
  <2>2. h[i - 1] \in Strings
    BY <1>8, <2>1
  <2> QED
    BY <1>4, <1>8, <2>2
<1> DEFINE Step(f) == [i \in 0 .. n |-> IF i = 0 THEN <<>>
                                        ELSE f[i - 1] \o s[i].data]
           Result == CHOOSE f : f = Step(f)
<1>7. Written(w, n) = Result[n]
  BY DEF Written
<1>10. h = Step(h)
  <2>1. \A i \in 0 .. n : h[i] = Step(h)[i]
    <3> SUFFICES ASSUME NEW i \in 0 .. n
                 PROVE  h[i] = IF i = 0 THEN <<>> ELSE h[i - 1] \o s[i].data
      OBVIOUS
    <3>1. CASE i = 0
      BY <1>8, <3>1
    <3>2. CASE i # 0
      <4>1. i \in 1 .. n
        BY <1>0, <3>2
      <4>2. h[i] = h[i - 1] \o d[i] /\ d[i] = s[i].data
        BY <1>9, <1>d, <4>1
      <4> QED
        BY <3>2, <4>2, Zenon
    <3> QED
      BY <3>1, <3>2
  <2> QED
    BY <1>8, <2>1
<1>11. PICK f : f = Result /\ f = Step(f)
  BY <1>10
<1> HIDE DEF Result
<1>12. f[0] = <<>> /\ \A i \in 1 .. n : f[i] = f[i - 1] \o d[i]
  <2>1. f[0] = <<>>
    <3>1. 0 \in 0 .. n
      BY <1>0
    <3> QED
      BY <1>11, <3>1
  <2>2. ASSUME NEW i \in 1 .. n PROVE f[i] = f[i - 1] \o d[i]
    <3>1. i \in 0 .. n /\ i # 0
      BY <1>0
    <3>2. f[i] = f[i - 1] \o s[i].data
      BY <1>11, <3>1
    <3>3. d[i] = s[i].data
      BY <1>d
    <3> QED
      BY <3>2, <3>3, Zenon
  <2> QED
    BY <2>1, <2>2
<1> DEFINE P == {j \in 0 .. n : f[j] = h[j]}
<1>13. \A i \in 0 .. n : i \in P
  <2>1. 0 \in P
    BY <1>0, <1>8, <1>12
  <2>2. ASSUME NEW i \in 1 .. n, i - 1 \in P PROVE i \in P
    <3>1. f[i - 1] = h[i - 1]
      BY <2>2
    <3>2. f[i] = h[i]
      BY <1>9, <1>12, <3>1, Zenon
    <3> QED
      BY <1>0, <3>2
  <2> HIDE DEF P
  <2> QED
    BY <1>0, <2>1, <2>2, CountingUp
<1>14. f[n] = h[n]
  BY <1>0, <1>13
<1>15. \A i \in 1 .. n : h[i] = h[i - 1] \o s[i].data
  <2> SUFFICES ASSUME NEW i \in 1 .. n PROVE h[i] = h[i - 1] \o s[i].data
    OBVIOUS
  <2>1. d[i] = s[i].data
    BY <1>d
  <2> QED
    BY <1>9, <2>1, Zenon
<1>16. Written(w, n) = h[n] /\ h[0] = <<>>
  BY <1>7, <1>8, <1>11, <1>14
<1> QED
  BY <1>8, <1>15, <1>16, <1>b DEF Accumulates

(* The same as two equations, and that it is a byte string.                *)
LEMMA WrittenSteps ==
    ASSUME NEW s \in Seq(WriteCall), NEW w, w.calls = s
    PROVE  /\ Written(w, 0) = <<>>
           /\ \A n \in 0 .. Len(s) : Written(w, n) \in Seq(Byte)
           /\ \A n \in 1 .. Len(s) :
                 Written(w, n) = Written(w, n - 1) \o s[n].data
<1>0. Len(s) \in Nat
  BY LenProperties
<1>b. PICK Strings : Strings = Seq(Byte)
  OBVIOUS
<1>f. \A n \in 0 .. Len(s) :
         \E g \in [0 .. n -> Strings] :
            /\ Written(w, n) = g[n]
            /\ g[0] = <<>>
            /\ \A i \in 1 .. n : g[i] = g[i - 1] \o s[i].data
  <2> SUFFICES ASSUME NEW n \in 0 .. Len(s)
               PROVE  \E g \in [0 .. n -> Strings] :
                         /\ Written(w, n) = g[n]
                         /\ g[0] = <<>>
                         /\ \A i \in 1 .. n : g[i] = g[i - 1] \o s[i].data
    OBVIOUS
  <2>1. PICK g : Accumulates(g, s, n) /\ Written(w, n) = g[n]
    BY WrittenFunction
  <2> QED
    BY <1>b, <2>1 DEF Accumulates
<1>1. Written(w, 0) = <<>>
  <2>1. 0 \in 0 .. Len(s)
    BY <1>0
  <2> QED
    BY <1>f, <2>1
<1>2. \A n \in 0 .. Len(s) : Written(w, n) \in Seq(Byte)
  <2> SUFFICES ASSUME NEW n \in 0 .. Len(s) PROVE Written(w, n) \in Strings
    BY <1>b
  <2>1. PICK g \in [0 .. n -> Strings] : Written(w, n) = g[n]
    BY <1>f
  <2>2. n \in 0 .. n
    BY <1>0
  <2> QED
    BY <2>1, <2>2
<1>3. ASSUME NEW n \in 1 .. Len(s)
      PROVE  Written(w, n) = Written(w, n - 1) \o s[n].data
  <2>0. n \in 0 .. Len(s) /\ n - 1 \in 0 .. Len(s) /\ n - 1 \in Nat
    BY <1>0
  <2>1. PICK g \in [0 .. n -> Strings] :
           /\ Written(w, n) = g[n] /\ g[0] = <<>>
           /\ \A i \in 1 .. n : g[i] = g[i - 1] \o s[i].data
    BY <1>f, <2>0
  <2>3. PICK h \in [0 .. n - 1 -> Strings] :
           /\ Written(w, n - 1) = h[n - 1] /\ h[0] = <<>>
           /\ \A i \in 1 .. n - 1 : h[i] = h[i - 1] \o s[i].data
    BY <1>f, <2>0
  <2> DEFINE P == {j \in 0 .. n - 1 : g[j] = h[j]}
  <2>4. 0 \in P
    BY <2>0, <2>1, <2>3
  <2>5. ASSUME NEW i \in 1 .. n - 1, i - 1 \in P PROVE i \in P
    <3>1. g[i - 1] = h[i - 1] /\ i \in 1 .. n
      BY <2>0, <2>5
    <3>2. g[i] = h[i]
      BY <2>1, <2>3, <3>1, Zenon
    <3> QED
      BY <2>0, <3>2
  <2>6. \A i \in 0 .. n - 1 : i \in P
    <3> HIDE DEF P
    <3> QED
      BY <2>0, <2>4, <2>5, CountingUp
  <2>7. g[n - 1] = h[n - 1]
    BY <2>0, <2>6
  <2>8. g[n] = g[n - 1] \o s[n].data
    <3>1. n \in 1 .. n
      BY <1>0
    <3> QED
      BY <2>1, <3>1, Zenon
  <2> QED
    BY <2>1, <2>3, <2>7, <2>8, Zenon
<1> QED
  BY <1>1, <1>2, <1>3

(* The first calls of two writers that agree on them.                      *)
LEMMA WrittenPrefix ==
    ASSUME NEW s \in Seq(WriteCall), NEW u \in Seq(WriteCall),
           NEW n \in Nat, n <= Len(s), n <= Len(u),
           \A i \in 1 .. n : s[i] = u[i],
           NEW v, NEW w, v.calls = s, w.calls = u
    PROVE  Written(v, n) = Written(w, n)
<1>0. Len(s) \in Nat /\ Len(u) \in Nat
  BY LenProperties
<1>1. /\ Written(v, 0) = <<>>
      /\ \A i \in 1 .. Len(s) : Written(v, i) = Written(v, i - 1) \o s[i].data
  BY WrittenSteps
<1>2. /\ Written(w, 0) = <<>>
      /\ \A i \in 1 .. Len(u) : Written(w, i) = Written(w, i - 1) \o u[i].data
  BY WrittenSteps
<1> DEFINE P == {i \in 0 .. n : Written(v, i) = Written(w, i)}
<1>3. 0 \in P
  BY <1>1, <1>2
<1>4. ASSUME NEW i \in 1 .. n, i - 1 \in P PROVE i \in P
  <2>1. i \in 1 .. Len(s) /\ i \in 1 .. Len(u)
    BY <1>0
  <2>2. Written(v, i - 1) = Written(w, i - 1)
    BY <1>4
  <2>3. s[i] = u[i]
    OBVIOUS
  <2>4. Written(v, i) = Written(w, i)
    BY <1>1, <1>2, <2>1, <2>2, <2>3, Zenon
  <2> QED
    BY <2>4
<1>5. \A i \in 0 .. n : i \in P
  <2> HIDE DEF P
  <2> QED
    BY <1>3, <1>4, CountingUp
<1>6. n \in P
  <2>1. n \in 0 .. n
    OBVIOUS
  <2> QED
    BY <1>5, <2>1
<1> QED
  BY <1>6

(* All calls of a writer.                                                  *)
LEMMA WrittenIsFlat ==
    ASSUME NEW w, w.calls \in Seq(WriteCall)
    PROVE  /\ Written(w, Len(w.calls)) = Flat(w.calls)
           /\ Flat(w.calls) \in Seq(Byte)
<1>1. PICK s \in Seq(WriteCall) : s = w.calls
  OBVIOUS
<1>2. Len(s) \in Nat
  BY LenProperties
<1>3. PICK v : v = [calls |-> s]
  OBVIOUS
<1>4. v.calls = s
  BY <1>3
<1>5. Written(w, Len(s)) = Written(v, Len(s))
  BY <1>1, <1>2, <1>4, WrittenPrefix
<1>6. Len(s) \in 0 .. Len(s)
  BY <1>2
<1>7. Written(w, Len(s)) \in Seq(Byte)
  BY <1>1, <1>6, WrittenSteps
<1> QED
  BY <1>1, <1>3, <1>5, <1>7 DEF Flat

(* No call, and one.                                                       *)
LEMMA FlatShort ==
    /\ Flat(<<>>) = <<>>
    /\ \A c \in WriteCall : Flat(<<c>>) = c.data
<1>1. Flat(<<>>) = <<>>
  <2>1. <<>> \in Seq(WriteCall) /\ Len(<<>>) = 0
    BY EmptySeq
  <2>2. PICK s : s = <<>>
    OBVIOUS
  <2>3. PICK v : v = [calls |-> s]
    OBVIOUS
  <2>4. Written(v, 0) = <<>>
    BY <2>1, <2>2, <2>3, WrittenSteps
  <2> QED
    BY <2>1, <2>2, <2>3, <2>4 DEF Flat
<1>2. ASSUME NEW c \in WriteCall PROVE Flat(<<c>>) = c.data
  <2>1. PICK s : s = <<c>>
    OBVIOUS
  <2>2. s \in Seq(WriteCall) /\ Len(s) = 1 /\ s[1] = c
    BY <2>1
  <2>3. PICK v : v = [calls |-> s]
    OBVIOUS
  <2>4. v.calls = s /\ 1 \in 1 .. Len(s) /\ 1 - 1 = 0
    BY <2>2, <2>3
  <2>5. Written(v, 0) = <<>> /\ Written(v, 1) = Written(v, 1 - 1) \o s[1].data
    BY <2>2, <2>4, WrittenSteps
  <2>6. c.data \in Seq(Byte)
    BY DEF WriteCall
  <2>7. <<>> \o c.data = c.data
    BY <2>6, ConcatEmptySeq
  <2>8. Written(v, 1) = c.data
    BY <2>2, <2>4, <2>5, <2>7, Zenon
  <2> QED
    BY <2>1, <2>2, <2>3, <2>8 DEF Flat
<1> QED
  BY <1>1, <1>2

(* Calls made after others.                                                *)
LEMMA FlatConcat ==
    ASSUME NEW s \in Seq(WriteCall), NEW t \in Seq(WriteCall)
    PROVE  Flat(s \o t) = Flat(s) \o Flat(t)
<1>1. PICK u : u = s \o t
  OBVIOUS
<1>2. u \in Seq(WriteCall) /\ Len(u) = Len(s) + Len(t)
      /\ \A i \in 1 .. Len(u) : u[i] = IF i <= Len(s) THEN s[i]
                                       ELSE t[i - Len(s)]
  BY <1>1, ConcatProperties
<1>3. PICK m \in Nat, n \in Nat : m = Len(s) /\ n = Len(t)
  BY LenProperties
<1>4. PICK v, x, w : v = [calls |-> s] /\ x = [calls |-> t]
                     /\ w = [calls |-> u]
  OBVIOUS
<1>5. v.calls = s /\ x.calls = t /\ w.calls = u
  BY <1>4
<1>6. Written(v, m) = Written(w, m)
  <2>1. \A i \in 1 .. m : s[i] = u[i]
    BY <1>2, <1>3
  <2>2. m <= Len(u) /\ m <= Len(s)
    BY <1>2, <1>3
  <2>3. u \in Seq(WriteCall)
    BY <1>2
  <2> QED
    BY <1>5, <2>1, <2>2, <2>3, WrittenPrefix
<1>7. /\ Written(x, 0) = <<>>
      /\ \A i \in 0 .. n : Written(x, i) \in Seq(Byte)
      /\ \A i \in 1 .. n : Written(x, i) = Written(x, i - 1) \o t[i].data
  BY <1>3, <1>5, WrittenSteps
<1>8. /\ \A i \in 0 .. Len(u) : Written(w, i) \in Seq(Byte)
      /\ \A i \in 1 .. Len(u) : Written(w, i) = Written(w, i - 1) \o u[i].data
  BY <1>2, <1>5, WrittenSteps
<1>9. PICK a \in Seq(Byte) : a = Written(w, m)
  BY <1>2, <1>3, <1>8
<1> DEFINE P == {i \in 0 .. n : Written(w, m + i) = a \o Written(x, i)}
<1>10. 0 \in P
  <2>1. a \o <<>> = a /\ m + 0 = m
    BY ConcatEmptySeq
  <2>2. Written(w, m + 0) = a \o Written(x, 0)
    BY <1>7, <1>9, <2>1
  <2> QED
    BY <2>2
<1>11. ASSUME NEW i \in 1 .. n, i - 1 \in P PROVE i \in P
  <2>1. Written(w, m + (i - 1)) = a \o Written(x, i - 1)
    BY <1>11
  <2>2. PICK k \in Nat : k = m + i /\ k - 1 = m + (i - 1)
    OBVIOUS
  <2>3. k \in 1 .. Len(u) /\ ~(k <= m) /\ k - m = i
    BY <1>2, <1>3, <2>2
  <2>4. u[k] = t[i]
    BY <1>2, <1>3, <2>3
  <2>5. PICK b \in Seq(Byte) : b = Written(x, i - 1)
    BY <1>7
  <2>6. PICK d \in Seq(Byte) : d = t[i].data
    <3>1. t[i] \in WriteCall
      BY <1>3, ElementOfSeq
    <3> QED
      BY <3>1 DEF WriteCall
  <2>7. Written(w, k) = Written(w, k - 1) \o d
    BY <1>8, <2>3, <2>4, <2>6
  <2>8. Written(w, k) = (a \o b) \o d
    BY <2>1, <2>2, <2>5, <2>7
  <2>9. Written(x, i) = b \o d
    BY <1>7, <2>5, <2>6
  <2>10. (a \o b) \o d = a \o (b \o d)
    BY ConcatAssociative
  <2>11. Written(w, m + i) = a \o Written(x, i)
    BY <2>2, <2>8, <2>9, <2>10, Zenon
  <2> QED
    BY <2>11
<1>c. \A i \in 0 .. n : i \in P
  <2> HIDE DEF P
  <2> QED
    BY <1>10, <1>11, CountingUp
<1>12. n \in P
  <2>1. n \in 0 .. n
    OBVIOUS
  <2> QED
    BY <1>c, <2>1
<1>13. Written(w, m + n) = a \o Written(x, n)
  BY <1>12
<1> QED
  BY <1>1, <1>2, <1>3, <1>4, <1>6, <1>9, <1>13, Zenon DEF Flat

(* What the first calls of a writer put on the wire is a byte string.      *)
LEMMA WrittenBytes ==
    ASSUME NEW w, Writes(w, WriteCall, 4), NEW n \in 0 .. Len(w.calls)
    PROVE  Written(w, n) \in Seq(Byte)
<1>1. PICK c \in Seq(WriteCall) : c = w.calls
  BY DEF Writes
<1> QED
  BY <1>1, WrittenSteps

(* What a client's buffer holds at the end, whatever its room.             *)
LEMMA OutcomeBytes ==
    ASSUME NEW w, Writes(w, WriteCall, 4), NEW room \in Nat
    PROVE  Outcome(w, room).bytes \in Seq(Byte)
<1>1. PICK c \in Seq(WriteCall) : c = w.calls /\ Len(c) <= 4
  BY DEF Writes
<1>2. DOMAIN c = 1 .. Len(c) /\ Len(c) \in Nat
  BY LenProperties
<1> DEFINE fails == {i \in DOMAIN w.calls : \/ w.calls[i].data = <<>>
                                            \/ Len(Written(w, i)) > room}
           first == CHOOSE i \in fails : \A j \in fails : i <= j
<1>3. CASE w.error # "NONE"
  BY <1>3, EmptySeq DEF Outcome
<1>4. CASE w.error = "NONE" /\ fails = {}
  <2>1. Outcome(w, room).bytes = Written(w, Len(w.calls))
    BY <1>4 DEF Outcome
  <2> QED
    BY <1>1, <1>2, <2>1, WrittenBytes
<1>5. CASE w.error = "NONE" /\ fails # {}
  <2>1. Outcome(w, room).bytes = Written(w, first - 1)
    BY <1>5 DEF Outcome
  <2>2. fails \subseteq 1 .. Len(c)
    BY <1>1, <1>2
  <2> HIDE DEF fails
  <2>3. \E i \in fails : \A j \in fails : i <= j
    <3>1. fails \subseteq {1, 2, 3, 4} /\ fails # {}
      BY <1>1, <1>2, <1>5, <2>2
    <3>2. PICK i \in {1, 2, 3, 4} :
             i \in fails /\ \A j \in {1, 2, 3, 4} : j < i => j \notin fails
      <4>1. CASE 1 \in fails
        BY <4>1
      <4>2. CASE 1 \notin fails /\ 2 \in fails
        BY <4>2
      <4>3. CASE {1, 2} \cap fails = {} /\ 3 \in fails
        BY <4>3
      <4>4. CASE {1, 2, 3} \cap fails = {} /\ 4 \in fails
        BY <4>4
      <4> QED
        BY <3>1, <4>1, <4>2, <4>3, <4>4
    <3> QED
      BY <3>1, <3>2
  <2>4. first \in fails
    BY <2>3
  <2>5. PICK k : k = first - 1
    OBVIOUS
  <2>6. k \in 0 .. Len(w.calls)
    <3>1. PICK m : m = first
      OBVIOUS
    <3>2. m \in 1 .. Len(c)
      BY <2>2, <2>4, <3>1
    <3>3. k = m - 1
      BY <2>5, <3>1
    <3> HIDE DEF first
    <3> QED
      BY <1>1, <1>2, <3>2, <3>3
  <2> QED
    BY <2>1, <2>5, <2>6, WrittenBytes
<1> QED
  BY <1>3, <1>4, <1>5
-----------------------------------------------------------------------------
(* Readers: where they stop and what an object holds.                      *)

(* The upper bytes of v repeat the sign of its lower k bytes.              *)
Extended(v, k) ==
    \A i \in 1 .. 8 - k : v[i] = IF v[9 - k] >= 128 THEN 255 ELSE 0

(* The number or the size in an object fits the format it came in.         *)
Sound(o) ==
    /\ o.type \in Types /\ o.as \in Word
    /\ o.type = "POSITIVE_FIXNUM" => FitsUnsigned(o.as, 1) /\ o.as[8] <= 127
    /\ o.type = "NEGATIVE_FIXNUM" => FitsNegative(o.as, 1)
    /\ o.type \in Signed => Extended(o.as, Width[o.type])
    /\ o.type \in Numbered \ Signed => FitsUnsigned(o.as, Width[o.type])

(* The n bytes at a position that has as many left.                        *)
LEMMA BytesRead ==
    ASSUME NEW b \in Seq(Byte), NEW p \in Nat, NEW n \in 1 .. 8,
           p + n <= Len(b)
    PROVE  Bytes(b, p, n) \in [1 .. n -> Byte]
<1>1. PICK m \in Int, k \in Int : m = p + 1 /\ k = p + n
  OBVIOUS
<1>2. \A i \in m .. k : b[i] \in Byte
  BY <1>1, ElementOfSeq, LenProperties
<1>3. PICK s : s = SubSeq(b, m, k)
  OBVIOUS
<1>4. /\ s \in Seq(Byte)
      /\ Len(s) = IF m <= k THEN k - m + 1 ELSE 0
  BY <1>2, <1>3, SubSeqProperties
<1>5. Len(s) = n
  BY <1>1, <1>4
<1>6. s \in [1 .. n -> Byte]
  BY <1>4, <1>5, LenProperties
<1> QED
  BY <1>1, <1>3, <1>6 DEF Bytes

(* A number of n bytes, extended to a word, fits n bytes.                  *)
LEMMA Extensions ==
    ASSUME NEW n \in 1 .. 8, NEW b \in [1 .. n -> Byte]
    PROVE  /\ ZeroExtend(b) \in Word /\ FitsUnsigned(ZeroExtend(b), n)
           /\ SignExtend(b) \in Word /\ Extended(SignExtend(b), n)
           /\ SignExtend(b)[9 - n] = b[1] /\ SignExtend(b)[8] = b[n]
           /\ ZeroExtend(b)[8] = b[n]
<1>1. Len(b) = n
  BY ByteStringLength
<1>2. PICK z : z = ZeroExtend(b)
  OBVIOUS
<1>3. z = [i \in 1 .. 8 |-> IF i <= 8 - n THEN 0 ELSE b[i - (8 - n)]]
  BY <1>1, <1>2 DEF ZeroExtend
<1>4. \A i \in 1 .. 8 : i > 8 - n => i - (8 - n) \in 1 .. n
  OBVIOUS
<1>5. z \in Word /\ FitsUnsigned(z, n) /\ z[8] = b[n]
  <2>1. z \in [1 .. 8 -> Byte]
    BY <1>3, <1>4 DEF Byte
  <2>2. \A i \in 1 .. 8 - n : z[i] = 0
    BY <1>3
  <2>3. z[8] = b[n]
    BY <1>3
  <2> QED
    BY <2>1, <2>2, <2>3 DEF Word, FitsUnsigned
<1>6. PICK s : s = SignExtend(b)
  OBVIOUS
<1>7. s = [i \in 1 .. 8 |-> IF i > 8 - n THEN b[i - (8 - n)]
                           ELSE IF b[1] >= 128 THEN 255 ELSE 0]
  BY <1>1, <1>6 DEF SignExtend
<1>8. s[9 - n] = b[1] /\ s[8] = b[n]
  BY <1>7
<1>9. s \in Word
  BY <1>7, <1>4 DEF Word, Byte
<1>10. \A i \in 1 .. 8 - n : s[i] = IF b[1] >= 128 THEN 255 ELSE 0
  BY <1>7
<1>11. Extended(s, n)
  BY <1>8, <1>10 DEF Extended
<1> QED
  BY <1>2, <1>5, <1>6, <1>8, <1>9, <1>11

(* The markers from 0xc4 to 0xdf, and 0xc0, belong to some type.           *)
LEMMA MarkersTaken ==
    \A m \in {192} \cup 196 .. 223 : \E t \in Types : Marker[t] = m
<1>1. /\ Marker["NIL"] = 192 /\ Marker["BIN8"] = 196 /\ Marker["BIN16"] = 197
      /\ Marker["BIN32"] = 198 /\ Marker["EXT8"] = 199
      /\ Marker["EXT16"] = 200 /\ Marker["EXT32"] = 201
      /\ Marker["FLOAT"] = 202 /\ Marker["DOUBLE"] = 203
      /\ Marker["UINT8"] = 204 /\ Marker["UINT16"] = 205
      /\ Marker["UINT32"] = 206 /\ Marker["UINT64"] = 207
      /\ Marker["SINT8"] = 208 /\ Marker["SINT16"] = 209
      /\ Marker["SINT32"] = 210 /\ Marker["SINT64"] = 211
      /\ Marker["FIXEXT1"] = 212 /\ Marker["FIXEXT2"] = 213
      /\ Marker["FIXEXT4"] = 214 /\ Marker["FIXEXT8"] = 215
      /\ Marker["FIXEXT16"] = 216 /\ Marker["STR8"] = 217
      /\ Marker["STR16"] = 218 /\ Marker["STR32"] = 219
      /\ Marker["ARRAY16"] = 220 /\ Marker["ARRAY32"] = 221
      /\ Marker["MAP16"] = 222 /\ Marker["MAP32"] = 223
  BY DEF Marker
<1>2. {"NIL", "FIXEXT1", "FIXEXT2", "FIXEXT4", "FIXEXT8", "FIXEXT16"}
      \cup Numbered \subseteq Types
  BY DEF Types, Marker, Numbered
<1> QED
  BY <1>1, <1>2 DEF Numbered

(* The type of every marker byte: outside the ranges that hold the value   *)
(* themselves it is the only type with that marker.                        *)
LEMMA MarkerTypes ==
    ASSUME NEW m \in Byte
    PROVE  \/ TypeOf(m) = "INVALID"
           \/ TypeOf(m) = "POSITIVE_FIXNUM" /\ m <= 127
           \/ TypeOf(m) = "NEGATIVE_FIXNUM" /\ m >= 224
           \/ TypeOf(m) \in {"FIXMAP", "FIXARRAY", "FIXSTR", "BOOLEAN"}
              /\ m - Marker[TypeOf(m)] \in Byte
           \/ TypeOf(m) \in {"NIL"} \cup DOMAIN FixExtSize \cup Numbered
<1>1. m \in 0 .. 255
  BY DEF Byte
<1>2. CASE m <= 127
  BY <1>1, <1>2 DEF TypeOf
<1>3. CASE m \in 128 .. 143
  <2>1. TypeOf(m) = "FIXMAP" /\ Marker["FIXMAP"] = 128
    BY <1>3 DEF TypeOf, Marker
  <2> QED
    BY <1>3, <2>1 DEF Byte
<1>4. CASE m \in 144 .. 159
  <2>1. TypeOf(m) = "FIXARRAY" /\ Marker["FIXARRAY"] = 144
    BY <1>4 DEF TypeOf, Marker
  <2> QED
    BY <1>4, <2>1 DEF Byte
<1>5. CASE m \in 160 .. 191
  <2>1. TypeOf(m) = "FIXSTR" /\ Marker["FIXSTR"] = 160
    BY <1>5 DEF TypeOf, Marker
  <2> QED
    BY <1>5, <2>1 DEF Byte
<1>6. CASE m \in {194, 195}
  <2>1. TypeOf(m) = "BOOLEAN" /\ Marker["BOOLEAN"] = 194
    BY <1>6 DEF TypeOf, Marker
  <2> QED
    BY <1>6, <2>1 DEF Byte
<1>7. CASE m >= 224
  BY <1>1, <1>7 DEF TypeOf
<1>8. CASE m = 193
  BY <1>8 DEF TypeOf
<1>9. CASE m \in {192} \cup 196 .. 223
  <2>1. TypeOf(m) = CHOOSE t \in Types : Marker[t] = m
    BY <1>9 DEF TypeOf
  <2>2. \E t \in Types : Marker[t] = m
    BY <1>9, MarkersTaken
  <2>3. TypeOf(m) \in Types /\ Marker[TypeOf(m)] = m
    BY <2>1, <2>2
  <2>4. PICK t \in Types : t = TypeOf(m) /\ Marker[t] = m
    BY <2>3
  <2>5. t \in {"NIL"} \cup DOMAIN FixExtSize \cup Numbered
    BY <1>9, <2>4 DEF Types, Marker, FixExtSize, Numbered
  <2> QED
    BY <2>4, <2>5
<1> QED
  BY <1>1, <1>2, <1>3, <1>4, <1>5, <1>6, <1>7, <1>8, <1>9

(* A reader has consumed no more than there is, and what it stored fits.   *)
InBounds(res, b) ==
    /\ DOMAIN res = {"ok", "obj", "pos", "error"}
    /\ res.ok \in BOOLEAN /\ res.pos \in 0 .. Len(b)
    /\ res.ok => Sound(res.obj)

(* A refusal, at a position within the bytes.                              *)
LEMMA FailedInBounds ==
    ASSUME NEW b, NEW e, NEW p \in 0 .. Len(b)
    PROVE  InBounds(Failed(e, p), b) /\ ~Failed(e, p).ok
BY DEF Failed, InBounds

(* A success with a sound object.                                          *)
LEMMA ReadInBounds ==
    ASSUME NEW b, NEW o, NEW p \in 0 .. Len(b), Sound(o)
    PROVE  InBounds(Read(o, p), b) /\ Read(o, p).obj = o /\ Read(o, p).ok
BY DEF Read, InBounds

(* The word of a single byte.                                              *)
LEMMA SmallWord ==
    ASSUME NEW m \in Byte
    PROVE  /\ Small(m) \in Word /\ FitsUnsigned(Small(m), 1)
           /\ Small(m)[8] = m
<1>1. <<m>> \in [1 .. 1 -> Byte] /\ <<m>>[1] = m
  OBVIOUS
<1>2. PICK s : s = <<m>>
  OBVIOUS
<1> QED
  BY <1>1, <1>2, Extensions DEF Small

(* Objects that are their marker.                                          *)
LEMMA MarkerOnlyRead ==
    ASSUME NEW b, NEW m \in Byte, NEW p \in 0 .. Len(b),
           TypeOf(m) \in MarkerOnly
    PROVE  InBounds(ReadMarkerOnly(m, p), b)
<1>0. /\ MarkerOnly \subseteq Types
      /\ \A u \in MarkerOnly : u \notin Numbered /\ u \notin Signed
  BY DEF MarkerOnly, Types, Marker, Numbered, Signed
<1>1. PICK t \in MarkerOnly : t = TypeOf(m)
  OBVIOUS
<1>2. CASE t = "POSITIVE_FIXNUM"
  <2>1. m <= 127
    BY <1>1, <1>2, MarkerTypes DEF FixExtSize, Numbered
  <2>2. Sound(Object(t, Small(m), 0))
    BY <1>0, <1>2, <2>1, SmallWord DEF Sound, Object
  <2> QED
    BY <1>1, <1>2, <2>2, ReadInBounds DEF ReadMarkerOnly
<1>3. CASE t = "NEGATIVE_FIXNUM"
  <2>1. m >= 224
    BY <1>1, <1>3, MarkerTypes DEF FixExtSize, Numbered
  <2>2. <<m>> \in [1 .. 1 -> Byte] /\ <<m>>[1] = m
    OBVIOUS
  <2>3. PICK s : s = <<m>>
    OBVIOUS
  <2>4. PICK v : v = SignExtend(s)
    OBVIOUS
  <2>5. v \in Word /\ Extended(v, 1) /\ v[9 - 1] = m
    BY <2>2, <2>3, <2>4, Extensions
  <2>6. FitsNegative(v, 1)
    BY <2>1, <2>5 DEF FitsNegative, Extended, Byte
  <2>7. Sound(Object(t, v, 0))
    BY <1>0, <1>3, <2>5, <2>6 DEF Sound, Object
  <2> QED
    BY <1>1, <1>3, <2>3, <2>4, <2>7, ReadInBounds DEF ReadMarkerOnly
<1>4. CASE t = "NIL"
  <2>1. 0 \in Byte
    BY DEF Byte
  <2>2. Sound(Object(t, Small(0), 0))
    BY <1>0, <1>4, <2>1, SmallWord DEF Sound, Object
  <2> QED
    BY <1>1, <1>4, <2>2, ReadInBounds DEF ReadMarkerOnly
<1>5. CASE t \in {"FIXMAP", "FIXARRAY", "FIXSTR", "BOOLEAN"}
  <2>1. m - Marker[t] \in Byte
    BY <1>1, <1>5, MarkerTypes DEF FixExtSize, Numbered
  <2>2. Sound(Object(t, Small(m - Marker[t]), 0))
    BY <1>0, <1>5, <2>1, SmallWord DEF Sound, Object
  <2> QED
    BY <1>1, <1>5, <2>2, ReadInBounds DEF ReadMarkerOnly
<1> QED
  BY <1>2, <1>3, <1>4, <1>5 DEF MarkerOnly

(* A number that is read fits the format that its marker named.            *)
LEMMA NumberSound ==
    ASSUME NEW b \in Seq(Byte), NEW p \in Nat, NEW t \in Numbered,
           p + Width[t] <= Len(b), NEW x
    PROVE  Sound(Object(t, Number(t, b, p), x))
<1>1. PICK n \in 1 .. 8 : n = Width[t]
  BY NumberedFormats
<1>2. PICK v : v = Bytes(b, p, n)
  OBVIOUS
<1>3. v \in [1 .. n -> Byte]
  BY <1>1, <1>2, BytesRead
<1>4. Memory(be(v)) = v
  BY <1>3, NetworkOrder
<1>5. /\ ZeroExtend(v) \in Word /\ FitsUnsigned(ZeroExtend(v), n)
      /\ SignExtend(v) \in Word /\ Extended(SignExtend(v), n)
  BY <1>3, Extensions
<1>6. Number(t, b, p) = IF t \in Signed THEN SignExtend(v) ELSE ZeroExtend(v)
  BY <1>1, <1>2, <1>4 DEF Number
<1>7. t \in Types /\ t # "POSITIVE_FIXNUM" /\ t # "NEGATIVE_FIXNUM"
  BY NumberedFormats DEF Numbered
<1> QED
  BY <1>1, <1>5, <1>6, <1>7 DEF Sound, Object

(* Objects with a number or a size, and extensions.                        *)
LEMMA NumberRead ==
    ASSUME NEW b \in Seq(Byte), NEW p \in 0 .. Len(b), NEW t \in Numbered
    PROVE  /\ \A e : InBounds(ReadNumber(t, b, p, e), b)
           /\ InBounds(ReadExt(t, b, p), b)
<1>0. Len(b) \in Nat /\ p \in Nat
  BY LenProperties
<1>1. PICK n \in 1 .. 8 : n = Width[t]
  BY NumberedFormats
<1>2. CASE CanRead(b, p, n)
  <2>1. p + n <= Len(b) /\ p + n \in 0 .. Len(b)
    BY <1>0, <1>2 DEF CanRead
  <2>2. \A x : Sound(Object(t, Number(t, b, p), x))
    BY <1>0, <1>1, <2>1, NumberSound
  <2>3. \A e : InBounds(ReadNumber(t, b, p, e), b)
    BY <1>1, <1>2, <2>1, <2>2, ReadInBounds DEF ReadNumber
  <2>4. CASE CanRead(b, p + n, 1)
    <3>1. p + n + 1 \in 0 .. Len(b)
      BY <1>0, <2>4 DEF CanRead
    <3>2. ReadExt(t, b, p)
            = Read(Object(t, Number(t, b, p), b[p + n + 1]), p + n + 1)
      BY <1>1, <1>2, <2>4 DEF ReadExt
    <3> QED
      BY <2>2, <2>3, <3>1, <3>2, ReadInBounds
  <2>5. CASE ~CanRead(b, p + n, 1)
    <3>1. ReadExt(t, b, p) = Failed("EXT_TYPE_READING", p + n)
      BY <1>1, <1>2, <2>5 DEF ReadExt
    <3> QED
      BY <2>1, <2>3, <3>1, FailedInBounds
  <2> QED
    BY <2>4, <2>5
<1>3. CASE ~CanRead(b, p, n)
  BY <1>1, <1>3, FailedInBounds DEF ReadNumber, ReadExt
<1> QED
  BY <1>2, <1>3

(* Extensions of a fixed size.                                             *)
LEMMA FixExtRead ==
    ASSUME NEW b \in Seq(Byte), NEW p \in 0 .. Len(b),
           NEW t \in DOMAIN FixExtSize
    PROVE  InBounds(ReadFixExt(t, b, p), b)
<1>1. FixExtSize[t] \in Byte
  <2>1. FixExtSize[t] \in {1, 2, 4, 8, 16}
    BY DEF FixExtSize
  <2> QED
    BY <2>1 DEF Byte
<1>2. /\ t \in Types /\ t \notin Numbered /\ t \notin Signed
      /\ t # "POSITIVE_FIXNUM" /\ t # "NEGATIVE_FIXNUM"
  BY DEF FixExtSize, Types, Marker, Numbered, Signed
<1>3. \A x : Sound(Object(t, Small(FixExtSize[t]), x))
  BY <1>1, <1>2, SmallWord DEF Sound, Object
<1>4. CASE CanRead(b, p, 1)
  <2>1. p + 1 \in 0 .. Len(b)
    BY <1>4, LenProperties DEF CanRead
  <2> QED
    BY <1>3, <1>4, <2>1, ReadInBounds DEF ReadFixExt
<1>5. CASE ~CanRead(b, p, 1)
  BY <1>5, FailedInBounds DEF ReadFixExt
<1> QED
  BY <1>4, <1>5

(* cmp_read_object, on every byte string and at every position.            *)
LEMMA ObjectRead ==
    ASSUME NEW b \in Seq(Byte), NEW p \in 0 .. Len(b)
    PROVE  InBounds(cmp_read_object(b, p), b)
<1>0. Len(b) \in Nat
  BY LenProperties
<1>1. CASE ~CanRead(b, p, 1)
  BY <1>1, FailedInBounds DEF cmp_read_object
<1>2. CASE CanRead(b, p, 1)
  <2>1. p + 1 \in 1 .. Len(b) /\ p + 1 \in 0 .. Len(b)
    BY <1>0, <1>2 DEF CanRead
  <2>2. PICK m \in Byte : m = b[p + 1]
    BY <2>1, ElementOfSeq
  <2>3. PICK q \in 0 .. Len(b) : q = p + 1
    BY <2>1
  <2>4. PICK t : t = TypeOf(m)
    OBVIOUS
  <2>5. cmp_read_object(b, p) =
           CASE t = "INVALID" -> Failed("INVALID_TYPE", q)
             [] t \in MarkerOnly -> ReadMarkerOnly(m, q)
             [] t \in {"BIN8", "BIN16", "BIN32"} ->
                   ReadNumber(t, b, q, "LENGTH_READING")
             [] t \in {"EXT8", "EXT16", "EXT32"} -> ReadExt(t, b, q)
             [] t \in DOMAIN FixExtSize -> ReadFixExt(t, b, q)
             [] OTHER -> ReadNumber(t, b, q, "DATA_READING")
    BY <1>2, <2>2, <2>3, <2>4, Zenon DEF cmp_read_object
  <2>6. t = "INVALID" \/ t \in MarkerOnly \/ t \in DOMAIN FixExtSize
        \/ t \in Numbered
    BY <2>4, MarkerTypes DEF MarkerOnly
  <2>7. CASE t = "INVALID"
    BY <2>5, <2>7, FailedInBounds DEF MarkerOnly, FixExtSize
  <2>8. CASE t \in MarkerOnly
    <3>1. cmp_read_object(b, p) = ReadMarkerOnly(m, q)
      BY <2>5, <2>8 DEF MarkerOnly, FixExtSize
    <3> QED
      BY <2>4, <2>8, <3>1, MarkerOnlyRead
  <2>9. CASE t \in DOMAIN FixExtSize
    <3>1. cmp_read_object(b, p) = ReadFixExt(t, b, q)
      BY <2>5, <2>9 DEF MarkerOnly, FixExtSize
    <3> QED
      BY <2>9, <3>1, FixExtRead
  <2>10. CASE t \in Numbered
    <3>1. \/ cmp_read_object(b, p) = ReadNumber(t, b, q, "LENGTH_READING")
          \/ cmp_read_object(b, p) = ReadNumber(t, b, q, "DATA_READING")
          \/ cmp_read_object(b, p) = ReadExt(t, b, q)
      BY <2>5, <2>10 DEF MarkerOnly, FixExtSize, Numbered
    <3> QED
      BY <2>10, <3>1, NumberRead
  <2> QED
    BY <2>6, <2>7, <2>8, <2>9, <2>10
<1> QED
  BY <1>1, <1>2

(* Each typed reader on top of it.                                         *)
LEMMA TypedRead ==
    ASSUME NEW b \in Seq(Byte), NEW p \in 0 .. Len(b), NEW r
    PROVE  InBounds(cmp_read(r, b, p), b)
<1>1. PICK first : first = cmp_read_object(b, p)
  OBVIOUS
<1>2. InBounds(first, b) /\ first.pos \in 0 .. Len(b)
  BY <1>1, ObjectRead DEF InBounds
<1>3. InBounds(Failed("INVALID_TYPE", first.pos), b)
  BY <1>2, FailedInBounds
<1>4. cmp_read(r, b, p) = IF ~first.ok \/ Takes(r, first.obj) THEN first
                          ELSE Failed("INVALID_TYPE", first.pos)
  BY <1>1 DEF cmp_read
<1> QED
  BY <1>2, <1>3, <1>4

(* A size is a natural number.                                             *)
LEMMA SizeIsNat ==
    ASSUME NEW v \in Word PROVE SizeOf(v) \in Nat
<1>0. v[8] \in Byte /\ v[7] \in Byte /\ v[6] \in Byte /\ v[5] \in Byte
  BY DEF Word
<1>1. PICK i \in 0 .. 255, j \in 0 .. 255, k \in 0 .. 255, l \in 0 .. 255 :
         i = v[8] /\ j = v[7] /\ k = v[6] /\ l = v[5]
  BY <1>0 DEF Byte
<1>2. i + 256 * j + 65536 * k + 16777216 * l \in Nat
  BY SMT
<1> QED
  BY <1>1, <1>2, SMT DEF SizeOf

(* The comparison that TLC can evaluate is the comparison.                 *)
LEMMA ExceedsMeans ==
    ASSUME NEW v \in Word, NEW n \in Int
    PROVE  Exceeds(v, n) <=> SizeOf(v) > n
<1>0. v[8] \in Byte /\ v[7] \in Byte /\ v[6] \in Byte /\ v[5] \in Byte
  BY DEF Word
<1>1. PICK i \in 0 .. 255, j \in 0 .. 255, k \in 0 .. 255, l \in 0 .. 255 :
         i = v[8] /\ j = v[7] /\ k = v[6] /\ l = v[5]
  BY <1>0 DEF Byte
<1>2. (l > 127 /\ n <= 2147483647)
         => i + 256 * j + 65536 * k + 16777216 * l > n
  BY SMT
<1>3. SizeOf(v) = i + 256 * j + 65536 * k + 16777216 * l
  BY <1>1 DEF SizeOf
<1> QED
  BY <1>1, <1>2, <1>3 DEF Exceeds

(* Data is taken only if all of it is there.                               *)
LEMMA FetchInBounds ==
    ASSUME NEW b \in Seq(Byte), NEW first, InBounds(first, b), first.ok
    PROVE  /\ InBounds(Fetch(first, b), b)
           /\ Fetch(first, b).ok => Fetch(first, b).obj = first.obj
<1>0. Len(b) \in Nat
  BY LenProperties
<1>1. /\ DOMAIN first = {"ok", "obj", "pos", "error"}
      /\ first.pos \in 0 .. Len(b) /\ Sound(first.obj) /\ first.obj.as \in Word
  BY DEF InBounds, Sound
<1>2. PICK n \in Nat : n = SizeOf(first.obj.as)
  BY <1>1, SizeIsNat
<1>5. PICK rest \in Nat : rest = Len(b) - first.pos
  BY <1>0, <1>1
<1>6. Exceeds(first.obj.as, rest) <=> n > rest
  BY <1>1, <1>2, <1>5, ExceedsMeans
<1>3. CASE Exceeds(first.obj.as, rest)
  <2>1. Fetch(first, b) = Failed("DATA_READING", first.pos)
    BY <1>3, <1>5 DEF Fetch
  <2> QED
    BY <1>1, <2>1, FailedInBounds
<1>4. CASE ~Exceeds(first.obj.as, rest)
  <2>1. PICK q : q = first.pos + n
    OBVIOUS
  <2>2. q \in 0 .. Len(b)
    BY <1>0, <1>1, <1>4, <1>5, <1>6, <2>1
  <2>3. PICK res : res = [first EXCEPT !.pos = q]
    OBVIOUS
  <2>4. Fetch(first, b) = res
    BY <1>2, <1>4, <1>5, <2>1, <2>3 DEF Fetch
  <2>5. /\ DOMAIN res = {"ok", "obj", "pos", "error"} /\ res.pos = q
        /\ res.ok = first.ok /\ res.obj = first.obj
    BY <1>1, <2>3
  <2>6. InBounds(res, b)
    BY <1>1, <2>2, <2>5 DEF InBounds
  <2> QED
    BY <1>4, <2>4, <2>5, <2>6
<1> QED
  BY <1>3, <1>4

(* What the readers of the sizes of strings and binary data take.          *)
LEMMA TakesSize ==
    ASSUME NEW o
    PROVE  /\ Takes("str_size", o) <=> o.type \in ObjectIsOther["str"]
           /\ Takes("bin_size", o) <=> o.type \in ObjectIsOther["bin"]
BY DEF Takes, ExactReader, ExactUnsignedReader, SignedReader, UnsignedReader,
       RealReader, SizeReader, ExtReader, ObjectIsOther

(* A string or binary data, read at once or after its marker: the same     *)
(* bytes are taken or both refuse, and what is taken fits the caller.      *)
LEMMA DataRead ==
    ASSUME NEW b \in Seq(Byte), NEW p \in 0 .. Len(b), NEW room \in Nat,
           NEW kind \in {"str", "bin"},
           NEW o, o = cmp_read_object(b, p),
           NEW res, res = IF kind = "str" THEN cmp_read_str(b, p, room)
                          ELSE cmp_read_bin(b, p, room),
           NEW later, later = IF ~o.ok THEN o
                              ELSE cmp_object_to(kind, o, b, room)
    PROVE  /\ InBounds(res, b)
           /\ res.ok => \/ kind = "str" /\ Wraps(res.obj.as)
                        \/ SizeOf(res.obj.as)
                             + (IF kind = "str" THEN 1 ELSE 0) <= room
           /\ res.ok <=> later.ok
           /\ res.ok => res.pos = later.pos
<1>0. InBounds(o, b) /\ o.ok \in BOOLEAN /\ o.pos \in 0 .. Len(b)
      /\ (o.ok => Sound(o.obj))
  BY ObjectRead DEF InBounds
<1>1. PICK r : r = IF kind = "str" THEN "str_size" ELSE "bin_size"
  OBVIOUS
<1>2. PICK first : first = cmp_read(r, b, p)
  OBVIOUS
<1>3. PICK long : long = IF kind = "str" THEN StrTooLong(first.obj.as, room)
                         ELSE BinTooLong(first.obj.as, room)
  OBVIOUS
<1>4. PICK e : e = IF kind = "str" THEN "STR_DATA_LENGTH_TOO_LONG"
                   ELSE "BIN_DATA_LENGTH_TOO_LONG"
  OBVIOUS
<1>5. res = IF ~first.ok THEN first
            ELSE IF long THEN Failed(e, first.pos) ELSE Fetch(first, b)
  BY <1>1, <1>2, <1>3, <1>4 DEF cmp_read_str, cmp_read_bin
<1>6. Takes(r, o.obj) <=> o.obj.type \in ObjectIsOther[kind]
  BY <1>1, TakesSize
<1>7. first = IF ~o.ok \/ Takes(r, o.obj) THEN o
            ELSE Failed("INVALID_TYPE", o.pos)
  BY <1>2 DEF cmp_read
<1>8. CASE ~o.ok
  BY <1>0, <1>5, <1>7, <1>8
<1>9. CASE o.ok /\ ~Takes(r, o.obj)
  <2>1. ~first.ok /\ res = first /\ InBounds(first, b)
    BY <1>0, <1>5, <1>7, <1>9, FailedInBounds
  <2>2. later = Failed("NONE", o.pos)
    BY <1>6, <1>9 DEF cmp_object_to
  <2> QED
    BY <1>0, <2>1, <2>2, FailedInBounds
<1>10. CASE o.ok /\ Takes(r, o.obj)
  <2>1. first = o
    BY <1>7, <1>10
  <2>2. later = IF long THEN Failed(e, o.pos) ELSE Fetch(o, b)
    BY <1>3, <1>4, <1>6, <1>10, <2>1 DEF cmp_object_to
  <2>3. res = later
    BY <1>5, <1>10, <2>1, <2>2
  <2>4. CASE long
    BY <1>0, <2>2, <2>3, <2>4, FailedInBounds
  <2>5. CASE ~long
    <3>1. res = Fetch(o, b)
      BY <2>2, <2>3, <2>5
    <3>2. /\ InBounds(res, b)
          /\ res.ok => res.obj = o.obj
      BY <1>0, <1>10, <3>1, FetchInBounds
    <3>3. ASSUME res.ok
          PROVE  \/ kind = "str" /\ Wraps(o.obj.as)
                 \/ SizeOf(o.obj.as) + (IF kind = "str" THEN 1 ELSE 0) <= room
      <4>1. PICK v \in Word : v = o.obj.as
        BY <1>0, <1>10 DEF Sound
      <4>3. PICK n \in Nat : n = SizeOf(v)
        BY SizeIsNat
      <4>4. CASE kind = "bin"
        <5>1. ~BinTooLong(v, room)
          BY <1>3, <2>1, <2>5, <4>1, <4>4
        <5>2. n <= room
          BY <4>3, <5>1, ExceedsMeans DEF BinTooLong
        <5> QED
          BY <4>1, <4>3, <4>4, <5>2
      <4>5. CASE kind = "str"
        <5>1. ~StrTooLong(v, room)
          BY <1>3, <2>1, <2>5, <4>1, <4>5
        <5>2. room - 1 \in Int
          OBVIOUS
        <5>3. Wraps(v) \/ n + 1 <= room
          BY <4>3, <5>1, <5>2, ExceedsMeans DEF StrTooLong
        <5> QED
          BY <4>1, <4>3, <4>5, <5>3
      <4> QED
        BY <4>4, <4>5
    <3> QED
      BY <2>3, <3>2, <3>3
  <2> QED
    BY <2>4, <2>5
<1> QED
  BY <1>0, <1>8, <1>9, <1>10

(* Extensions, read at once.                                               *)
LEMMA ExtRead ==
    ASSUME NEW b \in Seq(Byte), NEW p \in 0 .. Len(b), NEW r
    PROVE  InBounds(cmp_read_ext(r, b, p), b)
<1>1. PICK first : first = cmp_read(r, b, p)
  OBVIOUS
<1>2. InBounds(first, b) /\ first.ok \in BOOLEAN
  BY <1>1, TypedRead DEF InBounds
<1>3. first.ok => InBounds(Fetch(first, b), b)
  BY <1>2, FetchInBounds
<1> QED
  BY <1>1, <1>2, <1>3 DEF cmp_read_ext
-----------------------------------------------------------------------------
(* The buffer of a display message.                                        *)

(* The inductive invariant: a buffer that has been allocated has at least  *)
(* the size of the first allocation, and no write still to be made is      *)
(* longer than that.  Without the second part doubling once might not be   *)
(* enough.                                                                 *)
BufferInv ==
    /\ step \in {"idle", "write", "send", "read", "done"}
    /\ msg \in [buf : Seq(Byte), size : Nat]
    /\ NoOverrun
    /\ msg.size = 0 \/ msg.size >= InitialSize
    /\ calls \in Seq(ShortCall)

(* Every message of lib/src/msgpack.c is written in short calls.           *)
LEMMA MessageWrites ==
    /\ \A u \in Updates : mux_write_outgoing_update_msg(u) \in Seq(ShortCall)
    /\ \A u \in Switches : mux_write_outgoing_switch_msg(u) \in Seq(ShortCall)
    /\ mux_write_outgoing_shutdown_msg \in Seq(ShortCall)
<1>1. \A n \in Int : cmp_write_uint(n) \in Seq(ShortCall)
  <2> SUFFICES ASSUME NEW n \in Int PROVE cmp_write_uint(n) \in Seq(ShortCall)
    OBVIOUS
  <2>1. Writes(cmp_write_uinteger(IntWord(n)), ShortCall, 2)
    BY IntWordType, IntegerWrites
  <2> QED
    BY <2>1 DEF cmp_write_uint, Writes
<1>2. \A n \in Byte : ArrayOf(n) \in Seq(ShortCall)
  <2> SUFFICES ASSUME NEW n \in Byte PROVE ArrayOf(n) \in Seq(ShortCall)
    OBVIOUS
  <2>1. Writes(cmp_write_array(Small(n)), ShortCall, 2)
    BY SmallWord, SizeWrites
  <2> QED
    BY <2>1 DEF ArrayOf, Writes
<1>3. /\ DISPLAY_UPDATE \in Int /\ DISPLAY_SWITCH \in Int /\ SHUTDOWN \in Int
      /\ 1 \in Byte /\ 4 \in Byte /\ 5 \in Byte
  BY DEF DISPLAY_UPDATE, DISPLAY_SWITCH, SHUTDOWN, Byte
<1>4. \A s, t \in Seq(ShortCall) : s \o t \in Seq(ShortCall)
  BY ConcatProperties
<1>5. ASSUME NEW u \in Updates
      PROVE  mux_write_outgoing_update_msg(u) \in Seq(ShortCall)
  <2>1. u[1] \in Int /\ u[2] \in Int /\ u[3] \in Int /\ u[4] \in Int
    BY WireAssumption
  <2>2. u[3] - u[1] \in Int /\ u[4] - u[2] \in Int
    BY <2>1
  <2>3. /\ ArrayOf(5) \in Seq(ShortCall)
        /\ cmp_write_uint(DISPLAY_UPDATE) \in Seq(ShortCall)
        /\ cmp_write_uint(u[1]) \in Seq(ShortCall)
        /\ cmp_write_uint(u[2]) \in Seq(ShortCall)
        /\ cmp_write_uint(u[3] - u[1]) \in Seq(ShortCall)
        /\ cmp_write_uint(u[4] - u[2]) \in Seq(ShortCall)
    BY <1>1, <1>2, <1>3, <2>1, <2>2
  <2> QED
    BY <1>4, <2>3 DEF mux_write_outgoing_update_msg
<1>6. ASSUME NEW u \in Switches
      PROVE  mux_write_outgoing_switch_msg(u) \in Seq(ShortCall)
  <2>1. u[1] \in Int /\ u[2] \in Int /\ u[3] \in Int
    BY WireAssumption
  <2>2. /\ ArrayOf(4) \in Seq(ShortCall)
        /\ cmp_write_uint(DISPLAY_SWITCH) \in Seq(ShortCall)
        /\ cmp_write_uint(u[1]) \in Seq(ShortCall)
        /\ cmp_write_uint(u[2]) \in Seq(ShortCall)
        /\ cmp_write_uint(u[3]) \in Seq(ShortCall)
    BY <1>1, <1>2, <1>3, <2>1
  <2> QED
    BY <1>4, <2>2 DEF mux_write_outgoing_switch_msg
<1>7. mux_write_outgoing_shutdown_msg \in Seq(ShortCall)
  BY <1>1, <1>2, <1>3, <1>4 DEF mux_write_outgoing_shutdown_msg
<1> QED
  BY <1>5, <1>6, <1>7

(* One write of at most eight bytes.                                       *)
LEMMA WriteFits ==
    ASSUME BufferInv, mux_msg_writer PROVE BufferInv'
<1>1. /\ step \in {"idle", "write", "send", "read", "done"}
      /\ msg \in [buf : Seq(Byte), size : Nat]
      /\ Len(msg.buf) <= msg.size
      /\ msg.size = 0 \/ msg.size >= InitialSize
      /\ calls \in Seq(ShortCall) /\ calls # <<>>
  BY DEF BufferInv, NoOverrun, mux_msg_writer
<1>2. PICK b \in Seq(Byte), size \in Nat : b = msg.buf /\ size = msg.size
  BY <1>1
<1>3. /\ Head(calls) \in ShortCall /\ Tail(calls) \in Seq(ShortCall)
  BY <1>1, HeadTailProperties
<1>4. PICK d \in Seq(Byte) : d = Head(calls).data /\ Len(d) <= 8
  BY <1>3 DEF ShortCall, WriteCall
<1>5. PICK n \in Nat : n = Len(d) /\ n <= 8
  BY <1>4, LenProperties
<1>6. PICK m \in Nat : m = Len(b) /\ m <= size
  BY <1>1, <1>2, LenProperties
<1>7. size = 0 \/ size >= InitialSize
  BY <1>1, <1>2
<1>8. PICK g : g = Grown(n)
  OBVIOUS
<1>9. g = IF size = 0 THEN InitialSize
          ELSE IF m + n > size THEN 2 * size ELSE size
  BY <1>2, <1>6, <1>8 DEF Grown
<1>10. PICK i \in Nat : i = InitialSize /\ i >= 8
  BY WireAssumption
<1>11. g \in Nat /\ m + n <= g /\ g >= InitialSize
  BY <1>5, <1>6, <1>7, <1>9, <1>10
<1>12. PICK s : s = b \o d
  OBVIOUS
<1>13. s \in Seq(Byte) /\ Len(s) = m + n
  BY <1>5, <1>6, <1>12, ConcatProperties
<1>14. msg' = [buf |-> s, size |-> g] /\ calls' = Tail(calls) /\ step' = step
  BY <1>2, <1>4, <1>5, <1>8, <1>12 DEF mux_msg_writer
<1>15. msg'.buf = s /\ msg'.size = g
  BY <1>14
<1>16. NoOverrun'
  BY <1>11, <1>13, <1>15 DEF NoOverrun
<1> QED
  BY <1>1, <1>3, <1>11, <1>13, <1>14, <1>15, <1>16 DEF BufferInv

(* BufferInv is inductive: one step per action.                            *)
LEMMA BufferAlways == Spec => []BufferInv
<1>1. Init => BufferInv
  <2> SUFFICES ASSUME Init PROVE BufferInv
    OBVIOUS
  <2>1. step = "idle" /\ calls = <<>> /\ msg = [buf |-> <<>>, size |-> 0]
    BY DEF Init
  <2>2. /\ msg.buf = <<>> /\ msg.size = 0
        /\ <<>> \in Seq(Byte) /\ Len(<<>>) = 0
    BY <2>1, EmptySeq
  <2> QED
    BY <2>1, <2>2, EmptySeq DEF BufferInv, NoOverrun
<1>2. BufferInv /\ [Next]_vars => BufferInv'
  <2> SUFFICES ASSUME BufferInv, [Next]_vars PROVE BufferInv'
    OBVIOUS
  <2>0. ASSUME msg' = [buf |-> <<>>, size |-> 0], calls' \in Seq(ShortCall),
               step' \in {"idle", "write", "send", "read", "done"}
        PROVE  BufferInv'
    <3>1. /\ msg'.buf = <<>> /\ msg'.size = 0
          /\ <<>> \in Seq(Byte) /\ Len(<<>>) = 0
      BY <2>0, EmptySeq
    <3> QED
      BY <2>0, <3>1 DEF BufferInv, NoOverrun
  <2>same. ASSUME UNCHANGED <<msg, calls>>,
               step' \in {"idle", "write", "send", "read", "done"}
        PROVE  BufferInv'
    BY <2>same DEF BufferInv, NoOverrun
  <2>1. CASE WriteObject
    BY <2>1, <2>same DEF WriteObject
  <2>2. CASE ReceiveObject
    BY <2>2, <2>same DEF ReceiveObject
  <2>3. CASE ReadObject
    BY <2>3, <2>same DEF ReadObject
  <2>4. CASE ReadData
    BY <2>4, <2>same DEF ReadData
  <2>5. CASE mux_write_outgoing_msg
    <3>1. calls' \in Seq(ShortCall)
      BY <2>5, MessageWrites DEF mux_write_outgoing_msg
    <3> QED
      BY <2>0, <2>5, <3>1 DEF mux_write_outgoing_msg
  <2>6. CASE mux_msg_writer
    BY <2>6, WriteFits
  <2>7. CASE mux_0mq_send_msg
    BY <2>7, <2>same DEF mux_0mq_send_msg
  <2>8. CASE ServerUnpacks
    BY <2>8, <2>same DEF ServerUnpacks
  <2>9. CASE ServerPacks
    BY <2>9, <2>same DEF ServerPacks
  <2>10. CASE mux_process_incoming_msg
    BY <2>10, <2>same DEF mux_process_incoming_msg
  <2>11. CASE Return
    <3>1. calls' \in Seq(ShortCall)
      BY <2>11 DEF Return, BufferInv
    <3> QED
      BY <2>0, <2>11, <3>1 DEF Return
  <2>12. CASE UNCHANGED vars
    BY <2>12 DEF vars, BufferInv, NoOverrun
  <2> QED
    BY <2>1, <2>2, <2>3, <2>4, <2>5, <2>6, <2>7, <2>8, <2>9, <2>10, <2>11,
       <2>12 DEF Next
<1> QED
  BY <1>1, <1>2, PTL DEF Spec

(* Whichever of its messages lib/src/msgpack.c writes, the memcpy of       *)
(* mux_msg_writer stays inside the buffer, for boxes and surfaces of any   *)
(* size and whatever the size of the first buffer, from 8 bytes on.        *)
THEOREM NoMessageOverruns == Spec => []NoOverrun
<1>1. BufferInv => NoOverrun
  BY DEF BufferInv
<1> QED
  BY <1>1, BufferAlways, PTL
-----------------------------------------------------------------------------
(* Numbers handed out by the accessors.                                    *)

(* Cutting to k bytes loses nothing of a number that fits them.            *)
LEMMA ExtendLow ==
    ASSUME NEW v \in Word, NEW k \in 1 .. 8
    PROVE  /\ Extended(v, k) => SignExtend(Low(v, k)) = v
           /\ FitsUnsigned(v, k) => ZeroExtend(Low(v, k)) = v
<1>1. PICK b : b = Low(v, k)
  OBVIOUS
<1>2. b = [i \in 1 .. k |-> v[8 - k + i]]
  BY <1>1, LowBytes
<1>3. \A i \in 1 .. k : 8 - k + i \in 1 .. 8
  OBVIOUS
<1>4. b \in [1 .. k -> Byte]
  BY <1>2, <1>3 DEF Word
<1>5. Len(b) = k
  BY <1>4, ByteStringLength
<1>6. b[1] = v[9 - k] /\ \A i \in 1 .. 8 : i > 8 - k => b[i - (8 - k)] = v[i]
  BY <1>2
<1>7. v = [i \in 1 .. 8 |-> v[i]]
  BY DEF Word
<1>8. ASSUME Extended(v, k) PROVE SignExtend(b) = v
  <2>1. SignExtend(b) = [i \in 1 .. 8 |-> IF i > 8 - k THEN b[i - (8 - k)]
                                  ELSE IF b[1] >= 128 THEN 255 ELSE 0]
    BY <1>5 DEF SignExtend
  <2>2. ASSUME NEW i \in 1 .. 8
        PROVE  v[i] = IF i > 8 - k THEN b[i - (8 - k)]
                      ELSE IF b[1] >= 128 THEN 255 ELSE 0
    <3>1. CASE i > 8 - k
      BY <1>6, <3>1
    <3>2. CASE ~(i > 8 - k)
      <4>1. i \in 1 .. 8 - k
        BY <3>2
      <4> QED
        BY <1>6, <1>8, <3>2, <4>1 DEF Extended
    <3> QED
      BY <3>1, <3>2
  <2> QED
    BY <1>7, <2>1, <2>2
<1>9. ASSUME FitsUnsigned(v, k) PROVE ZeroExtend(b) = v
  <2>1. ZeroExtend(b) = [i \in 1 .. 8 |-> IF i <= 8 - k THEN 0
                                         ELSE b[i - (8 - k)]]
    BY <1>5 DEF ZeroExtend
  <2>2. ASSUME NEW i \in 1 .. 8
        PROVE  v[i] = IF i <= 8 - k THEN 0 ELSE b[i - (8 - k)]
    BY <1>6, <1>9 DEF FitsUnsigned
  <2> QED
    BY <1>7, <2>1, <2>2
<1> QED
  BY <1>1, <1>8, <1>9

(* A number that fits a narrow format fits every wider one.                *)
LEMMA Widening ==
    ASSUME NEW v \in Word, NEW j \in 1 .. 8, NEW k \in j .. 8
    PROVE  /\ FitsUnsigned(v, j) => FitsUnsigned(v, k)
           /\ Extended(v, j) => Extended(v, k)
           /\ FitsNegative(v, j) => Extended(v, j) /\ Negative(v)
           /\ FitsUnsigned(v, j) /\ v[9 - j] <= 127
              => Extended(v, j) /\ ~Negative(v)
           /\ FitsUnsigned(v, j) /\ j < k
              => Extended(v, k) /\ ~Negative(v)
<1>1. \A i \in 1 .. 8 : v[i] \in 0 .. 255
  BY DEF Word, Byte
<1>2. \A i \in 1 .. 8 - k : i \in 1 .. 8 - j
  OBVIOUS
<1>3. 9 - j \in 1 .. 8 /\ 9 - k \in 1 .. 8 /\ 1 \in 1 .. 8
  OBVIOUS
<1>4. FitsUnsigned(v, j) => FitsUnsigned(v, k)
  BY <1>2 DEF FitsUnsigned
<1>5. Extended(v, j) => Extended(v, k)
  <2> SUFFICES ASSUME Extended(v, j), NEW i \in 1 .. 8 - k
               PROVE  v[i] = IF v[9 - k] >= 128 THEN 255 ELSE 0
    BY DEF Extended
  <2>1. v[i] = IF v[9 - j] >= 128 THEN 255 ELSE 0
    BY <1>2 DEF Extended
  <2>2. v[9 - k] >= 128 <=> v[9 - j] >= 128
    <3>1. CASE j = k
      BY <3>1
    <3>2. CASE j < k
      <4>1. 9 - k \in 1 .. 8 - j
        BY <3>2
      <4>2. v[9 - k] = IF v[9 - j] >= 128 THEN 255 ELSE 0
        BY <4>1 DEF Extended
      <4> QED
        BY <4>2
    <3> QED
      BY <3>1, <3>2
  <2> QED
    BY <2>1, <2>2
<1>6. FitsNegative(v, j) => Extended(v, j) /\ Negative(v)
  <2>1. FitsNegative(v, j) => Extended(v, j)
    BY DEF FitsNegative, Extended
  <2>2. FitsNegative(v, j) => Negative(v)
    <3>1. CASE j = 8
      BY <3>1 DEF FitsNegative, Negative
    <3>2. CASE j < 8
      <4>1. 1 \in 1 .. 8 - j
        BY <3>2
      <4> QED
        BY <4>1 DEF FitsNegative, Negative
    <3> QED
      BY <3>1, <3>2
  <2> QED
    BY <2>1, <2>2
<1>7. FitsUnsigned(v, j) /\ v[9 - j] <= 127 => Extended(v, j) /\ ~Negative(v)
  <2> SUFFICES ASSUME FitsUnsigned(v, j), v[9 - j] <= 127
               PROVE  Extended(v, j) /\ ~Negative(v)
    OBVIOUS
  <2>1. ~(v[9 - j] >= 128)
    <3>1. PICK c \in 0 .. 255 : c = v[9 - j]
      BY <1>1, <1>3
    <3> QED
      BY <3>1
  <2>2. Extended(v, j)
    BY <2>1 DEF FitsUnsigned, Extended
  <2>3. ~Negative(v)
    <3>1. CASE j = 8
      BY <2>1, <3>1 DEF Negative
    <3>2. CASE j < 8
      <4>1. 1 \in 1 .. 8 - j
        BY <3>2
      <4> QED
        BY <4>1 DEF FitsUnsigned, Negative
    <3> QED
      BY <3>1, <3>2
  <2> QED
    BY <2>2, <2>3
<1>8. FitsUnsigned(v, j) /\ j < k => Extended(v, k) /\ ~Negative(v)
  <2> SUFFICES ASSUME FitsUnsigned(v, j), j < k
               PROVE  Extended(v, k) /\ ~Negative(v)
    OBVIOUS
  <2>1. 9 - k \in 1 .. 8 - j /\ 1 \in 1 .. 8 - j
    OBVIOUS
  <2>2. v[9 - k] = 0 /\ v[1] = 0
    BY <2>1 DEF FitsUnsigned
  <2>3. \A i \in 1 .. 8 - k : v[i] = 0
    BY <1>4 DEF FitsUnsigned
  <2> QED
    BY <2>2, <2>3 DEF Extended, Negative
<1> QED
  BY <1>4, <1>5, <1>6, <1>7, <1>8

(* How far a decoded number may be cut, by its format.                     *)
LEMMA NumberFormats ==
    ASSUME NEW o, Sound(o), NEW v, v = o.as
    PROVE  /\ o.type \in {"POSITIVE_FIXNUM", "NEGATIVE_FIXNUM", "SINT8"}
              => \A k \in 1 .. 8 : Extended(v, k)
           /\ o.type = "SINT16" => \A k \in 2 .. 8 : Extended(v, k)
           /\ o.type = "SINT32" => \A k \in 4 .. 8 : Extended(v, k)
           /\ o.type = "SINT64" => Extended(v, 8)
           /\ o.type \in {"POSITIVE_FIXNUM", "UINT8"}
              => \A k \in 1 .. 8 : FitsUnsigned(v, k)
           /\ o.type = "UINT16" => \A k \in 2 .. 8 : FitsUnsigned(v, k)
           /\ o.type = "UINT32" => \A k \in 4 .. 8 : FitsUnsigned(v, k)
           /\ o.type = "UINT64" => FitsUnsigned(v, 8)
           /\ o.type = "POSITIVE_FIXNUM" => ~Negative(v)
<1>1. v \in Word
  BY DEF Sound
<1>2. /\ Width["SINT8"] = 1 /\ Width["SINT16"] = 2 /\ Width["SINT32"] = 4
      /\ Width["SINT64"] = 8 /\ Width["UINT8"] = 1 /\ Width["UINT16"] = 2
      /\ Width["UINT32"] = 4 /\ Width["UINT64"] = 8
  BY DEF Width
<1>3. /\ \A t \in {"SINT8", "SINT16", "SINT32", "SINT64"} : t \in Signed
      /\ \A t \in {"UINT8", "UINT16", "UINT32", "UINT64"} :
            t \in Numbered \ Signed
  BY DEF Signed, Numbered
<1>4. /\ o.type = "POSITIVE_FIXNUM" => FitsUnsigned(v, 1) /\ v[9 - 1] <= 127
      /\ o.type = "NEGATIVE_FIXNUM" => FitsNegative(v, 1)
      /\ o.type \in Signed => Extended(v, Width[o.type])
      /\ o.type \in Numbered \ Signed => FitsUnsigned(v, Width[o.type])
  BY DEF Sound
<1>5. \A k \in 1 .. 8 : /\ FitsUnsigned(v, 1) => FitsUnsigned(v, k)
                        /\ Extended(v, 1) => Extended(v, k)
  BY <1>1, Widening
<1>6. \A k \in 2 .. 8 : /\ FitsUnsigned(v, 2) => FitsUnsigned(v, k)
                        /\ Extended(v, 2) => Extended(v, k)
  BY <1>1, Widening
<1>7. \A k \in 4 .. 8 : /\ FitsUnsigned(v, 4) => FitsUnsigned(v, k)
                        /\ Extended(v, 4) => Extended(v, k)
  BY <1>1, Widening
<1>8. /\ FitsNegative(v, 1) => Extended(v, 1)
      /\ FitsUnsigned(v, 1) /\ v[9 - 1] <= 127
         => Extended(v, 1) /\ ~Negative(v)
  <2>1. 1 \in 1 .. 8
    OBVIOUS
  <2> QED
    BY <1>1, <2>1, Widening
<1>9. CASE o.type = "POSITIVE_FIXNUM"
  BY <1>4, <1>5, <1>8, <1>9
<1>10. CASE o.type = "NEGATIVE_FIXNUM"
  BY <1>4, <1>5, <1>8, <1>10
<1>11. CASE o.type = "SINT8"
  BY <1>2, <1>3, <1>4, <1>5, <1>11
<1>12. CASE o.type = "SINT16"
  BY <1>2, <1>3, <1>4, <1>6, <1>12
<1>13. CASE o.type = "SINT32"
  BY <1>2, <1>3, <1>4, <1>7, <1>13
<1>14. CASE o.type = "SINT64"
  BY <1>2, <1>3, <1>4, <1>14
<1>15. CASE o.type = "UINT8"
  BY <1>2, <1>3, <1>4, <1>5, <1>15
<1>16. CASE o.type = "UINT16"
  BY <1>2, <1>3, <1>4, <1>6, <1>16
<1>17. CASE o.type = "UINT32"
  BY <1>2, <1>3, <1>4, <1>7, <1>17
<1>18. CASE o.type = "UINT64"
  BY <1>2, <1>3, <1>4, <1>18
<1> QED
  BY <1>9, <1>10, <1>11, <1>12, <1>13, <1>14, <1>15, <1>16, <1>17, <1>18

(* An unsigned number of k bytes below the sign bit of those, or in a      *)
(* wider type, keeps its sign.                                             *)
LEMMA UnsignedAsSigned ==
    ASSUME NEW o, Sound(o), NEW v, v = o.as
    PROVE  /\ o.type = "UINT8" =>
                 /\ v[8] <= 127 => Extended(v, 1) /\ ~Negative(v)
                 /\ \A k \in {2, 4, 8} : Extended(v, k) /\ ~Negative(v)
           /\ o.type = "UINT16" =>
                 /\ v[7] <= 127 => Extended(v, 2) /\ ~Negative(v)
                 /\ \A k \in {4, 8} : Extended(v, k) /\ ~Negative(v)
           /\ o.type = "UINT32" =>
                 /\ v[5] <= 127 => Extended(v, 4) /\ ~Negative(v)
                 /\ Extended(v, 8) /\ ~Negative(v)
           /\ o.type = "UINT64" /\ v[1] <= 127 =>
                 Extended(v, 8) /\ ~Negative(v)
<1>1. v \in Word
  BY DEF Sound
<1>2. /\ o.type = "UINT8" => FitsUnsigned(v, 1)
      /\ o.type = "UINT16" => FitsUnsigned(v, 2)
      /\ o.type = "UINT32" => FitsUnsigned(v, 4)
      /\ o.type = "UINT64" => FitsUnsigned(v, 8)
  BY NumberFormats
<1>3. \A j \in {1, 2, 4, 8} :
         FitsUnsigned(v, j) /\ v[9 - j] <= 127 =>
            Extended(v, j) /\ ~Negative(v)
  <2> SUFFICES ASSUME NEW j \in {1, 2, 4, 8}
               PROVE  FitsUnsigned(v, j) /\ v[9 - j] <= 127
                      => Extended(v, j) /\ ~Negative(v)
    OBVIOUS
  <2>1. j \in 1 .. 8 /\ j \in j .. 8
    OBVIOUS
  <2> QED
    BY <1>1, <2>1, Widening
<1>4. \A j \in {1, 2, 4, 8}, k \in {1, 2, 4, 8} :
         FitsUnsigned(v, j) /\ j < k => Extended(v, k) /\ ~Negative(v)
  <2> SUFFICES ASSUME NEW j \in {1, 2, 4, 8}, NEW k \in {1, 2, 4, 8}, j < k
               PROVE  FitsUnsigned(v, j) => Extended(v, k) /\ ~Negative(v)
    OBVIOUS
  <2>1. j \in 1 .. 8 /\ k \in j .. 8
    OBVIOUS
  <2> QED
    BY <1>1, <2>1, Widening
<1>5. CASE o.type = "UINT8"
  BY <1>2, <1>3, <1>4, <1>5
<1>6. CASE o.type = "UINT16"
  BY <1>2, <1>3, <1>4, <1>6
<1>7. CASE o.type = "UINT32"
  BY <1>2, <1>3, <1>4, <1>7
<1>8. CASE o.type = "UINT64"
  BY <1>2, <1>3, <1>8
<1> QED
  BY <1>5, <1>6, <1>7, <1>8

(* What the typed readers of integers take.                                *)
LEMMA TakesSigned ==
    ASSUME NEW o
    PROVE  \A a \in DOMAIN SignedReader : ObjectAsSigned(a, o) <=> Takes(a, o)
<1>1. DOMAIN SignedReader = {"char", "short", "int", "long"}
  BY DEF SignedReader
<1>2. /\ SignedReader["char"] = SignedBase
      /\ SignedReader["short"] = SignedBase \cup {"UINT8", "SINT16"}
      /\ SignedReader["int"] = SignedBase \cup {"UINT8", "SINT16", "UINT16",
                                                "SINT32"}
      /\ SignedReader["long"] = SignedBase \cup {"UINT8", "SINT16", "UINT16",
                                                 "SINT32", "UINT32", "SINT64"}
  BY DEF SignedReader
<1>3. /\ SignedLimit["char"] = "UINT8" /\ SignedLimit["short"] = "UINT16"
      /\ SignedLimit["int"] = "UINT32" /\ SignedLimit["long"] = "UINT64"
  BY DEF SignedLimit
<1>4. /\ InRange("UINT8", o.as) <=> o.as[8] <= 127
      /\ InRange("UINT16", o.as) <=> o.as[7] <= 127
      /\ InRange("UINT32", o.as) <=> o.as[5] <= 127
      /\ InRange("UINT64", o.as) <=> o.as[1] <= 127
  BY DEF InRange, Width
<1>5. \A a \in {"char", "short", "int", "long"} :
         Takes(a, o) <=> \/ o.type \in SignedReader[a]
                         \/ o.type = SignedLimit[a] /\ InRange(o.type, o.as)
  <2>1. \A a \in {"char", "short", "int", "long"} :
           /\ a \notin DOMAIN ExactReader
           /\ a \notin DOMAIN ExactUnsignedReader
           /\ a \notin DOMAIN UnsignedReader /\ a \notin DOMAIN RealReader
           /\ a \notin DOMAIN SizeReader /\ a \notin DOMAIN ExtReader
    BY DEF ExactReader, ExactUnsignedReader, UnsignedReader, RealReader,
           SizeReader, ExtReader
  <2> QED
    BY <1>1, <2>1 DEF Takes
<1>6. ASSUME NEW a \in {"char", "short", "int", "long"}
      PROVE  ObjectAsSigned(a, o) <=> Takes(a, o)
  <2>1. CASE a = "char"
    BY <1>2, <1>3, <1>4, <1>5, <2>1 DEF ObjectAsSigned
  <2>2. CASE a = "short"
    BY <1>2, <1>3, <1>4, <1>5, <2>2 DEF ObjectAsSigned
  <2>3. CASE a = "int"
    BY <1>2, <1>3, <1>4, <1>5, <2>3 DEF ObjectAsSigned
  <2>4. CASE a = "long"
    BY <1>2, <1>3, <1>4, <1>5, <2>4 DEF ObjectAsSigned
  <2> QED
    BY <2>1, <2>2, <2>3, <2>4
<1> QED
  BY <1>1, <1>6

(* Unsigned accessors and typed readers take the same types.               *)
LEMMA TakesUnsigned ==
    ASSUME NEW o
    PROVE  \A a \in DOMAIN UnsignedReader :
              ObjectAsUnsigned(a, o) <=> Takes(a, o)
<1>1. DOMAIN UnsignedReader = {"uchar", "ushort", "uint", "ulong"}
  BY DEF UnsignedReader
<1>2. \A a \in {"uchar", "ushort", "uint", "ulong"} :
         Takes(a, o) <=> o.type \in UnsignedReader[a]
  <2>1. \A a \in {"uchar", "ushort", "uint", "ulong"} :
           /\ a \notin DOMAIN ExactReader
           /\ a \notin DOMAIN ExactUnsignedReader
           /\ a \notin DOMAIN SignedReader /\ a \notin DOMAIN RealReader
           /\ a \notin DOMAIN SizeReader /\ a \notin DOMAIN ExtReader
    BY DEF ExactReader, ExactUnsignedReader, SignedReader, RealReader,
           SizeReader, ExtReader
  <2> QED
    BY <1>1, <2>1 DEF Takes
<1>3. /\ UnsignedReader["uchar"] = UnsignedBase
      /\ UnsignedReader["ushort"] = UnsignedBase \cup {"UINT16"}
      /\ UnsignedReader["uint"] = UnsignedBase \cup {"UINT16", "UINT32"}
      /\ UnsignedReader["ulong"] = UnsignedBase \cup {"UINT16", "UINT32",
                                                      "UINT64"}
  BY DEF UnsignedReader
<1> QED
  BY <1>1, <1>2, <1>3 DEF ObjectAsUnsigned, UnsignedBase

(* A signed accessor hands out all of the number.                          *)
LEMMA SignedAccessors ==
    ASSUME NEW o, Sound(o), NEW a \in DOMAIN SignedReader,
           ObjectAsSigned(a, o)
    PROVE  /\ SignExtend(Low(o.as, Bytewide[a])) = o.as
           /\ o.type \in Signed \/ ~Negative(o.as)
              \/ o.type = "NEGATIVE_FIXNUM"
<1>1. a \in {"char", "short", "int", "long"}
  BY DEF SignedReader
<1>2. /\ Bytewide["char"] = 1 /\ Bytewide["short"] = 2 /\ Bytewide["int"] = 4
      /\ Bytewide["long"] = 8
  BY DEF Bytewide
<1>3. PICK v \in Word : v = o.as
  BY DEF Sound
<1>4. Signed = {"SINT8", "SINT16", "SINT32", "SINT64"}
      /\ SignedBase = {"POSITIVE_FIXNUM", "NEGATIVE_FIXNUM", "SINT8"}
  BY DEF Signed, SignedBase
<1>5. /\ o.type \in SignedBase => \A k \in 1 .. 8 : Extended(v, k)
      /\ o.type = "SINT16" => \A k \in 2 .. 8 : Extended(v, k)
      /\ o.type = "SINT32" => \A k \in 4 .. 8 : Extended(v, k)
      /\ o.type = "SINT64" => Extended(v, 8)
      /\ o.type = "POSITIVE_FIXNUM" => ~Negative(v)
  BY <1>3, <1>4, NumberFormats
<1>6. /\ o.type = "UINT8" =>
            /\ v[8] <= 127 => Extended(v, 1) /\ ~Negative(v)
            /\ \A k \in {2, 4, 8} : Extended(v, k) /\ ~Negative(v)
      /\ o.type = "UINT16" =>
            /\ v[7] <= 127 => Extended(v, 2) /\ ~Negative(v)
            /\ \A k \in {4, 8} : Extended(v, k) /\ ~Negative(v)
      /\ o.type = "UINT32" =>
            /\ v[5] <= 127 => Extended(v, 4) /\ ~Negative(v)
            /\ Extended(v, 8) /\ ~Negative(v)
      /\ o.type = "UINT64" /\ v[1] <= 127 =>
            Extended(v, 8) /\ ~Negative(v)
  BY <1>3, UnsignedAsSigned
<1>7. Extended(v, Bytewide[a])
  <2>1. CASE a = "char"
    BY <1>2, <1>3, <1>5, <1>6, <2>1 DEF ObjectAsSigned
  <2>2. CASE a = "short"
    BY <1>2, <1>3, <1>5, <1>6, <2>2 DEF ObjectAsSigned
  <2>3. CASE a = "int"
    BY <1>2, <1>3, <1>5, <1>6, <2>3 DEF ObjectAsSigned
  <2>4. CASE a = "long"
    BY <1>2, <1>3, <1>5, <1>6, <2>4 DEF ObjectAsSigned
  <2> QED
    BY <1>1, <2>1, <2>2, <2>3, <2>4
<1>8. o.type \in Signed \/ ~Negative(v) \/ o.type = "NEGATIVE_FIXNUM"
  <2>1. \/ o.type \in SignedBase
        \/ o.type \in {"SINT16", "SINT32", "SINT64"}
        \/ o.type = "UINT8" /\ (a = "char" => v[8] <= 127)
        \/ o.type = "UINT16" /\ a # "char" /\ (a = "short" => v[7] <= 127)
        \/ o.type = "UINT32"
           /\ a \notin {"char", "short"} /\ (a = "int" => v[5] <= 127)
        \/ o.type = "UINT64" /\ v[1] <= 127
    BY <1>1, <1>3 DEF ObjectAsSigned
  <2> QED
    BY <1>1, <1>4, <1>5, <1>6, <2>1
<1>9. Bytewide[a] \in 1 .. 8
  BY <1>1, <1>2
<1> QED
  BY <1>3, <1>7, <1>8, <1>9, ExtendLow

(* An unsigned accessor hands out all of the number.                       *)
LEMMA UnsignedAccessors ==
    ASSUME NEW o, Sound(o), NEW a \in DOMAIN UnsignedReader,
           ObjectAsUnsigned(a, o)
    PROVE  ZeroExtend(Low(o.as, Bytewide[a])) = o.as
<1>1. a \in {"uchar", "ushort", "uint", "ulong"}
  BY DEF UnsignedReader
<1>2. /\ Bytewide["uchar"] = 1 /\ Bytewide["ushort"] = 2
      /\ Bytewide["uint"] = 4 /\ Bytewide["ulong"] = 8
  BY DEF Bytewide
<1>3. PICK v \in Word : v = o.as
  BY DEF Sound
<1>4. /\ o.type \in {"POSITIVE_FIXNUM", "UINT8"}
         => \A k \in 1 .. 8 : FitsUnsigned(v, k)
      /\ o.type = "UINT16" => \A k \in 2 .. 8 : FitsUnsigned(v, k)
      /\ o.type = "UINT32" => \A k \in 4 .. 8 : FitsUnsigned(v, k)
      /\ o.type = "UINT64" => FitsUnsigned(v, 8)
  BY <1>3, NumberFormats
<1>5. FitsUnsigned(v, Bytewide[a])
  <2>1. CASE a = "uchar"
    BY <1>2, <1>3, <1>4, <2>1 DEF ObjectAsUnsigned
  <2>2. CASE a = "ushort"
    BY <1>2, <1>3, <1>4, <2>2 DEF ObjectAsUnsigned
  <2>3. CASE a = "uint"
    BY <1>2, <1>3, <1>4, <2>3 DEF ObjectAsUnsigned
  <2>4. CASE a = "ulong"
    BY <1>2, <1>3, <1>4, <2>4 DEF ObjectAsUnsigned
  <2> QED
    BY <1>1, <2>1, <2>2, <2>3, <2>4
<1>6. Bytewide[a] \in 1 .. 8
  BY <1>1, <1>2
<1> QED
  BY <1>3, <1>5, <1>6, ExtendLow

(* A test cmp_object_is_* announces no more than the accessor hands out.   *)
LEMMA TestsAndAccessors ==
    ASSUME NEW o
    PROVE  /\ \A a \in DOMAIN SignedReader :
                 o.type \in ObjectIsNumber[a] => ObjectAsSigned(a, o)
           /\ \A a \in DOMAIN UnsignedReader :
                 o.type \in ObjectIsNumber[a] => ObjectAsUnsigned(a, o)
           /\ \A a \in DOMAIN ObjectIsOther :
                 o.type \in ObjectIsOther[a] <=> ObjectAsOther(a, o)
<1>1. /\ DOMAIN SignedReader = {"char", "short", "int", "long"}
      /\ DOMAIN UnsignedReader = {"uchar", "ushort", "uint", "ulong"}
      /\ DOMAIN ObjectIsOther = {"float", "double", "bool", "str", "bin",
                                 "array", "map", "ext"}
  BY DEF SignedReader, UnsignedReader, ObjectIsOther
<1>2. \A a \in {"char", "short", "int", "long"} :
         o.type \in ObjectIsNumber[a] => ObjectAsSigned(a, o)
  BY DEF ObjectIsNumber, ObjectAsSigned, SignedBase
<1>3. \A a \in {"uchar", "ushort", "uint", "ulong"} :
         o.type \in ObjectIsNumber[a] => ObjectAsUnsigned(a, o)
  BY DEF ObjectIsNumber, ObjectAsUnsigned
<1>4. DOMAIN FixExtSize = {"FIXEXT1", "FIXEXT2", "FIXEXT4", "FIXEXT8",
                           "FIXEXT16"}
  BY DEF FixExtSize
<1>5. \A a \in {"float", "double", "bool", "str", "bin", "array", "map",
                "ext"} :
         o.type \in ObjectIsOther[a] <=> ObjectAsOther(a, o)
  BY <1>4 DEF ObjectIsOther, ObjectAsOther
<1> QED
  BY <1>1, <1>2, <1>3, <1>5
-----------------------------------------------------------------------------
(* Decoding, whatever the bytes.                                           *)

(* The inductive invariant: what is read is a byte string, and a display   *)
(* message is never taken for an object.                                   *)
DecodeInv ==
    /\ step \in {"write", "send"} => req.op \notin {"object", "raw"}
    /\ step = "read" /\ req.op \in {"object", "raw"} => wire \in Seq(Byte)
    /\ ReadsInBounds
    /\ AccessorsExact

(* What arrives of a byte string that is cut is a byte string.             *)
LEMMA CutBytes ==
    ASSUME NEW b \in Seq(Byte), NEW n \in Nat, n <= Len(b)
    PROVE  /\ Cut(b, n) \in Seq(Byte) /\ Len(Cut(b, n)) = Len(b) - n
           /\ \A i \in 1 .. Len(b) - n : Cut(b, n)[i] = b[i]
<1>0. Len(b) \in Nat
  BY LenProperties
<1>1. PICK k \in Int : k = Len(b) - n /\ 0 <= k /\ k <= Len(b)
  BY <1>0
<1>2. \A i \in 1 .. k : b[i] \in Byte
  BY <1>1, ElementOfSeq, LenProperties
<1>3. PICK c : c = Cut(b, n) /\ c = SubSeq(b, 1, k)
  BY <1>1 DEF Cut
<1>4. /\ c \in Seq(Byte) /\ Len(c) = IF 1 <= k THEN k - 1 + 1 ELSE 0
      /\ \A i \in 1 .. k - 1 + 1 : c[i] = b[1 + i - 1]
  BY <1>2, <1>3, SubSeqProperties
<1>5. Len(c) = k /\ \A i \in 1 .. k : c[i] = b[i]
  BY <1>1, <1>4
<1> QED
  BY <1>1, <1>3, <1>4, <1>5

(* A read of an object keeps DecodeInv.                                    *)
LEMMA ReadObjectStep ==
    ASSUME DecodeInv, ReadObject PROVE DecodeInv'
<1>1. PICK r \in Readers \cup {"object"}, n \in 0 .. MaxCut :
         /\ n <= Len(wire)
         /\ wire' = Cut(wire, n)
         /\ got' = [ok |-> TRUE, reader |-> r, cut |-> n,
                    result |-> IF r = "object" THEN cmp_read_object(wire', 0)
                               ELSE cmp_read(r, wire', 0)]
  BY DEF ReadObject
<1>2. wire \in Seq(Byte) /\ n \in Nat
  BY WireAssumption DEF DecodeInv, ReadObject
<1>3. PICK b \in Seq(Byte) : b = wire'
  BY <1>1, <1>2, CutBytes
<1>4. PICK res : res = IF r = "object" THEN cmp_read_object(b, 0)
                       ELSE cmp_read(r, b, 0)
  OBVIOUS
<1>5. 0 \in 0 .. Len(b) /\ Len(b) \in Nat
  BY LenProperties
<1>6. InBounds(res, b)
  BY <1>4, <1>5, ObjectRead, TypedRead
<1>7. got'.reader = r /\ got'.result = res
  BY <1>1, <1>3, <1>4
<1>8. r \notin {"str", "bin"}
  BY DEF Readers, ExactReader, ExactUnsignedReader, SignedReader,
         UnsignedReader, RealReader, SizeReader, ExtReader
<1>9. step' = "done"
  BY DEF ReadObject
<1>10. ReadsInBounds'
  <2>1. res.pos <= Len(wire')
    BY <1>3, <1>5, <1>6 DEF InBounds
  <2> QED
    BY <1>7, <1>8, <2>1 DEF ReadsInBounds
<1>11. AccessorsExact'
  <2>1. PICK o : o = res.obj
    OBVIOUS
  <2>2. res.ok => Sound(o)
    BY <1>6, <2>1 DEF InBounds
  <2> QED
    BY <1>7, <2>1, <2>2, SignedAccessors, UnsignedAccessors, TakesSigned,
       TakesUnsigned, TestsAndAccessors DEF AccessorsExact
<1> QED
  BY <1>9, <1>10, <1>11 DEF DecodeInv

(* A read of a string, binary data or an extension keeps DecodeInv.        *)
LEMMA ReadDataStep ==
    ASSUME DecodeInv, ReadData PROVE DecodeInv'
<1>1. PICK r \in {"str", "bin", "ext"}, n \in 0 .. MaxCut, room \in Rooms :
         LET o == cmp_read_object(wire', 0) IN
         /\ n <= Len(wire)
         /\ wire' = Cut(wire, n)
         /\ got' = [ok |-> TRUE, reader |-> r, cut |-> n, room |-> room,
                    result |-> DataReader(r, wire', room),
                    later |-> IF r = "ext" \/ ~o.ok THEN o
                              ELSE cmp_object_to(r, o, wire', room)]
  BY DEF ReadData
<1>2. wire \in Seq(Byte) /\ n \in Nat /\ room \in Nat
  BY WireAssumption DEF DecodeInv, ReadData
<1>3. PICK b \in Seq(Byte) : b = wire'
  BY <1>1, <1>2, CutBytes
<1>4. PICK o : o = cmp_read_object(b, 0)
  OBVIOUS
<1>5. 0 \in 0 .. Len(b) /\ Len(b) \in Nat
  BY LenProperties
<1>6. PICK res : res = DataReader(r, b, room)
  OBVIOUS
<1>7. PICK later : later = IF r = "ext" \/ ~o.ok THEN o
                           ELSE cmp_object_to(r, o, b, room)
  OBVIOUS
<1>8. /\ got'.reader = r /\ got'.result = res /\ got'.later = later
      /\ got'.room = room
  BY <1>1, <1>3, <1>4, <1>6, <1>7
<1>9. step' = "done"
  BY DEF ReadData
<1>10. AccessorsExact'
  BY <1>8 DEF AccessorsExact
<1>11. CASE r = "ext"
  <2>1. InBounds(res, b)
    BY <1>5, <1>6, <1>11, ExtRead DEF DataReader
  <2>2. res.pos <= Len(wire')
    BY <1>3, <1>5, <2>1 DEF InBounds
  <2>3. ReadsInBounds'
    BY <1>8, <1>11, <2>2 DEF ReadsInBounds
  <2> QED
    BY <1>9, <1>10, <2>3 DEF DecodeInv
<1>12. CASE r \in {"str", "bin"}
  <2>1. res = IF r = "str" THEN cmp_read_str(b, 0, room)
              ELSE cmp_read_bin(b, 0, room)
    BY <1>6, <1>12 DEF DataReader
  <2>2. later = IF ~o.ok THEN o ELSE cmp_object_to(r, o, b, room)
    BY <1>7, <1>12
  <2>3. /\ InBounds(res, b)
        /\ res.ok =>
              \/ r = "str" /\ Wraps(res.obj.as)
              \/ SizeOf(res.obj.as) + (IF r = "str" THEN 1 ELSE 0) <= room
        /\ res.ok <=> later.ok
        /\ res.ok => res.pos = later.pos
    BY <1>2, <1>4, <1>5, <1>12, <2>1, <2>2, DataRead
  <2>4. res.pos <= Len(wire')
    BY <1>3, <1>5, <2>3 DEF InBounds
  <2>5. ReadsInBounds'
    BY <1>8, <2>3, <2>4 DEF ReadsInBounds
  <2> QED
    BY <1>9, <1>10, <2>5 DEF DecodeInv
<1> QED
  BY <1>11, <1>12

(* DecodeInv is inductive: one step per action.                            *)
LEMMA DecodeAlways == Spec => []DecodeInv
<1>1. Init => DecodeInv
  BY DEF Init, DecodeInv, ReadsInBounds, AccessorsExact, Decoded
<1>2. DecodeInv /\ [Next]_vars => DecodeInv'
  <2> SUFFICES ASSUME DecodeInv, [Next]_vars PROVE DecodeInv'
    OBVIOUS
  <2>0. ASSUME step' # "done" \/ req'.op \notin {"object", "raw"},
               step' \in {"write", "send"} => req'.op \notin {"object", "raw"},
               step' = "read" /\ req'.op \in {"object", "raw"}
                  => wire' \in Seq(Byte)
        PROVE  DecodeInv'
    BY <2>0 DEF DecodeInv, ReadsInBounds, AccessorsExact, Decoded
  <2>1. CASE WriteObject
    <3>1. PICK r \in Objects, room \in Rooms :
             wire' = Outcome(Writer(r), room).bytes
      BY <2>1 DEF WriteObject
    <3>2. wire' \in Seq(Byte)
      BY <3>1, WireAssumption, WriterWrites, OutcomeBytes
    <3> QED
      BY <2>0, <2>1, <3>2 DEF WriteObject
  <2>2. CASE ReceiveObject
    <3>1. wire' \in Seq(Byte) /\ step' = "read"
      BY <2>2, WireAssumption DEF ReceiveObject
    <3> QED
      BY <2>0, <3>1
  <2>3. CASE ReadObject
    BY <2>3, ReadObjectStep
  <2>4. CASE ReadData
    BY <2>4, ReadDataStep
  <2>5. CASE mux_write_outgoing_msg
    <3>1. step' = "write" /\ req'.op \in {"update", "switch", "shutdown"}
      BY <2>5 DEF mux_write_outgoing_msg
    <3> QED
      BY <2>0, <3>1
  <2>6. CASE mux_msg_writer
    <3>1. step' = "write" /\ req' = req /\ step = "write"
      BY <2>6 DEF mux_msg_writer
    <3> QED
      BY <2>0, <3>1 DEF DecodeInv
  <2>7. CASE mux_0mq_send_msg
    <3>1. step' = "send" /\ req' = req /\ step = "write"
      BY <2>7 DEF mux_0mq_send_msg
    <3> QED
      BY <2>0, <3>1 DEF DecodeInv
  <2>8. CASE ServerUnpacks
    <3>1. step' = "done" /\ req' = req /\ step = "send"
      BY <2>8 DEF ServerUnpacks
    <3> QED
      BY <2>0, <3>1 DEF DecodeInv
  <2>9. CASE ServerPacks
    <3>1. step' = "read" /\ req'.op = "event"
      BY <2>9 DEF ServerPacks
    <3> QED
      BY <2>0, <3>1
  <2>10. CASE mux_process_incoming_msg
    <3>1. step' = "done" /\ req' = req /\ req.op = "event"
      BY <2>10 DEF mux_process_incoming_msg
    <3> QED
      BY <2>0, <3>1
  <2>11. CASE Return
    <3>1. step' = "idle"
      BY <2>11 DEF Return
    <3> QED
      BY <2>0, <3>1
  <2>12. CASE UNCHANGED vars
    BY <2>12 DEF vars, DecodeInv, ReadsInBounds, AccessorsExact, Decoded
  <2> QED
    BY <2>1, <2>2, <2>3, <2>4, <2>5, <2>6, <2>7, <2>8, <2>9, <2>10, <2>11,
       <2>12 DEF Next
<1> QED
  BY <1>1, <1>2, PTL DEF Spec

(* No reader of c-msgpack.c takes a byte from beyond what it was given,    *)
(* for every string of bytes, wherever it is cut and on a host of either   *)
(* byte order; strings and binary data fit the caller's buffer, whatever   *)
(* its size, and reading them in two steps comes to the same end.          *)
THEOREM NoReadOutOfBounds == Spec => []ReadsInBounds
<1>1. DecodeInv => ReadsInBounds
  BY DEF DecodeInv
<1> QED
  BY <1>1, DecodeAlways, PTL

(* A number that an accessor of a decoded object hands out is the number   *)
(* that was received, neither cut nor with another sign, for every string  *)
(* of bytes; accessors, tests and typed readers agree.                     *)
THEOREM NumbersAreExact == Spec => []AccessorsExact
<1>1. DecodeInv => AccessorsExact
  BY DEF DecodeInv
<1> QED
  BY <1>1, DecodeAlways, PTL
=============================================================================

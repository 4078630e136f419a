----------------------------- MODULE WireCodec -----------------------------
(***************************************************************************)
(* What travels between a hypervisor and the server, as bytes.             *)
(*                                                                         *)
(* One codec at work: an object is written through the API of cmp and read *)
(* back, perhaps cut short; a display message is written by                *)
(* lib/src/msgpack.c into its growing buffer, one ctx->write at a time,    *)
(* and unpacked by the server; an input event is packed by the server and  *)
(* taken apart by mux_process_incoming_msg.                                *)
(***************************************************************************)
EXTENDS CmpRead

CONSTANTS
    Objects,      \* requests to the writers of cmp
    RawObjects,   \* byte strings given to cmp_read_object
    Updates,      \* boxes <<x1, y1, x2, y2>> of display updates
    Switches,     \* surfaces <<format, w, h>> of display switches
    Events,       \* input events of RDP clients
    InitialSize,  \* malloc_usable_size of the first buffer
    Rooms,        \* bytes that fit a client's own buffer
    Fillers,      \* what the unused end of the buffer may hold
    MaxCut        \* bytes that may be missing at the end of what is read

(* What the C types of the writers of cmp admit: an integer, the bits of a *)
(* number with a fraction, a size of 32 bits, alone or with as many bytes  *)
(* of data, the type byte of an extension.                                 *)
Uint32 == {v \in Word : FitsUnsigned(v, 4)}
HasItsSize(r) == ~Exceeds(r.v, Len(r.data)) /\ Len(r.data) = SizeOf(r.v)

Requests ==
    [op : {"integer", "uinteger", "sfix", "nil", "bool"}, v : Word]
    \cup [op : {"decimal"},
          v : [exact : BOOLEAN, float : Word, double : Word]]
    \cup [op : {"array", "map", "str_marker", "str_marker_v4", "bin_marker"},
          v : Uint32]
    \cup {r \in [op : {"str", "str_v4", "bin"}, v : Uint32, data : Seq(Byte)] :
              HasItsSize(r)}
    \cup [op : {"ext_marker"}, x : Byte, v : Uint32]
    \cup {r \in [op : {"ext"}, x : Byte, v : Uint32, data : Seq(Byte)] :
              HasItsSize(r)}

(* The UINT16 arguments of rdpmux_mouse_event and rdpmux_keyboard_event.   *)
Uint16 == 0 .. 65535
InputEvents ==
    [dev : {"mouse"}, x : Uint16, y : Uint16, flags : Uint16]
    \cup [dev : {"keyboard"}, code : Uint16, flags : Uint16]

ASSUME WireAssumption ==
    /\ InitialSize \in Nat /\ InitialSize >= 8
    /\ MaxCut \in Nat
    /\ Fillers \subseteq Byte
    /\ Rooms \subseteq Nat
    /\ Objects \subseteq Requests
    /\ RawObjects \subseteq Seq(Byte)
    /\ Updates \subseteq [1 .. 4 -> Int]
    /\ Switches \subseteq [1 .. 3 -> Int]
    /\ Events \subseteq InputEvents

VARIABLES
    step,   \* "idle", "write", "send", "read", "done"
    req,    \* the request at work
    calls,  \* the calls of ctx->write still to be made
    msg,    \* nnStr: the bytes before pos, and size (0: buf is NULL)
    wire,   \* the bytes that the reader has
    got     \* what the reader made of them

vars == <<step, req, calls, msg, wire, got>>

NoRequest == [op |-> "none"]
Nothing == [ok |-> FALSE]

Init ==
    /\ step = "idle" /\ req = NoRequest
    /\ calls = <<>> /\ msg = [buf |-> <<>>, size |-> 0]
    /\ wire = <<>> /\ got = Nothing
-----------------------------------------------------------------------------
(* Objects through the API of cmp.  The client's own ctx->write takes its  *)
(* bytes until its room is used up.                                        *)

Writer(r) ==
    CASE r.op = "integer" -> cmp_write_integer(r.v)
      [] r.op = "uinteger" -> cmp_write_uinteger(r.v)
      [] r.op = "sfix" -> cmp_write_sfix(r.v[8])
      [] r.op = "decimal" -> cmp_write_decimal(r.v)
      [] r.op = "nil" -> cmp_write_nil
      [] r.op = "bool" -> cmp_write_bool(r.v[8])
      [] r.op = "array" -> cmp_write_array(r.v)
      [] r.op = "map" -> cmp_write_map(r.v)
      [] r.op = "str" -> cmp_write_str(r.v, r.data)
      [] r.op = "str_v4" -> cmp_write_str_v4(r.v, r.data)
      [] r.op = "str_marker" -> cmp_write_str_marker(r.v)
      [] r.op = "str_marker_v4" -> cmp_write_str_marker_v4(r.v)
      [] r.op = "bin" -> cmp_write_bin(r.v, r.data)
      [] r.op = "bin_marker" -> cmp_write_bin_marker(r.v)
      [] r.op = "ext" -> cmp_write_ext(r.x, r.v, r.data)
      [] r.op = "ext_marker" -> cmp_write_ext_marker(r.x, r.v)

(* The bytes of the first n calls.                                         *)
Written(w, n) ==
    LET f[i \in 0 .. n] == IF i = 0 THEN <<>> ELSE f[i - 1] \o w.calls[i].data
    IN  f[n]

(* A call fails for lack of room, and a write of nothing returns 0 as a    *)
(* failed one does.                                                        *)
Outcome(w, room) ==
    LET fails == {i \in DOMAIN w.calls : \/ w.calls[i].data = <<>>
                                         \/ Len(Written(w, i)) > room}
        first == CHOOSE i \in fails : \A j \in fails : i <= j
    IN  IF w.error # "NONE"
        THEN [ok |-> FALSE, bytes |-> <<>>, error |-> w.error]
        ELSE IF fails = {}
        THEN [ok |-> TRUE, bytes |-> Written(w, Len(w.calls)), error |-> "NONE"]
        ELSE [ok |-> FALSE, bytes |-> Written(w, first - 1),
              error |-> w.calls[first].error]

WriteObject ==
    /\ step = "idle"
    /\ \E r \in Objects, room \in Rooms :
          LET out == Outcome(Writer(r), room) IN
          /\ req' = [op |-> "object", of |-> r, wrote |-> out.ok,
                     error |-> out.error]
          /\ wire' = out.bytes
    /\ step' = "read"
    /\ UNCHANGED <<calls, msg, got>>

(* Bytes of another writer.                                                *)
ReceiveObject ==
    /\ step = "idle"
    /\ \E b \in RawObjects : wire' = b
    /\ req' = [op |-> "raw"]
    /\ step' = "read"
    /\ UNCHANGED <<calls, msg, got>>

(* The reader may have less than was written.                              *)
Cut(b, n) == SubSeq(b, 1, Len(b) - n)

ReadObject ==
    /\ step = "read" /\ req.op \in {"object", "raw"}
    /\ \E r \in Readers \cup {"object"}, n \in 0 .. MaxCut :
          /\ n <= Len(wire)
          /\ wire' = Cut(wire, n)
          /\ got' = [ok |-> TRUE, reader |-> r, cut |-> n,
                     result |-> IF r = "object" THEN cmp_read_object(wire', 0)
                                ELSE cmp_read(r, wire', 0)]
    /\ step' = "done"
    /\ UNCHANGED <<req, calls, msg>>

DataReader(r, b, room) ==
    CASE r = "str" -> cmp_read_str(b, 0, room)
      [] r = "bin" -> cmp_read_bin(b, 0, room)
      [] OTHER -> cmp_read_ext("ext_marker", b, 0)

(* The reader of the data, or the object first and its data after it.      *)
ReadData ==
    /\ step = "read" /\ req.op \in {"object", "raw"}
    /\ \E r \in {"str", "bin", "ext"}, n \in 0 .. MaxCut, room \in Rooms :
          LET o == cmp_read_object(wire', 0) IN
          /\ n <= Len(wire)
          /\ wire' = Cut(wire, n)
          /\ got' = [ok |-> TRUE, reader |-> r, cut |-> n, room |-> room,
                     result |-> DataReader(r, wire', room),
                     later |-> IF r = "ext" \/ ~o.ok THEN o
                               ELSE cmp_object_to(r, o, wire', room)]
    /\ step' = "done"
    /\ UNCHANGED <<req, calls, msg>>
-----------------------------------------------------------------------------
(* Display messages of the hypervisor.                                     *)

DISPLAY_UPDATE == 1
DISPLAY_SWITCH == 2
MOUSE == 3
KEYBOARD == 4
DISPLAY_UPDATE_COMPLETE == 5
SHUTDOWN == 6

(* An int as the uint64_t that cmp_write_uint takes.                       *)
IntWord(n) ==
    LET place == <<16777216, 65536, 256, 1>> IN
    [i \in 1 .. 8 |-> IF i > 4 THEN (n \div place[i - 4]) % 256
                      ELSE IF n < 0 THEN 255 ELSE 0]

cmp_write_uint(n) == cmp_write_uinteger(IntWord(n)).calls
ArrayOf(n) == cmp_write_array(Small(n)).calls

mux_write_outgoing_update_msg(u) ==
    ArrayOf(5) \o cmp_write_uint(DISPLAY_UPDATE)
    \o cmp_write_uint(u[1]) \o cmp_write_uint(u[2])
    \o cmp_write_uint(u[3] - u[1]) \o cmp_write_uint(u[4] - u[2])

mux_write_outgoing_switch_msg(u) ==
    ArrayOf(4) \o cmp_write_uint(DISPLAY_SWITCH)
    \o cmp_write_uint(u[1]) \o cmp_write_uint(u[2]) \o cmp_write_uint(u[3])

mux_write_outgoing_shutdown_msg == ArrayOf(1) \o cmp_write_uint(SHUTDOWN)

(* mux_nnstr_init, cmp_init, and the writer of the type.                   *)
mux_write_outgoing_msg ==
    /\ step = "idle"
    /\ \/ \E u \in Updates :
             /\ req' = [op |-> "update", box |-> u]
             /\ calls' = mux_write_outgoing_update_msg(u)
       \/ \E u \in Switches :
             /\ req' = [op |-> "switch", surface |-> u]
             /\ calls' = mux_write_outgoing_switch_msg(u)
       \/ /\ req' = [op |-> "shutdown"]
          /\ calls' = mux_write_outgoing_shutdown_msg
    /\ msg' = [buf |-> <<>>, size |-> 0]
    /\ step' = "write"
    /\ UNCHANGED <<wire, got>>

(* Mutant: the buffer is taken to be as long as it was asked for.          *)
Grown_exact(n) == IF msg.size = 0 THEN n ELSE IF Len(msg.buf) + n > msg.size
                  THEN 2 * msg.size ELSE msg.size

(* The size after the write of n bytes: the first buffer is as large as    *)
(* the allocator made it, a full one is doubled, once.                     *)
Grown(n) ==
    IF msg.size = 0 THEN InitialSize
    ELSE IF Len(msg.buf) + n > msg.size THEN 2 * msg.size
    ELSE msg.size

mux_msg_writer ==
    /\ step = "write" /\ calls # <<>>
    /\ msg' = [buf |-> msg.buf \o Head(calls).data,
               size |-> Grown(Len(Head(calls).data))]
    /\ calls' = Tail(calls)
    /\ UNCHANGED <<step, req, wire, got>>

(* The message has the length of the buffer, not of what was written: what *)
(* the allocator left behind follows it.                                   *)
mux_0mq_send_msg ==
    /\ step = "write" /\ calls = <<>>
    /\ \E x \in Fillers :
          wire' = msg.buf \o [i \in 1 .. msg.size - Len(msg.buf) |-> x]
    /\ step' = "send"
    /\ UNCHANGED <<req, calls, msg, got>>

UnsignedFormats == {"POSITIVE_FIXNUM", "UINT8", "UINT16", "UINT32", "UINT64"}

(* msgpack-c++ at the server: a positive number in network order.          *)
ServerNumber(b, p) ==
    LET t == TypeOf(b[p + 1])
        n == IF t = "POSITIVE_FIXNUM" THEN 0 ELSE Width[t]
    IN  IF ~CanRead(b, p, 1) \/ t \notin UnsignedFormats
           \/ ~CanRead(b, p + 1, n)
        THEN Failed("type_error", p)
        ELSE Read(Object(t, IF n = 0 THEN Small(b[p + 1])
                            ELSE ZeroExtend(Bytes(b, p + 1, n)), 0),
                  p + 1 + n)

(* msgpack::unpack takes the first object and ignores the rest; convert to *)
(* a vector of uint32_t takes an array of numbers in range.                *)
Unpacked(b) ==
    LET n == IF b # <<>> /\ TypeOf(b[1]) = "FIXARRAY" THEN b[1] - 144 ELSE 0
        item[i \in 0 .. n] ==
            IF i = 0 THEN Read(None, 1)
            ELSE IF item[i - 1].ok THEN ServerNumber(b, item[i - 1].pos)
            ELSE item[i - 1]
    IN  IF n > 0 /\ \A i \in 1 .. n : item[i].ok
                        /\ FitsUnsigned(item[i].obj.as, 4)
        THEN [ok |-> TRUE, vec |-> [i \in 1 .. n |-> item[i].obj.as]]
        ELSE [ok |-> FALSE, vec |-> <<>>]

(* The worker unpacks the third part of the message.                       *)
ServerUnpacks ==
    /\ step = "send"
    /\ got' = Unpacked(wire)
    /\ step' = "done"
    /\ UNCHANGED <<req, calls, msg, wire>>
-----------------------------------------------------------------------------
(* Input events for the hypervisor.                                        *)

(* sendMessage: msgpack-c++ packs the vector as an array of up to 15       *)
(* numbers of at most 16 bits, each in its smallest format.                *)
PackedNumber(n) ==
    IF n <= 127 THEN <<n>>
    ELSE IF n <= 255 THEN <<204, n>>
    ELSE <<205, n \div 256, n % 256>>

Packed(vec) ==
    LET f[i \in 0 .. Len(vec)] ==
            IF i = 0 THEN <<144 + Len(vec)>> ELSE f[i - 1] \o PackedNumber(vec[i])
    IN  f[Len(vec)]

(* rdpmux_mouse_event and rdpmux_keyboard_event.                           *)
EventVector(e) ==
    IF e.dev = "mouse" THEN <<MOUSE, e.x, e.y, e.flags>>
    ELSE <<KEYBOARD, e.code, e.flags>>

ServerPacks ==
    /\ step = "idle"
    /\ \E e \in Events, n \in 0 .. MaxCut :
          LET b == Packed(EventVector(e)) IN
          /\ n <= Len(b)
          /\ req' = [op |-> "event", of |-> e, cut |-> n]
          /\ wire' = Cut(b, n)
    /\ step' = "read"
    /\ UNCHANGED <<calls, msg, got>>

(* n numbers from position p on, until one cannot be read.                 *)
Arguments(b, p, n) ==
    LET arg[i \in 0 .. n] ==
            IF i = 0 THEN Read(None, p)
            ELSE IF arg[i - 1].ok THEN cmp_read("uint", b, arg[i - 1].pos)
            ELSE arg[i - 1]
    IN  [ok |-> arg[n].ok, args |-> [i \in 1 .. n |-> arg[i].obj.as]]

(* The callback of a message type and the number of its arguments.         *)
Callback(type) ==
    CASE type = IntWord(MOUSE) -> [name |-> "mux_receive_mouse", n |-> 3]
      [] type = IntWord(KEYBOARD) -> [name |-> "mux_receive_kb", n |-> 2]
      [] OTHER -> [name |-> "none", n |-> 0]

mux_process_incoming_msg ==
    /\ step = "read" /\ req.op = "event"
    /\ LET size == cmp_read("array", wire, 0)
           type == cmp_read("uint", wire, size.pos)
           cb == Callback(type.obj.as)
           args == Arguments(wire, type.pos, cb.n)
       IN  got' = IF size.ok /\ type.ok /\ cb.n > 0 /\ args.ok
                  THEN [ok |-> TRUE, callback |-> cb.name, args |-> args.args]
                  ELSE Nothing
    /\ step' = "done"
    /\ UNCHANGED <<req, calls, msg, wire>>
-----------------------------------------------------------------------------
(* The next request starts afresh.                                         *)
Return ==
    /\ step = "done"
    /\ step' = "idle" /\ req' = NoRequest /\ wire' = <<>> /\ got' = Nothing
    /\ msg' = [buf |-> <<>>, size |-> 0]
    /\ UNCHANGED calls

Next ==
    \/ WriteObject \/ ReceiveObject \/ ReadObject \/ ReadData
    \/ mux_write_outgoing_msg \/ mux_msg_writer \/ mux_0mq_send_msg
    \/ ServerUnpacks \/ ServerPacks \/ mux_process_incoming_msg
    \/ Return

Spec == Init /\ [][Next]_vars
-----------------------------------------------------------------------------
(* Properties.                                                             *)

(* mux_msg_writer grows its buffer at most once per call and by a factor   *)
(* of two; still no memcpy of a message goes past the end of the buffer.   *)
NoOverrun == Len(msg.buf) <= msg.size

Decoded == step = "done" /\ req.op \in {"object", "raw"}
Complete == Decoded /\ req.op = "object" /\ req.wrote /\ got.cut = 0

(* What an object asks to be kept of its request, and the typed reader     *)
(* that pairs with its writer.                                             *)
Meaning(r) ==
    CASE r.op = "decimal" ->
            IF r.v.exact THEN ZeroExtend(Low(r.v.float, 4)) ELSE r.v.double
      [] r.op = "sfix" -> SignExtend(<<r.v[8]>>)
      [] r.op = "bool" -> Small(IF r.v[8] = 0 THEN 0 ELSE 1)
      [] r.op = "nil" -> Small(0)
      [] OTHER -> r.v

PairedReader ==
    [integer |-> "long", uinteger |-> "ulong", sfix |-> "sfix",
     decimal |-> "decimal", nil |-> "nil", bool |-> "bool", array |-> "array",
     map |-> "map", str |-> "str_size", str_v4 |-> "str_size",
     str_marker |-> "str_size", str_marker_v4 |-> "str_size",
     bin |-> "bin_size", bin_marker |-> "bin_size", ext |-> "ext_marker",
     ext_marker |-> "ext_marker"]

WithData == {"str", "str_v4", "bin", "ext"}

(* What a cmp_write_* function wrote, the cmp_read_* function that pairs   *)
(* with it accepts, and every reader that accepts it returns the value     *)
(* that was written and stops at the end of the object, or at its data.    *)
(* The other way round, cmp_write_object gives back the bytes that         *)
(* cmp_read_object read; its version 4 form refuses the one format that    *)
(* version does not have.                                                  *)
RoundTrip ==
    /\ (Complete /\ got.reader \in Readers) =>
          LET r == req.of
              res == got.result
          IN  /\ got.reader = PairedReader[r.op] => res.ok
              /\ res.ok =>
                    /\ res.obj.as = Meaning(r)
                    /\ r.op \in {"ext", "ext_marker"} => res.obj.ext = r.x
                    /\ Len(wire) - res.pos =
                          IF r.op \in WithData THEN Len(r.data) ELSE 0
    /\ (Decoded /\ got.reader = "object" /\ got.result.ok) =>
          LET w == cmp_write_object(got.result.obj)
              w4 == cmp_write_object_v4(got.result.obj)
          IN  /\ Written(w, Len(w.calls)) = SubSeq(wire, 1, got.result.pos)
              /\ IF got.result.obj.type = "STR8" THEN w4.error # "NONE"
                 ELSE w4 = w

(* An object that has lost its end is refused.                             *)
TruncatedIsRefused ==
    (Decoded /\ req.op = "object" /\ req.wrote /\ got.cut > 0) =>
        (got.result.ok => /\ req.of.op \in WithData
                          /\ got.reader \in Readers \cup {"object"}
                          /\ got.cut <= Len(req.of.data))

Bytewide ==
    [char |-> 1, short |-> 2, int |-> 4, long |-> 8,
     uchar |-> 1, ushort |-> 2, uint |-> 4, ulong |-> 8]

(* A number that an accessor cmp_object_as_<integer type> hands out is the *)
(* number that was sent: it is never cut to the width of the C type nor    *)
(* does it change its sign; and the accessors accept what the readers do   *)
(* and what the tests cmp_object_is_* announce.                            *)
AccessorsExact ==
    (Decoded /\ got.reader = "object" /\ got.result.ok) =>
        LET o == got.result.obj IN
        /\ \A a \in DOMAIN SignedReader :
              /\ ObjectAsSigned(a, o) =>
                    /\ SignExtend(Low(o.as, Bytewide[a])) = o.as
                    /\ o.type \in Signed \/ ~Negative(o.as)
                       \/ o.type = "NEGATIVE_FIXNUM"
              /\ ObjectAsSigned(a, o) <=> Takes(a, o)
              /\ o.type \in ObjectIsNumber[a] => ObjectAsSigned(a, o)
        /\ \A a \in DOMAIN UnsignedReader :
              /\ ObjectAsUnsigned(a, o) =>
                    ZeroExtend(Low(o.as, Bytewide[a])) = o.as
              /\ ObjectAsUnsigned(a, o) <=> Takes(a, o)
              /\ o.type \in ObjectIsNumber[a] => ObjectAsUnsigned(a, o)
        /\ \A a \in DOMAIN ObjectIsOther :
              o.type \in ObjectIsOther[a] <=> ObjectAsOther(a, o)

(* No reader takes a byte from beyond what it was given, whatever the      *)
(* bytes say and wherever they end; string and binary data, a string with  *)
(* its terminating zero, fit the buffer of the caller, except for a string *)
(* of 2^32 - 1 bytes that is really there; and reading the marker first    *)
(* and the data later with cmp_object_to_* comes to the same end.          *)
ReadsInBounds ==
    /\ Decoded => got.result.pos <= Len(wire)
    /\ (Decoded /\ got.reader \in {"str", "bin"}) =>
          /\ got.result.ok =>
                \/ got.reader = "str" /\ Wraps(got.result.obj.as)
                \/ SizeOf(got.result.obj.as)
                      + (IF got.reader = "str" THEN 1 ELSE 0) <= got.room
          /\ got.result.ok <=> got.later.ok
          /\ got.result.ok => got.result.pos = got.later.pos

Fields ==
    CASE req.op = "update" ->
            <<DISPLAY_UPDATE, req.box[1], req.box[2],
              req.box[3] - req.box[1], req.box[4] - req.box[2]>>
      [] req.op = "switch" ->
            <<DISPLAY_SWITCH, req.surface[1], req.surface[2],
              req.surface[3]>>
      [] OTHER -> <<SHUTDOWN>>

(* The server reads from a display message what the library put in, the    *)
(* unused end of the buffer notwithstanding; a message with a negative     *)
(* field is refused as a whole, never taken for a large number.  The       *)
(* library calls the callback of an event's device with the numbers of the *)
(* event, each in its place; an event whose end is missing calls none.     *)
MessagesUnderstood ==
    /\ (step = "done" /\ req.op \in {"update", "switch", "shutdown"}) =>
          LET f == Fields IN
          /\ got.ok <=> \A i \in DOMAIN f : f[i] >= 0
          /\ got.ok => got.vec = [i \in DOMAIN f |-> IntWord(f[i])]
    /\ (step = "done" /\ req.op = "event") =>
          LET e == req.of IN
          got = IF req.cut > 0 THEN Nothing
                ELSE IF e.dev = "mouse"
                THEN [ok |-> TRUE, callback |-> "mux_receive_mouse",
                      args |-> <<IntWord(e.x), IntWord(e.y), IntWord(e.flags)>>]
                ELSE [ok |-> TRUE, callback |-> "mux_receive_kb",
                      args |-> <<IntWord(e.code), IntWord(e.flags)>>]
=============================================================================

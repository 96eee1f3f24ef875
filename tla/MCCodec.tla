------------------------------ MODULE MCCodec -------------------------------
(***************************************************************************)
(* TLC harness for Codec.  The state is one input (CodecInputs): a byte   *)
(* sequence of at most MaxLen bytes over ByteVals, and each step moves to *)
(* another one, so the invariants are checked for every bounded input.   *)
(* BlockMax (0xFF in the code) is set in the .cfg; a small value makes    *)
(* the split of a long run of non-zero bytes happen on short inputs.      *)
(***************************************************************************)
EXTENDS Codec, CodecInputs

CONSTANT
    JunkVals    \* values the uninitialised receive buffer may hold

(* A small catalog (the device's parameter names) and parameter values   *)
(* whose members have distinct memory images, so that a value copied from *)
(* the wrong member shows.  Catalog types are the three of the protocol.  *)
CatNames == <<"s0", "s1", "s2">>
ParamTypes == {"int", "float", "bool"}
Val(b) == [p_i |-> <<b, 0, 0, 0>>, p_f |-> <<0, 0, b, 63>>, p_b |-> b]

(* The input as param_values: a zero byte is a NULL entry.               *)
WriteVals == [i \in DOMAIN x |-> IF x[i] = 0 THEN Absent ELSE Val(x[i])]

(* The input as a list of parameter names of the catalog.                *)
Names == [i \in DOMAIN x |-> CatNames[(x[i] % 3) + 1]]

(* Catalogs for which the input is a valid param_values array: one type   *)
(* per parameter, as many parameters as entries.                          *)
Catalogs == IF Len(x) \in 1 .. 3 THEN [1 .. Len(x) -> ParamTypes] ELSE {}

Min1(n) == IF n > 0 THEN 1 ELSE 0

(* Messages with the input as payload under some ids of message.h, and   *)
(* the ones the fixed-layout constructors build from a byte of it.        *)
Messages ==
    {[id |-> k, payload |-> x, max |-> Len(x)] :
        k \in {SubscriptionResponse, HeartBeatRequest, Error}}
    \cup {MakePing, MakeDisable}
    \cup UNION {{MakeHeartbeatRequest(b), MakeHeartbeatResponse(b),
                 MakeError(b)} : b \in {x[i] : i \in DOMAIN x}}
    \cup {MakeSubscriptionRequest(EncodeParams(CatNames, Names, 0), <<x[1], 0>>) :
            i \in 1 .. Min1(Len(x))}
    \cup {MakeDeviceRead(EncodeParams(CatNames, Names, 0))}
    \cup UNION {{MakeDeviceWrite(t, WriteVals), MakeDeviceData(t, WriteVals)} :
                 t \in Catalogs}

(* The bytes message_to_bytes() writes into a buffer that is big enough.  *)
Serialize(m) == MessageToBytes(m, 3 + Len(m.payload))

(* A wire frame as the protocol defines it: 0x00, the encoded length,     *)
(* then the COBS encoding of the message bytes.                           *)
SpecFrame(bytes) ==
    LET enc == CobsEncode(bytes) IN <<0, Len(enc)>> \o enc

-----------------------------------------------------------------------------
(* COBS round trip (cobs_encode/cobs_decode): decoding the encoding of any *)
(* byte sequence gives it back, including zeros and runs that reach the   *)
(* block limit.                                                            *)
CobsRoundTrip == CobsDecode(CobsEncode(x)) = x

(* Message round trip through the codec: message_to_bytes, cobs_encode,    *)
(* cobs_decode, parse_message give back the id and payload with a good     *)
(* checksum, for every id and payload.                                     *)
MessageRoundTrip ==
    \A m \in Messages :
        LET p == ParseMessage(CobsDecode(CobsEncode(Serialize(m))))
        IN  p.ret = 0 /\ p.msg.id = m.id /\ p.msg.payload = m.payload

(* Flipping any single bit of the header+payload region changes the       *)
(* checksum message_to_bytes appends, so parse_message would reject it.   *)
ChecksumDetectsBitFlip ==
    \A m \in Messages :
        LET head == SubSeq(Serialize(m), 1, 2 + Len(m.payload))
        IN  \A i \in 1 .. Len(head), k \in 0 .. 7 :
                LET flipped == [head EXCEPT ![i] = @ ^^ (2 ^ k)]
                IN  Checksum(flipped, Len(head)) # Checksum(head, Len(head))

(* A message framed as the protocol defines it is received intact:        *)
(* receive_message() returns 0 with the id and payload that were sent.    *)
WireRoundTrip ==
    \A m \in Messages, j \in JunkVals :
        LET r == ReceiveFrame(SpecFrame(Serialize(m)), j)
        IN  r.ret = 0 /\ r.msg.id = m.id /\ r.msg.payload = m.payload

(* The device identity ping() extracts from a SubscriptionResponse built  *)
(* by make_subscription_response() is the identity it was built from:    *)
(* for a device whose uid bytes start with the input, any type and year,  *)
(* and any bytes lying after uid in memory.                               *)
PadTo8(s) == s \o [i \in 1 .. 8 - Len(s) |-> 0]

IdentityRoundTrip ==
    \A t1, t2, yr \in ByteVals, j \in JunkVals :
        LET resp == MakeSubscriptionResponse(<<1, 1, 1, 1>>, <<1, 0>>,
                                             PadTo8(x) \o <<j, j, j>>)
        IN  PingIdentity(resp.payload)
              = [type |-> <<t1, t2>>, year |-> yr, uid |-> PadTo8(x)]

(* The value bytes the protocol puts after the mask: for each parameter  *)
(* present, in index order, its value in the width of its catalog type.  *)
ValueBytes(types, vals) ==
    LET Img(i) == IF vals[i] = Absent THEN <<>>
                  ELSE CASE types[i] = "int"   -> vals[i].p_i
                         [] types[i] = "float" -> vals[i].p_f
                         [] types[i] = "bool"  -> <<vals[i].p_b>>
        acc[i \in 0 .. Len(vals)] == IF i = 0 THEN <<>> ELSE acc[i - 1] \o Img(i)
    IN  acc[Len(vals)]

(* The 32-bit mask of a payload, read back from its first four bytes.    *)
MaskOf(p) == p[1] + 256 * p[2] + 65536 * p[3] + 16777216 * p[4]

(* Spec 6, DeviceWrite/DeviceData payload: make_device_write() gives a    *)
(* 32-bit mask with bit i set exactly when parameter i is present,        *)
(* followed by each present parameter's value in its catalog width, in    *)
(* parameter-index order (the mask loop runs from the last parameter down *)
(* while the value loop runs up: their orders must agree).                *)
DeviceWriteLayout ==
    \A t \in Catalogs :
        LET w == MakeDeviceWrite(t, WriteVals)
        IN  /\ w # NULL /\ Len(w.payload) >= 4
            /\ \A i \in 1 .. Len(x) :
                  ((MaskOf(w.payload) \div 2 ^ (i - 1)) % 2 = 1)
                    <=> (WriteVals[i] # Absent)
            /\ MaskOf(w.payload) < 2 ^ Len(x)
            /\ SubSeq(w.payload, 5, Len(w.payload)) = ValueBytes(t, WriteVals)

(* make_device_write() copies the payload into the buffer it malloc'd     *)
(* with device_data_payload_size(): append_payload() checks only against  *)
(* max_payload_length (132), so the allocation must hold what is copied.  *)
DeviceWriteFitsAlloc ==
    \A t \in Catalogs :
        LET w == MakeDeviceWrite(t, WriteVals)
        IN  w # NULL => Len(w.payload) <= w.alloc
=============================================================================

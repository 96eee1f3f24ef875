------------------------------- MODULE Message -------------------------------
(***************************************************************************)
(* The message layer of message.c: the message_t constructors,            *)
(* append_payload, device_data_payload_size, checksum, message_to_bytes    *)
(* and parse_message, the byte path of receive_message() and the identity *)
(* fields ping() reads (dev_handler.c).  All of them are pure functions of *)
(* their arguments, written as operators over byte sequences (bytes are    *)
(* naturals below 256).  Codec adds the parameter masks and COBS.          *)
(*                                                                         *)
(* A message_t is a record [id, payload, max]: message_id, the payload     *)
(* bytes (payload_length is their number) and max_payload_length.          *)
(***************************************************************************)
EXTENDS Integers, Sequences

(* enum packet_type of message.h *)
Ping == 16
SubscriptionRequest == 17
SubscriptionResponse == 18
DeviceRead == 19
DeviceWrite == 20
DeviceData == 21
Disable == 22
HeartBeatRequest == 23
HeartBeatResponse == 24
Error == 255

NULL == [id |-> 0, payload |-> <<>>, max |-> 0, null |-> TRUE]

-----------------------------------------------------------------------------
(* make_ping(): no payload.                                                *)
MakePing == [id |-> Ping, payload |-> <<>>, max |-> 0]

(* make_disable(): no payload.                                             *)
MakeDisable == [id |-> Disable, payload |-> <<>>, max |-> 0]

(* make_heartbeat_request(): one byte, heartbeat_id ? heartbeat_id : 0.   *)
MakeHeartbeatRequest(hid) == [id |-> HeartBeatRequest, payload |-> <<hid>>, max |-> 1]

(* make_heartbeat_response(): as the request.                             *)
MakeHeartbeatResponse(hid) == [id |-> HeartBeatResponse, payload |-> <<hid>>, max |-> 1]

(* make_error(): the error code is the payload.                           *)
MakeError(code) == [id |-> Error, payload |-> <<code>>, max |-> 1]

(* append_payload(): copy first, then report whether the copy overran.    *)
AppendPayload(msg, data) ==
    LET m == [msg EXCEPT !.payload = @ \o data]
    IN  [msg |-> m, ret |-> IF Len(m.payload) > m.max THEN -1 ELSE 0]

(* make_subscription_response(): 4 bytes of the param mask, 2 of the      *)
(* delay, and 11 bytes copied from &device_id->uid.  Each argument is the *)
(* memory image the code copies from, so uidMem holds the 8 bytes of uid  *)
(* and whatever lies after them.  NULL unless every append stayed within  *)
(* max_payload_length.                                                    *)
MakeSubscriptionResponse(maskMem, delayMem, uidMem) ==
    LET m0 == [id |-> SubscriptionResponse, payload |-> <<>>, max |-> 17]
        a1 == AppendPayload(m0, SubSeq(maskMem, 1, 4))
        a2 == AppendPayload(a1.msg, SubSeq(delayMem, 1, 2))
        a3 == AppendPayload(a2.msg, SubSeq(uidMem, 1, 11))
    IN  IF a1.ret + a2.ret + a3.ret = 0 THEN a3.msg ELSE NULL

-----------------------------------------------------------------------------
(* A uint32_t as the 4 bytes append_payload() copies from its address     *)
(* (little-endian).                                                        *)
Uint32Bytes(n) ==
    <<n % 256, (n \div 256) % 256, (n \div 65536) % 256,
      (n \div 16777216) % 256>>

(* make_subscription_request(): 4 bytes of mask, 2 of delay, max 6.       *)
MakeSubscriptionRequest(mask, delayMem) ==
    LET m0 == [id |-> SubscriptionRequest, payload |-> <<>>, max |-> 6]
        a1 == AppendPayload(m0, Uint32Bytes(mask))
        a2 == AppendPayload(a1.msg, SubSeq(delayMem, 1, 2))
    IN  IF a1.ret + a2.ret = 0 THEN a2.msg ELSE NULL

(* make_device_read(): the 4 bytes of the mask, max 4.                    *)
MakeDeviceRead(mask) ==
    LET a1 == AppendPayload([id |-> DeviceRead, payload |-> <<>>, max |-> 4],
                            Uint32Bytes(mask))
    IN  IF a1.ret = 0 THEN a1.msg ELSE NULL

(* The bytes of one parameter of a DeviceWrite: sizeof(int) bytes of p_i, *)
(* sizeof(float) of p_f, one byte of p_b; a type other than the three    *)
(* appends nothing.  A param_val_t is given by the memory images of its  *)
(* members.                                                               *)
ParamBytes(type, val) ==
    CASE type = "int"   -> val.p_i
      [] type = "float" -> val.p_f
      [] type = "bool"  -> <<val.p_b>>
      [] OTHER          -> <<>>

(* Mutant: the size starts at 0, leaving out the 4 bytes of the mask.     *)
DeviceDataPayloadSizeNoMask(types) ==
    LET r[i \in 0 .. Len(types)] ==
            IF i = 0 THEN 0
            ELSE r[i - 1] + (IF types[i] \in {"int", "float"} THEN 4 ELSE 1)
    IN  r[Len(types)]

(* device_data_payload_size(): 4 bytes of mask, then 4 for an int or a    *)
(* float parameter of the catalog and 1 for any other type.               *)
DeviceDataPayloadSize(types) ==
    LET r[i \in 0 .. Len(types)] ==
            IF i = 0 THEN 4
            ELSE r[i - 1] + (IF types[i] \in {"int", "float"} THEN 4 ELSE 1)
    IN  r[Len(types)]

Absent == [null |-> TRUE]   \* a NULL entry of param_values

-----------------------------------------------------------------------------
(* The ^ of C on bytes, bit by bit from the lowest.                       *)
ByteXor[a \in Nat, b \in Nat] ==
    IF a = 0 /\ b = 0 THEN 0
    ELSE 2 * ByteXor[a \div 2, b \div 2] + ((a + b) % 2)

(* checksum(): chk starts at data[0] and the loop XORs data[0 .. len-1]   *)
(* into it, data[0] included.  It reads only those len bytes.             *)
Checksum(data, len) ==
    LET d == SubSeq(data, 1, len)
        chk[i \in 0 .. len] ==
            IF i = 0 THEN d[1] ELSE ByteXor[chk[i - 1], d[i]]
    IN  chk[len]

-----------------------------------------------------------------------------
(* Mutant: the checksum covers one byte fewer than the header+payload.    *)
MessageToBytesShortChecksum(msg, len) ==
    LET plen == Len(msg.payload)
        head == <<msg.id, plen>> \o msg.payload
    IN  IF len < 3 + plen THEN <<>>
        ELSE Append(head, Checksum(head, 1 + plen))

(* message_to_bytes(): id, payload_length, payload, checksum over the     *)
(* first 2 + payload_length bytes; nothing is written when len is short.  *)
MessageToBytes(msg, len) ==
    LET plen == Len(msg.payload)
        head == <<msg.id, plen>> \o msg.payload
    IN  IF len < 3 + plen THEN <<>>
        ELSE Append(head, Checksum(head, 2 + plen))

(* parse_message(): data[0] is the id and data[1] the length; the return  *)
(* is 1 when the byte after the payload is not the checksum.  data is the *)
(* whole buffer handed in, so it must reach index 3 + data[1].            *)
ParseMessage(data) ==
    LET plen == data[2]
    IN  [msg |-> [id |-> data[1], payload |-> SubSeq(data, 3, 2 + plen),
                  max |-> plen],
         ret |-> IF data[3 + plen] # Checksum(data, 2 + plen) THEN 1 ELSE 0]

(* receive_message() on the bytes the device has queued: a delimiter, a   *)
(* length byte, then cobs_len bytes handed to parse_message as they are.  *)
(* The rest of the malloc'd buffer is uninitialised: it is filled with    *)
(* the byte junk.  Returns 1 (nothing), 2 (broken) or parse's verdict.    *)
ReceiveFrame(stream, junk) ==
    LET cobsLen == stream[2]
        body    == SubSeq(stream, 3, 2 + cobsLen)
        buf     == body \o [i \in 1 .. 258 |-> junk]
        parsed  == ParseMessage(buf)
    IN  CASE Len(stream) = 0                   -> [ret |-> 1]
          [] stream[1] # 0                     -> [ret |-> 2]
          [] Len(stream) < 2                   -> [ret |-> 2]
          [] Len(stream) < 2 + cobsLen         -> [ret |-> 2]
          [] parsed.ret = 0                    -> [ret |-> 0, msg |-> parsed.msg]
          [] OTHER                             -> [ret |-> 3]

(* ping(): the device identity is read from the SubscriptionResponse     *)
(* payload at byte offsets 6 (type, 2 bytes), 8 (year) and 9 (uid, 8).    *)
PingIdentity(payload) ==
    [type |-> SubSeq(payload, 7, 8), year |-> payload[9],
     uid  |-> SubSeq(payload, 10, 17)]
=============================================================================

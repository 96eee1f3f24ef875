------------------------------- MODULE Codec --------------------------------
(***************************************************************************)
(* The parts of the wire codec of message.c that Message leaves out: the  *)
(* parameter masks (encode_params, the DeviceWrite/DeviceData payload)     *)
(* and COBS decode (Cobs has the encoder).  Like Message, all of them are pure functions   *)
(* of their arguments over byte sequences.                                 *)
(***************************************************************************)
EXTENDS Message, Cobs, Bitwise

CONSTANT
    MaskBits    \* width of the uint32_t parameter masks (32; TLC's integers
                \* stop at 2^31, so its runs use a narrower word)

ASSUME MaskBitsAssumption == MaskBits \in 1 .. 32

(* encode_params(): for each name, the index of the first catalog entry   *)
(* with that name goes into param_nums[i]; a name not in the catalog      *)
(* leaves param_nums[i] as it was on the stack (junk).  The mask ORs      *)
(* 1 << param_nums[i] together; a shift by 32 or more is undefined, and   *)
(* the x86 shift instruction takes the count modulo 32.                   *)
EncodeParams(catNames, names, junk) ==
    LET Num(nm) == IF \E j \in DOMAIN catNames : catNames[j] = nm
                   THEN (CHOOSE j \in DOMAIN catNames :
                           catNames[j] = nm
                           /\ \A k \in 1 .. j - 1 : catNames[k] # nm) - 1
                   ELSE junk
        m[i \in 0 .. Len(names)] ==
            IF i = 0 THEN 0 ELSE m[i - 1] | (2 ^ (Num(names[i]) % 32))
    IN  m[Len(names)]

(* Mutant: the mask is built from param_values[0] up, reversing the bits. *)
WriteMaskReversed(vals) ==
    LET len == Len(vals)
        Bit(i) == IF vals[i] = Absent THEN 0 ELSE 1
        m[k \in 0 .. len - 1] ==
            IF k = 0 THEN Bit(1) ELSE ((m[k - 1] * 2) % 2 ^ MaskBits) | Bit(k + 1)
    IN  m[len - 1]

(* make_device_write()'s mask: bit 0 of the start value is the last      *)
(* parameter's; each turn of the loop from len-2 down to 0 shifts the     *)
(* uint32_t left and ORs in parameter i's bit.                            *)
WriteMask(vals) ==
    LET len == Len(vals)
        Bit(i) == IF vals[i] = Absent THEN 0 ELSE 1
        m[k \in 0 .. len - 1] ==
            IF k = 0 THEN Bit(len)
            ELSE ((m[k - 1] * 2) % 2 ^ MaskBits) | Bit(len - k)
    IN  m[len - 1]

(* make_device_write(): the mask, then for i = 0 .. len-1 the bytes of     *)
(* each non-NULL param_values[i] by the catalog type of parameter i, all  *)
(* through append_payload() against max_payload_length 132; NULL if any   *)
(* append overran.  alloc is the size malloc'd for the payload.           *)
MakeDeviceWrite(types, vals) ==
    LET m0 == [id |-> DeviceWrite, payload |-> <<>>, max |-> 132]
        a0 == AppendPayload(m0, Uint32Bytes(WriteMask(vals)))
        st[i \in 0 .. Len(vals)] ==
            IF i = 0 THEN [msg |-> a0.msg, status |-> a0.ret]
            ELSE IF vals[i] = Absent THEN st[i - 1]
            ELSE LET a == AppendPayload(st[i - 1].msg,
                                        ParamBytes(types[i], vals[i]))
                 IN  [msg |-> a.msg, status |-> st[i - 1].status + a.ret]
        fin == st[Len(vals)]
    IN  IF fin.status = 0
        THEN [id |-> DeviceWrite, payload |-> fin.msg.payload, max |-> 132,
              alloc |-> DeviceDataPayloadSize(types)]
        ELSE NULL

(* make_device_data(): make_device_write() with the id changed.           *)
MakeDeviceData(types, vals) ==
    [MakeDeviceWrite(types, vals) EXCEPT !.id = DeviceData]

-----------------------------------------------------------------------------
RECURSIVE DecodeFrom(_, _, _)

(* Mutant: the zero is re-inserted after every block but the last, the    *)
(* code < 0xFF test dropped.                                              *)
DecodeFromAlwaysZero(src, p, dst) ==
    IF p > Len(src)
    THEN [ok |-> TRUE, dst |-> dst]
    ELSE LET code == src[p]
             next == IF code = 0 THEN p + 1 ELSE p + code
             out  == dst \o SubSeq(src, p + 1, next - 1)
         IN  IF next > Len(src) + 1
             THEN [ok |-> FALSE, dst |-> out]
             ELSE DecodeFrom(src, next,
                             IF next # Len(src) + 1
                             THEN Append(out, 0) ELSE out)

(* cobs_decode()'s outer loop from src[p] with dst decoded so far.  A     *)
(* block whose code claims more bytes than remain makes the inner loop    *)
(* read one byte past the end and return 0 ("Bad packet").                *)
DecodeFrom(src, p, dst) ==
    IF p > Len(src)
    THEN [ok |-> TRUE, dst |-> dst]
    ELSE LET code == src[p]
             next == IF code = 0 THEN p + 1 ELSE p + code
             out  == dst \o SubSeq(src, p + 1, next - 1)
         IN  IF next > Len(src) + 1
             THEN [ok |-> FALSE, dst |-> out]
             ELSE DecodeFrom(src, next,
                             IF code < BlockMax /\ next # Len(src) + 1
                             THEN Append(out, 0) ELSE out)

(* cobs_decode(): the out_len bytes it reports (none for a bad packet).   *)
CobsDecode(src) ==
    LET r == DecodeFrom(src, 1, <<>>)
    IN  IF r.ok THEN r.dst ELSE <<>>

=============================================================================

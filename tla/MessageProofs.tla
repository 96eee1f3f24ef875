---------------------------- MODULE MessageProofs ----------------------------
(***************************************************************************)
(* Proofs about the message layer: parse_message() takes back what        *)
(* message_to_bytes() wrote, for every id and payload, and                *)
(* receive_message() accepts a message when the bytes after the length    *)
(* byte are those message bytes as they are, not COBS-encoded.            *)
(***************************************************************************)
EXTENDS Message, SequenceTheorems, TLAPS

(* The bytes message_to_bytes() writes into a buffer that is big enough.  *)
Serialize(m) == MessageToBytes(m, 3 + Len(m.payload))

(* checksum() reads only the first len bytes of its buffer.               *)
LEMMA ChecksumPrefix ==
    ASSUME NEW a, NEW b, NEW n, SubSeq(a, 1, n) = SubSeq(b, 1, n)
    PROVE  Checksum(a, n) = Checksum(b, n)
BY Zenon DEF Checksum

(* The layout of the bytes message_to_bytes() writes: the id, the payload *)
(* length, the payload, then the checksum of the 2 + length bytes before. *)
LEMMA SerializeLayout ==
    ASSUME NEW S, NEW m, m.payload \in Seq(S)
    PROVE  LET plen == Len(m.payload)
               head == <<m.id, plen>> \o m.payload
               data == Serialize(m)
           IN  /\ data = Append(head, Checksum(head, 2 + plen))
               /\ data \in Seq(S \cup {m.id, plen, Checksum(head, 2 + plen)})
               /\ Len(data) = 3 + plen
               /\ data[1] = m.id /\ data[2] = plen
               /\ SubSeq(data, 3, 2 + plen) = m.payload
               /\ SubSeq(data, 1, 2 + plen) = head
               /\ data[3 + plen] = Checksum(head, 2 + plen)
<1> DEFINE plen == Len(m.payload)
           head == <<m.id, plen>> \o m.payload
           chk  == Checksum(head, 2 + plen)
           data == Serialize(m)
           T    == S \cup {m.id, plen, chk}
<1>1. plen \in Nat /\ m.payload \in Seq(T)
  BY LenProperties, SeqMonotonic
<1>2. data = Append(head, chk)
  BY <1>1 DEF Serialize, MessageToBytes
<1>3. /\ head \in Seq(T) /\ Len(head) = 2 + plen
      /\ head[1] = m.id /\ head[2] = plen
      /\ \A i \in 1 .. plen : head[2 + i] = m.payload[i]
  BY <1>1, ConcatProperties
<1>4. /\ data \in Seq(T) /\ Len(data) = 3 + plen
      /\ \A i \in 1 .. 2 + plen : data[i] = head[i]
      /\ data[3 + plen] = chk
  BY <1>1, <1>2, <1>3, AppendProperties
<1>5. SubSeq(data, 3, 2 + plen) = m.payload
  <2>1. /\ SubSeq(data, 3, 2 + plen) \in Seq(T)
        /\ Len(SubSeq(data, 3, 2 + plen)) = plen
        /\ \A i \in 1 .. plen : SubSeq(data, 3, 2 + plen)[i] = data[2 + i]
    <3>1. \A i \in 3 .. 2 + plen : data[i] \in T
      <4> SUFFICES ASSUME NEW i \in 3 .. 2 + plen PROVE data[i] \in T
        OBVIOUS
      <4>1. i \in 1 .. Len(data)
        BY <1>1, <1>4
      <4>2. QED
        BY <4>1, <1>4, ElementOfSeq, Zenon
    <3>2. 3 \in Int /\ 2 + plen \in Int /\ 3 <= 2 + plen + 1
      BY <1>1
    <3>3. QED
      BY <3>1, <3>2, SubSeqProperties
  <2>2. \A i \in 1 .. plen : SubSeq(data, 3, 2 + plen)[i] = m.payload[i]
    <3> SUFFICES ASSUME NEW i \in 1 .. plen
                 PROVE  SubSeq(data, 3, 2 + plen)[i] = m.payload[i]
      OBVIOUS
    <3>1. 2 + i \in 1 .. 2 + plen
      BY <1>1
    <3>2. QED
      BY <1>3, <1>4, <2>1, <3>1
  <2>3. QED
    BY <1>1, <2>1, <2>2, SeqEqual
<1>6. SubSeq(data, 1, 2 + plen) = head
  <2>1. /\ SubSeq(data, 1, 2 + plen) \in Seq(T)
        /\ Len(SubSeq(data, 1, 2 + plen)) = 2 + plen
        /\ \A i \in 1 .. 2 + plen : SubSeq(data, 1, 2 + plen)[i] = data[i]
    BY <1>1, <1>4, SubSeqProperties
  <2>2. QED
    BY <1>1, <1>3, <1>4, <2>1, SeqEqual
<1>7. data[1] = m.id /\ data[2] = plen
  BY <1>1, <1>3, <1>4
<1>8. QED
  BY <1>2, <1>4, <1>5, <1>6, <1>7


(* parse_message() reads only the 3 + data[1] bytes of a message: what   *)
(* follows them in the buffer does not change its result.                 *)
LEMMA ParseIgnoresTail ==
    ASSUME NEW T, NEW data \in Seq(T), NEW rest \in Seq(T),
           data[2] \in Nat, Len(data) = 3 + data[2]
    PROVE  ParseMessage(data \o rest) = ParseMessage(data)
<1> DEFINE plen == data[2]
           buf  == data \o rest
<1>1. /\ Len(buf) = Len(data) + Len(rest)
      /\ \A i \in 1 .. Len(data) : buf[i] = data[i]
  <2>1. /\ Len(buf) = Len(data) + Len(rest)
        /\ \A i \in 1 .. Len(data) + Len(rest) :
              buf[i] = IF i <= Len(data) THEN data[i] ELSE rest[i - Len(data)]
    BY ConcatProperties, Zenon
  <2>2. Len(data) \in Nat /\ Len(rest) \in Nat
    BY LenProperties
  <2>3. QED
    BY <2>1, <2>2
<1>2. buf[1] = data[1] /\ buf[2] = plen /\ buf[3 + plen] = data[3 + plen]
  BY <1>1
<1>3. SubSeq(buf, 3, 2 + plen) = SubSeq(data, 3, 2 + plen)
  BY SubSeqOfConcat1
<1>4. SubSeq(buf, 1, 2 + plen) = SubSeq(data, 1, 2 + plen)
  BY SubSeqOfConcat1
<1>5. Checksum(buf, 2 + plen) = Checksum(data, 2 + plen)
  BY <1>4, ChecksumPrefix
<1>6. QED
  BY <1>2, <1>3, <1>5, Zenon DEF ParseMessage

(* Every message survives message_to_bytes() then parse_message(): the    *)
(* checksum is good and the id, the payload and its length come back.     *)
THEOREM ParseSerialized ==
    ASSUME NEW S, NEW m, m.payload \in Seq(S)
    PROVE  LET p == ParseMessage(Serialize(m))
           IN  /\ p.ret = 0
               /\ p.msg.id = m.id /\ p.msg.payload = m.payload
               /\ p.msg.max = Len(m.payload)
<1> DEFINE plen == Len(m.payload)
           head == <<m.id, plen>> \o m.payload
           data == Serialize(m)
<1>1. /\ data[1] = m.id /\ data[2] = plen
      /\ SubSeq(data, 3, 2 + plen) = m.payload
      /\ SubSeq(data, 1, 2 + plen) = head
      /\ data[3 + plen] = Checksum(head, 2 + plen)
  BY SerializeLayout
<1>2. Checksum(data, 2 + plen) = Checksum(head, 2 + plen)
  <2>1. plen \in Nat /\ head \in Seq(S \cup {m.id, plen})
    BY LenProperties, SeqMonotonic, ConcatProperties
  <2>2. Len(head) = 2 + plen
    BY <2>1, ConcatProperties, LenProperties
  <2>3. SubSeq(head, 1, 2 + plen) = head
    BY <2>1, <2>2, SubSeqFull
  <2>4. SubSeq(data, 1, 2 + plen) = SubSeq(head, 1, 2 + plen)
    BY <1>1, <2>3
  <2>5. QED
    BY <2>4, ChecksumPrefix, Zenon
<1>3. QED
  BY <1>1, <1>2, Zenon DEF ParseMessage


(* receive_message() accepts a message when the length byte after the     *)
(* delimiter is followed by the bytes message_to_bytes() wrote, as they   *)
(* are: the frame it reads is the raw message, not its COBS encoding      *)
(* (the WireRoundTrip violation of codec_wire_roundtrip), whatever the    *)
(* uninitialised rest of its buffer holds.                                *)
THEOREM ReceiveRawFrame ==
    ASSUME NEW S, NEW m, m.payload \in Seq(S), NEW junk
    PROVE  LET r == ReceiveFrame(<<0, 3 + Len(m.payload)>> \o Serialize(m), junk)
           IN  r.ret = 0 /\ r.msg.id = m.id /\ r.msg.payload = m.payload
<1> DEFINE plen   == Len(m.payload)
           head   == <<m.id, plen>> \o m.payload
           data   == Serialize(m)
           T      == S \cup {m.id, plen, Checksum(head, 2 + plen), junk, 0, 3 + plen}
           stream == <<0, 3 + plen>> \o data
           fill   == [i \in 1 .. 258 |-> junk]
<1>1. plen \in Nat /\ data \in Seq(T) /\ Len(data) = 3 + plen /\ data[2] = plen
  <2>1. data \in Seq(S \cup {m.id, plen, Checksum(head, 2 + plen)}) /\ Len(data) = 3 + plen
        /\ data[2] = plen
    BY SerializeLayout
  <2>2. QED
    BY <2>1, LenProperties, SeqMonotonic
<1>2. <<0, 3 + plen>> \in Seq(T) /\ fill \in Seq(T)
  BY <1>1
<1>3. /\ Len(stream) = 5 + plen /\ stream[1] = 0 /\ stream[2] = 3 + plen
  BY <1>1, <1>2, ConcatProperties
<1>4. SubSeq(stream, 3, 2 + (3 + plen)) = data
  <2>1. SubSeq(stream, 3, 5 + plen) = SubSeq(data, 1, 3 + plen)
    BY <1>1, <1>2, SubSeqOfConcat2
  <2>2. SubSeq(data, 1, 3 + plen) = data
    BY <1>1, SubSeqFull
  <2>3. QED
    BY <2>1, <2>2, <1>1
<1>5. ParseMessage(data \o fill) = ParseMessage(data)
  <2>1. data[2] \in Nat /\ Len(data) = 3 + data[2]
    BY <1>1
  <2>2. QED
    BY <1>1, <1>2, <2>1, ParseIgnoresTail, ZenonT(60)
<1>6. LET p == ParseMessage(data)
      IN  p.ret = 0 /\ p.msg.id = m.id /\ p.msg.payload = m.payload
  BY ParseSerialized
<1>7. LET p == ParseMessage(SubSeq(stream, 3, 2 + stream[2]) \o fill)
      IN  p.ret = 0 /\ p.msg.id = m.id /\ p.msg.payload = m.payload
  <2>1. SubSeq(stream, 3, 2 + stream[2]) = data
    BY <1>3, <1>4
  <2>2. QED
    BY <2>1, <1>5, <1>6, Zenon
<1>8. ~(Len(stream) = 0) /\ ~(stream[1] # 0) /\ ~(Len(stream) < 2)
      /\ ~(Len(stream) < 2 + stream[2])
  BY <1>1, <1>3
<1>9. QED
  BY <1>7, <1>8 DEF ReceiveFrame

=============================================================================

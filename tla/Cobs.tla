-------------------------------- MODULE Cobs --------------------------------
(***************************************************************************)
(* cobs_encode() of message.c (the COBS encoder, "copied from             *)
(* Messenger.cpp in lowcar"): its locals as a record and one operator per *)
(* turn of its loop, folded over the source bytes.  The decoder is in     *)
(* Codec.                                                                 *)
(***************************************************************************)
EXTENDS Integers, Sequences

CONSTANT
    BlockMax    \* the 0xFF at which cobs_encode closes a run of non-zeros

ASSUME BlockMaxAssumption == BlockMax \in 2 .. 255

(* The encoder's locals: the bytes written to dst so far (the slot at     *)
(* block_len_loc holds a placeholder until it is filled), block_len_loc,  *)
(* block_len and out_len.                                                 *)
EncoderInit == [dst |-> <<0>>, loc |-> 1, blockLen |-> 1, outLen |-> 0]

(* The finish_block() macro: fill the reserved slot with block_len and    *)
(* reserve the next one.                                                  *)
FinishBlock(s) ==
    [dst      |-> Append([s.dst EXCEPT ![s.loc] = s.blockLen], 0),
     loc      |-> Len(s.dst) + 1,
     outLen   |-> s.outLen + 1,
     blockLen |-> 1]

(* The copy of a non-zero byte: *dst++ = *src, block_len++, out_len++.   *)
CopyByte(s, b) ==
    [dst      |-> Append(s.dst, b),
     loc      |-> s.loc,
     blockLen |-> s.blockLen + 1,
     outLen   |-> s.outLen + 1]

(* Mutant: the zero test is dropped and zero bytes are copied as data.    *)
EncodeByteCopyZero(s, b) ==
    LET t == CopyByte(s, b)
    IN  IF t.blockLen = BlockMax THEN FinishBlock(t) ELSE t

(* One turn of cobs_encode's while loop on the byte b = *src.             *)
EncodeByte(s, b) ==
    IF b = 0
    THEN FinishBlock(s)
    ELSE LET t == CopyByte(s, b)
         IN  IF t.blockLen = BlockMax THEN FinishBlock(t) ELSE t

(* The while loop of cobs_encode(): the locals after the first i bytes.   *)
EncodeLoop(src) ==
    LET st[i \in 0 .. Len(src)] ==
            IF i = 0 THEN EncoderInit ELSE EncodeByte(st[i - 1], src[i])
    IN  st

(* cobs_encode(): the loop over src, the final finish_block(), and the    *)
(* out_len bytes of dst it reports.                                       *)
CobsEncode(src) ==
    LET fin == FinishBlock(EncodeLoop(src)[Len(src)])
    IN  SubSeq(fin.dst, 1, fin.outLen)
=============================================================================

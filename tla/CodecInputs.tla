---------------------------- MODULE CodecInputs ----------------------------
(***************************************************************************)
(* The inputs the codec harness ranges over, and the encoder property     *)
(* that is stated of them.  The state is one input: a byte sequence of at *)
(* most MaxLen bytes over ByteVals, and each step moves to another one.   *)
(* This part of the harness reaches only the encoder (Cobs), so that the  *)
(* property it states can be proved as well as checked; MCCodec extends  *)
(* it with the rest of the codec.                                          *)
(***************************************************************************)
EXTENDS Cobs

CONSTANTS
    ByteVals,   \* byte values of the inputs (0 and some non-zero bytes)
    MaxLen      \* longest input

ASSUME InputsAssumption == ByteVals \subseteq 0 .. 255 /\ MaxLen \in Nat

VARIABLE x

Inputs == UNION {[1 .. n -> ByteVals] : n \in 0 .. MaxLen}

Init == x \in Inputs

Next == \E y \in Inputs : x' = y

Spec == Init /\ [][Next]_x

-----------------------------------------------------------------------------
(* cobs_encode never emits a zero byte, so 0x00 can delimit frames.        *)
CobsNoZeroBytes == \A i \in 1 .. Len(CobsEncode(x)) : CobsEncode(x)[i] # 0
=============================================================================

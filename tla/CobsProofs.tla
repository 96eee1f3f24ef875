----------------------------- MODULE CobsProofs ------------------------------
(***************************************************************************)
(* Proofs about cobs_encode() (Cobs) for every input and every BlockMax.  *)
(* The encoder's loop is a recursive function over the source (not a      *)
(* RECURSIVE operator), so it can be unfolded (EncodeLoopDef, from        *)
(* FiniteNatInductiveDef) and reasoned about by induction on the number   *)
(* of bytes read (SetInduction, from the well-foundedness of < on Nat).   *)
(* The loop invariant EncInv says where the only zero byte of dst can be: *)
(* in the slot reserved at block_len_loc.  The final finish_block() puts  *)
(* that slot last, which gives EncodingHasNoZero, the property the codec  *)
(* run checks.                                                             *)
(***************************************************************************)
EXTENDS CodecInputs, SequenceTheorems, NaturalsInduction, WellFoundedInduction, TLAPS

(* The loop's locals after i bytes are those after i - 1 bytes, turned    *)
(* once more on the i-th byte (the recursive function unfolds).           *)
LEMMA EncodeLoopDef ==
    ASSUME NEW src \in Seq(Nat)
    PROVE  EncodeLoop(src) =
             [i \in 0 .. Len(src) |->
                IF i = 0 THEN EncoderInit
                ELSE EncodeByte(EncodeLoop(src)[i - 1], src[i])]
<1>1. FiniteNatInductiveDefHypothesis(EncodeLoop(src), EncoderInit,
                                       LAMBDA v, i : EncodeByte(v, src[i]),
                                       0, Len(src))
  BY DEF FiniteNatInductiveDefHypothesis, EncodeLoop
<1>2. FiniteNatInductiveDefConclusion(EncodeLoop(src), EncoderInit,
                                       LAMBDA v, i : EncodeByte(v, src[i]),
                                       0, Len(src))
  BY <1>1, FiniteNatInductiveDef, LenProperties
<1>3. QED
  BY <1>2 DEF FiniteNatInductiveDefConclusion

(* Induction over the naturals, for a set: a set of naturals that holds 0 *)
(* and is closed under successor is Nat (its least non-member would have  *)
(* a predecessor in it).                                                  *)
LEMMA SetInduction ==
    ASSUME NEW S \in SUBSET Nat, 0 \in S, \A n \in S : n + 1 \in S
    PROVE  S = Nat
<1> SUFFICES ASSUME Nat \ S # {} PROVE FALSE
  OBVIOUS
<1>1. PICK m \in Nat \ S : \A y \in Nat \ S : ~(<<y, m>> \in OpToRel(<, Nat))
  BY NatLessThanWellFounded, WFMin
<1>2. m # 0
  OBVIOUS
<1>3. m - 1 \in Nat /\ <<m - 1, m>> \in OpToRel(<, Nat)
  BY <1>2 DEF OpToRel
<1>4. m - 1 \in S
  BY <1>1, <1>3
<1>5. QED
  BY <1>4

(* The encoder's locals as cobs_encode keeps them: dst holds bytes, the   *)
(* reserved slot block_len_loc is inside it and is the only zero byte,    *)
(* out_len counts every byte but that slot, and block_len is between 1    *)
(* and top (BlockMax - 1 between turns, BlockMax just before the          *)
(* finish_block() that a full block triggers).                            *)
EncRec == [dst : Seq(0 .. 255), loc : Nat, blockLen : Nat, outLen : Int]

EncShape(s, top) ==
    /\ s \in EncRec
    /\ Len(s.dst) >= 1 /\ s.loc \in 1 .. Len(s.dst)
    /\ \A k \in 1 .. Len(s.dst) : k # s.loc => s.dst[k] \in 1 .. 255
    /\ s.outLen = Len(s.dst) - 1
    /\ s.blockLen \in 1 .. top

EncInv(s) == EncShape(s, BlockMax - 1)

(* Before the loop: dst holds only the reserved slot, block_len is 1.     *)
LEMMA InitEncInv == EncInv(EncoderInit)
<1>1. BlockMax - 1 >= 1
  BY BlockMaxAssumption
<1>2. QED
  BY <1>1 DEF EncInv, EncShape, EncRec, EncoderInit

(* finish_block() fills the slot with block_len (not zero, a byte) and    *)
(* reserves a fresh slot at the end.                                      *)
LEMMA FinishBlockInv ==
    ASSUME NEW s, EncShape(s, BlockMax)
    PROVE  /\ EncInv(FinishBlock(s))
           /\ FinishBlock(s).loc = Len(FinishBlock(s).dst)
<1> DEFINE filled == [s.dst EXCEPT ![s.loc] = s.blockLen]
           f == FinishBlock(s)
<1>1. /\ s.dst \in Seq(0 .. 255) /\ s.loc \in 1 .. Len(s.dst)
      /\ s.blockLen \in 1 .. 255 /\ s.outLen = Len(s.dst) - 1
      /\ \A k \in 1 .. Len(s.dst) : k # s.loc => s.dst[k] \in 1 .. 255
  <2>1. s \in EncRec /\ s.blockLen \in 1 .. BlockMax
        /\ s.loc \in 1 .. Len(s.dst) /\ s.outLen = Len(s.dst) - 1
        /\ \A k \in 1 .. Len(s.dst) : k # s.loc => s.dst[k] \in 1 .. 255
    BY DEF EncShape
  <2>2. s.dst \in Seq(0 .. 255)
    BY <2>1, Zenon DEF EncRec
  <2>3. s.blockLen \in 1 .. 255
    <3>1. s.blockLen \in 1 .. BlockMax
      BY <2>1
    <3>2. QED
      BY <3>1, BlockMaxAssumption
  <2>4. QED
    BY <2>1, <2>2, <2>3
<1>2. /\ filled \in Seq(0 .. 255) /\ Len(filled) = Len(s.dst)
      /\ \A k \in 1 .. Len(s.dst) : filled[k] \in 1 .. 255
  <2>1. /\ filled \in Seq(0 .. 255) /\ Len(filled) = Len(s.dst)
        /\ \A k \in 1 .. Len(s.dst) :
              filled[k] = IF k = s.loc THEN s.blockLen ELSE s.dst[k]
    BY <1>1, ExceptSeq
  <2>2. QED
    BY <1>1, <2>1
<1>3. f = [dst |-> Append(filled, 0), loc |-> Len(s.dst) + 1,
           outLen |-> s.outLen + 1, blockLen |-> 1]
  BY DEF FinishBlock
<1>4. /\ Append(filled, 0) \in Seq(0 .. 255)
      /\ Len(Append(filled, 0)) = Len(s.dst) + 1
      /\ \A k \in 1 .. Len(s.dst) : Append(filled, 0)[k] \in 1 .. 255
  BY <1>2, AppendProperties
<1>5. BlockMax - 1 >= 1
  BY BlockMaxAssumption
<1>6. f \in EncRec
  BY <1>1, <1>3, <1>4 DEF EncRec
<1>7. /\ Len(f.dst) >= 1 /\ f.loc \in 1 .. Len(f.dst) /\ f.loc = Len(f.dst)
      /\ f.outLen = Len(f.dst) - 1 /\ f.blockLen \in 1 .. BlockMax - 1
  BY <1>1, <1>3, <1>4, <1>5
<1>8. \A k \in 1 .. Len(f.dst) : k # f.loc => f.dst[k] \in 1 .. 255
  <2>1. f.dst = Append(filled, 0) /\ f.loc = Len(s.dst) + 1
    BY <1>3
  <2>2. \A k \in 1 .. Len(f.dst) : k # f.loc => k \in 1 .. Len(s.dst)
    BY <2>1, <1>4
  <2>3. QED
    BY <2>1, <2>2, <1>4
<1>9. QED
  BY <1>6, <1>7, <1>8 DEF EncInv, EncShape

(* A bound on block_len that holds stays true under a larger bound.      *)
LEMMA ShapeWiden ==
    ASSUME NEW s, NEW a \in Int, NEW c \in Int, a <= c, EncShape(s, a)
    PROVE  EncShape(s, c)
<1>1. s.blockLen \in 1 .. a
  BY DEF EncShape
<1>2. s.blockLen \in 1 .. c
  BY <1>1
<1>3. QED
  BY <1>2, Zenon DEF EncShape

(* The data branch of the loop keeps the shape, with block_len now      *)
(* allowed to reach BlockMax.                                             *)
LEMMA DataStepShape ==
    ASSUME NEW s, EncInv(s), NEW b \in 1 .. 255
    PROVE  EncShape(CopyByte(s, b), BlockMax)
<1> DEFINE t == CopyByte(s, b)
<1>1. /\ s \in EncRec /\ s.blockLen \in 1 .. BlockMax - 1
      /\ s.loc \in 1 .. Len(s.dst) /\ s.outLen = Len(s.dst) - 1
      /\ \A k \in 1 .. Len(s.dst) : k # s.loc => s.dst[k] \in 1 .. 255
  BY DEF EncInv, EncShape
<1>2. s.dst \in Seq(0 .. 255) /\ s.loc \in Nat /\ s.blockLen \in Nat
      /\ s.outLen \in Int
  BY <1>1, Zenon DEF EncRec
<1>3. /\ t.dst = Append(s.dst, b) /\ t.loc = s.loc
      /\ t.blockLen = s.blockLen + 1 /\ t.outLen = s.outLen + 1
  BY DEF CopyByte
<1>4. /\ Append(s.dst, b) \in Seq(0 .. 255)
      /\ Len(Append(s.dst, b)) = Len(s.dst) + 1
      /\ \A k \in 1 .. Len(s.dst) : Append(s.dst, b)[k] = s.dst[k]
      /\ Append(s.dst, b)[Len(s.dst) + 1] = b
  BY <1>2, AppendProperties
<1>5. t \in EncRec
  BY <1>2, <1>4 DEF EncRec, CopyByte
<1>6. /\ Len(t.dst) >= 1 /\ t.loc \in 1 .. Len(t.dst)
      /\ t.outLen = Len(t.dst) - 1 /\ t.blockLen \in 1 .. BlockMax
  BY <1>1, <1>2, <1>3, <1>4, BlockMaxAssumption
<1>7. \A k \in 1 .. Len(t.dst) : k # t.loc => t.dst[k] \in 1 .. 255
  <2> SUFFICES ASSUME NEW k \in 1 .. Len(s.dst) + 1, k # s.loc
               PROVE  Append(s.dst, b)[k] \in 1 .. 255
    BY <1>3, <1>4
  <2>1. CASE k = Len(s.dst) + 1
    BY <2>1, <1>4
  <2>2. CASE k \in 1 .. Len(s.dst)
    BY <2>2, <1>1, <1>4
  <2>3. k = Len(s.dst) + 1 \/ k \in 1 .. Len(s.dst)
    <3>1. Len(s.dst) \in Nat
      BY <1>2, LenProperties
    <3>2. QED
      BY <3>1
  <2>4. QED
    BY <2>1, <2>2, <2>3, Zenon
<1>8. QED
  BY <1>5, <1>6, <1>7 DEF EncShape

(* EncInv is kept by every turn of the loop, whatever the byte.           *)
LEMMA EncodeByteInv ==
    ASSUME NEW s, EncInv(s), NEW b \in 0 .. 255
    PROVE  EncInv(EncodeByte(s, b))
<1>1. EncShape(s, BlockMax)
  <2>1. BlockMax - 1 <= BlockMax /\ BlockMax - 1 \in Int /\ BlockMax \in Int
    BY BlockMaxAssumption
  <2>2. QED
    BY <2>1, ShapeWiden DEF EncInv
<1>2. CASE b = 0
  BY <1>1, <1>2, FinishBlockInv DEF EncodeByte
<1>3. CASE b # 0
  <2> DEFINE t == CopyByte(s, b)
  <2>1. s \in EncRec
    BY DEF EncInv, EncShape
  <2>2. EncodeByte(s, b) = IF t.blockLen = BlockMax THEN FinishBlock(t) ELSE t
    BY <1>3 DEF EncodeByte
  <2>3. EncShape(t, BlockMax)
    BY <1>3, DataStepShape
  <2>4. CASE t.blockLen = BlockMax
    BY <2>2, <2>3, <2>4, FinishBlockInv
  <2>5. CASE t.blockLen # BlockMax
    <3>1. t.blockLen \in 1 .. BlockMax - 1
      <4>1. t.blockLen \in 1 .. BlockMax
        BY <2>3 DEF EncShape
      <4>2. QED
        BY <4>1, <2>5, BlockMaxAssumption
    <3>2. EncInv(t)
      BY <2>3, <3>1, Zenon DEF EncInv, EncShape
    <3>3. QED
      BY <2>2, <2>5, <3>2
  <2>6. QED
    BY <2>4, <2>5
<1>4. QED
  BY <1>2, <1>3

(* The loop invariant of cobs_encode(): EncInv holds of the locals after  *)
(* every prefix of the source, by induction on the number of bytes read.  *)
LEMMA EncodeLoopInv ==
    ASSUME NEW src \in Seq(0 .. 255)
    PROVE  \A i \in 0 .. Len(src) : EncInv(EncodeLoop(src)[i])
<1> DEFINE st == EncodeLoop(src)
           S == {i \in Nat : i <= Len(src) => EncInv(st[i])}
<1>1. src \in Seq(Nat) /\ Len(src) \in Nat
  <2>1. (0 .. 255) \subseteq Nat
    OBVIOUS
  <2>2. src \in Seq(Nat)
    BY <2>1, SeqMonotonic
  <2>3. QED
    BY <2>2, LenProperties
<1>2. st = [i \in 0 .. Len(src) |->
              IF i = 0 THEN EncoderInit ELSE EncodeByte(st[i - 1], src[i])]
  BY <1>1, EncodeLoopDef
<1>3. 0 \in S
  <2>1. st[0] = EncoderInit
    BY <1>1, <1>2
  <2>2. QED
    BY <2>1, InitEncInv
<1>4. \A n \in S : n + 1 \in S
  <2> SUFFICES ASSUME NEW n \in S, n + 1 <= Len(src)
               PROVE  EncInv(st[n + 1])
    OBVIOUS
  <2>1. EncInv(st[n])
    OBVIOUS
  <2>2. st[n + 1] = EncodeByte(st[n], src[n + 1])
    BY <1>1, <1>2
  <2>3. src[n + 1] \in 0 .. 255
    BY <1>1, ElementOfSeq
  <2>4. QED
    BY <2>1, <2>2, <2>3, EncodeByteInv
<1>5. S = Nat
  BY <1>3, <1>4, SetInduction
<1>6. QED
  BY <1>5

(* What cobs_encode() returns is a sequence of non-zero bytes: the final  *)
(* finish_block() leaves its reserved slot last, and the out_len bytes    *)
(* reported stop before it.                                               *)
LEMMA EncodeBytesNonZero ==
    ASSUME NEW src \in Seq(0 .. 255)
    PROVE  CobsEncode(src) \in Seq(1 .. 255)
<1> DEFINE last == EncodeLoop(src)[Len(src)]
           fin == FinishBlock(last)
<1>1. EncInv(last)
  BY EncodeLoopInv, LenProperties
<1>2. EncShape(last, BlockMax)
  <2>1. BlockMax - 1 <= BlockMax /\ BlockMax - 1 \in Int /\ BlockMax \in Int
    BY BlockMaxAssumption
  <2>2. QED
    BY <1>1, <2>1, ShapeWiden DEF EncInv
<1>3. EncInv(fin) /\ fin.loc = Len(fin.dst)
  BY <1>2, FinishBlockInv
<1>4. /\ fin.outLen = Len(fin.dst) - 1 /\ fin.outLen \in Int
      /\ \A k \in 1 .. Len(fin.dst) : k # fin.loc => fin.dst[k] \in 1 .. 255
  BY <1>3, Zenon DEF EncInv, EncShape, EncRec
<1>5. \A k \in 1 .. fin.outLen : fin.dst[k] \in 1 .. 255
  <2> SUFFICES ASSUME NEW k \in 1 .. fin.outLen
               PROVE  fin.dst[k] \in 1 .. 255
    OBVIOUS
  <2>1. k \in 1 .. Len(fin.dst) /\ k # fin.loc
    BY <1>3, <1>4
  <2>2. QED
    BY <2>1, <1>4, Zenon
<1>6. SubSeq(fin.dst, 1, fin.outLen) \in Seq(1 .. 255)
  <2>1. 1 \in Int
    OBVIOUS
  <2>2. QED
    BY <1>4, <1>5, <2>1, SubSeqProperties, Zenon
<1>7. QED
  BY <1>6 DEF CobsEncode

-----------------------------------------------------------------------------
(* The harness's inputs are byte sequences.                               *)
LEMMA InputsAreBytes == Inputs \subseteq Seq(0 .. 255)
<1> SUFFICES ASSUME NEW n \in 0 .. MaxLen, NEW y \in [1 .. n -> ByteVals]
             PROVE  y \in Seq(0 .. 255)
  BY DEF Inputs
<1>1. n \in Nat
  BY InputsAssumption
<1>2. y \in [1 .. n -> 0 .. 255]
  BY InputsAssumption, Zenon
<1>3. QED
  BY <1>1, <1>2, SeqDef

(* The property CobsNoZeroBytes that the codec run checks, for every      *)
(* input and every BlockMax: cobs_encode() never writes a 0x00 into the   *)
(* bytes it reports, whatever bytes and runs the source holds.            *)
THEOREM EncodingHasNoZero == Spec => []CobsNoZeroBytes
<1> DEFINE TypeOK == x \in Seq(0 .. 255)
<1>1. Init => TypeOK
  BY InputsAreBytes DEF Init
<1>2. TypeOK /\ [Next]_x => TypeOK'
  BY InputsAreBytes DEF Next
<1>3. TypeOK => CobsNoZeroBytes
  <2> SUFFICES ASSUME TypeOK, NEW i \in 1 .. Len(CobsEncode(x))
               PROVE  CobsEncode(x)[i] # 0
    BY DEF CobsNoZeroBytes
  <2> DEFINE enc == CobsEncode(x)
  <2>1. enc \in Seq(1 .. 255)
    BY EncodeBytesNonZero
  <2>2. enc[i] \in 1 .. 255
    BY <2>1, ElementOfSeq
  <2>3. QED
    <3>1. \A v \in 1 .. 255 : v # 0
      OBVIOUS
    <3>2. QED
      BY <2>2, <3>1, Zenon
<1>4. QED
  BY <1>1, <1>2, <1>3, PTL DEF Spec
=============================================================================

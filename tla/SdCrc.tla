-------------------------------- MODULE SdCrc --------------------------------
(***************************************************************************)
(* The checksum of the boot loader's SD driver.  sd_copy runs crc16 over   *)
(* the bytes of a block as they come and compares the result with the one  *)
(* the card appends.  The module shows that crc16 is the CRC it claims to  *)
(* be, and what sd_copy can conclude from the comparison.                  *)
(*                                                                         *)
(* A word is the set of its one bits: exclusive or is the symmetric        *)
(* difference, and a cast to w bits drops the others.  An int has 32 bits. *)
(***************************************************************************)
EXTENDS Integers, TLAPS

Word16 == SUBSET (0 .. 15)
Byte   == SUBSET (0 .. 7)

Xor(a, b)  == (a \ b) \cup (b \ a)
Cast(a, w) == a \cap (0 .. w - 1)
Shl(a, n)  == {i \in 0 .. 31 : i - n \in a}
Shr(a, n)  == {i \in 0 .. 31 : i + n \in a}

\* One statement of crc16 each.
swapped(c, d) == Xor(Cast(Shr(c, 8), 8) \cup Cast(Shl(c, 8), 16), d)
folded(c)     == Xor(c, Cast(Shr(c, 4), 4))
spread(c)     == Xor(c, Cast(Shl(c, 12), 16))
mixed(c)      == Xor(c, Cast(Shl(Cast(c, 8), 5), 16))

crc16(c, d) == mixed(spread(folded(swapped(c, d))))

(***************************************************************************)
(* The reference: the remainder of the division by the polynomial 0x11021, *)
(* one bit at a time, the highest first: the card's CRC generator.         *)
(***************************************************************************)
Poly11021 == {0, 5, 12}  \* without x^16

DivideBit(c) == Xor(Cast(Shl(c, 1), 16), IF 15 \in c THEN Poly11021 ELSE {})

DivideNibble(c) == DivideBit(DivideBit(DivideBit(DivideBit(c))))

DivideByte(c, d) == DivideNibble(DivideNibble(Xor(c, Shl(d, 8))))
-----------------------------------------------------------------------------
(***************************************************************************)
(* The loop of sd_copy over a block, next to what the card does.  crc is   *)
(* the driver's register, card the card's, and damaged counts the bytes    *)
(* that arrived different from what was sent.                              *)
(***************************************************************************)
VARIABLES crc, card, damaged

vars == <<crc, card, damaged>>

Init == crc = {} /\ card = {} /\ damaged = 0

NextByte ==
  \E sent, got \in Byte :
    /\ crc' = crc16(crc, got)
    /\ card' = DivideByte(card, sent)
    /\ damaged' = damaged + (IF got = sent THEN 0 ELSE 1)

Spec == Init /\ [][NextByte]_vars

(***************************************************************************)
(* After any number of bytes: an intact block passes the comparison of     *)
(* sd_copy, and a block with one damaged byte, wherever it is and whatever *)
(* it became, does not.                                                    *)
(***************************************************************************)
OneByteErrorDetected ==
  /\ damaged = 0 => crc = card
  /\ damaged = 1 => crc # card
-----------------------------------------------------------------------------
(***************************************************************************)
(* Every statement of crc16, and of the division, bit by bit.              *)
(***************************************************************************)
LEMMA SwappedBits ==
  ASSUME NEW c \in Word16, NEW d \in Byte
  PROVE  /\ swapped(c, d) \in Word16
         /\ \A i \in 0 .. 7 : i \in swapped(c, d) <=> ~(i + 8 \in c <=> i \in d)
         /\ \A i \in 8 .. 15 : i \in swapped(c, d) <=> i - 8 \in c
<1>1. swapped(c, d) \in Word16
  <2> SUFFICES ASSUME NEW i \in swapped(c, d) PROVE i \in 0 .. 15
    BY DEF Word16
  <2> QED BY DEF swapped, Xor, Cast, Shl, Shr, Word16, Byte
<1>2. \A i \in 0 .. 7 : i \in swapped(c, d) <=> ~(i + 8 \in c <=> i \in d)
  BY DEF swapped, Xor, Cast, Shl, Shr, Word16, Byte
<1>3. \A i \in 8 .. 15 : i \in swapped(c, d) <=> i - 8 \in c
  BY DEF swapped, Xor, Cast, Shl, Shr, Word16, Byte
<1> QED BY <1>1, <1>2, <1>3

LEMMA FoldedBits ==
  ASSUME NEW c \in Word16
  PROVE  /\ folded(c) \in Word16
         /\ \A i \in 0 .. 3 : i \in folded(c) <=> ~(i \in c <=> i + 4 \in c)
         /\ \A i \in 4 .. 15 : i \in folded(c) <=> i \in c
<1>1. folded(c) \in Word16
  <2> SUFFICES ASSUME NEW i \in folded(c) PROVE i \in 0 .. 15
    BY DEF Word16
  <2> QED BY DEF folded, Xor, Cast, Shr, Word16
<1>2. \A i \in 0 .. 3 : i \in folded(c) <=> ~(i \in c <=> i + 4 \in c)
  BY DEF folded, Xor, Cast, Shr, Word16
<1>3. \A i \in 4 .. 15 : i \in folded(c) <=> i \in c
  BY DEF folded, Xor, Cast, Shr, Word16
<1> QED BY <1>1, <1>2, <1>3

LEMMA SpreadBits ==
  ASSUME NEW c \in Word16
  PROVE  /\ spread(c) \in Word16
         /\ \A i \in 12 .. 15 : i \in spread(c) <=> ~(i \in c <=> i - 12 \in c)
         /\ \A i \in 0 .. 11 : i \in spread(c) <=> i \in c
<1>1. spread(c) \in Word16
  <2> SUFFICES ASSUME NEW i \in spread(c) PROVE i \in 0 .. 15
    BY DEF Word16
  <2> QED BY DEF spread, Xor, Cast, Shl, Word16
<1>2. \A i \in 12 .. 15 : i \in spread(c) <=> ~(i \in c <=> i - 12 \in c)
  BY DEF spread, Xor, Cast, Shl, Word16
<1>3. \A i \in 0 .. 11 : i \in spread(c) <=> i \in c
  BY DEF spread, Xor, Cast, Shl, Word16
<1> QED BY <1>1, <1>2, <1>3

LEMMA MixedBits ==
  ASSUME NEW c \in Word16
  PROVE  /\ mixed(c) \in Word16
         /\ \A i \in 5 .. 12 : i \in mixed(c) <=> ~(i \in c <=> i - 5 \in c)
         /\ \A i \in 0 .. 15 \ 5 .. 12 : i \in mixed(c) <=> i \in c
<1>1. mixed(c) \in Word16
  <2> SUFFICES ASSUME NEW i \in mixed(c) PROVE i \in 0 .. 15
    BY DEF Word16
  <2> QED BY DEF mixed, Xor, Cast, Shl, Word16
<1>2. \A i \in 5 .. 12 : i \in mixed(c) <=> ~(i \in c <=> i - 5 \in c)
  BY DEF mixed, Xor, Cast, Shl, Word16
<1>3. \A i \in 0 .. 15 \ 5 .. 12 : i \in mixed(c) <=> i \in c
  BY DEF mixed, Xor, Cast, Shl, Word16
<1> QED BY <1>1, <1>2, <1>3

LEMMA AddedBits ==
  ASSUME NEW c \in Word16, NEW d \in Byte
  PROVE  /\ Xor(c, Shl(d, 8)) \in Word16
         /\ \A i \in 0 .. 7 : i \in Xor(c, Shl(d, 8)) <=> i \in c
         /\ \A i \in 8 .. 15 : i \in Xor(c, Shl(d, 8)) <=> ~(i \in c <=> i - 8 \in d)
<1>1. Xor(c, Shl(d, 8)) \in Word16
  <2> SUFFICES ASSUME NEW i \in Xor(c, Shl(d, 8)) PROVE i \in 0 .. 15
    BY DEF Word16
  <2> QED BY DEF Xor, Shl, Word16, Byte
<1>2. \A i \in 0 .. 7 : i \in Xor(c, Shl(d, 8)) <=> i \in c
  BY DEF Xor, Shl, Word16, Byte
<1>3. \A i \in 8 .. 15 : i \in Xor(c, Shl(d, 8)) <=> ~(i \in c <=> i - 8 \in d)
  BY DEF Xor, Shl, Word16, Byte
<1> QED BY <1>1, <1>2, <1>3

LEMMA DivideBits ==
  ASSUME NEW c \in Word16
  PROVE  /\ DivideBit(c) \in Word16
         /\ 0 \in DivideBit(c) <=> 15 \in c
         /\ \A i \in {5, 12} : i \in DivideBit(c) <=> ~(i - 1 \in c <=> 15 \in c)
         /\ \A i \in 1 .. 15 \ {5, 12} : i \in DivideBit(c) <=> i - 1 \in c
<1> DEFINE Shifted == Cast(Shl(c, 1), 16)
<1>1. /\ Shifted \subseteq 0 .. 15
      /\ 0 \notin Shifted
      /\ \A i \in 1 .. 15 : i \in Shifted <=> i - 1 \in c
  BY DEF Cast, Shl, Word16
<1> HIDE DEF Shifted
<1>2. CASE 15 \in c
  <2>1. DivideBit(c) = (Shifted \ {0, 5, 12}) \cup ({0, 5, 12} \ Shifted)
    BY <1>2 DEF DivideBit, Xor, Poly11021, Shifted
  <2> QED BY <1>1, <1>2, <2>1 DEF Word16
<1>3. CASE 15 \notin c
  <2>1. DivideBit(c) = Shifted
    BY <1>3 DEF DivideBit, Xor, Shifted
  <2> QED BY <1>1, <1>3, <2>1 DEF Word16
<1> QED BY <1>2, <1>3

LEMMA TwoBits ==
  ASSUME NEW c \in Word16
  PROVE  /\ DivideBit(DivideBit(c)) \in Word16
         /\ 0 \in DivideBit(DivideBit(c)) <=> 14 \in c
         /\ 1 \in DivideBit(DivideBit(c)) <=> 15 \in c
         /\ 2 \in DivideBit(DivideBit(c)) <=> 0 \in c
         /\ 3 \in DivideBit(DivideBit(c)) <=> 1 \in c
         /\ 4 \in DivideBit(DivideBit(c)) <=> 2 \in c
         /\ 5 \in DivideBit(DivideBit(c)) <=> ~(3 \in c <=> 14 \in c)
         /\ 6 \in DivideBit(DivideBit(c)) <=> ~(4 \in c <=> 15 \in c)
         /\ 7 \in DivideBit(DivideBit(c)) <=> 5 \in c
         /\ 8 \in DivideBit(DivideBit(c)) <=> 6 \in c
         /\ 9 \in DivideBit(DivideBit(c)) <=> 7 \in c
         /\ 10 \in DivideBit(DivideBit(c)) <=> 8 \in c
         /\ 11 \in DivideBit(DivideBit(c)) <=> 9 \in c
         /\ 12 \in DivideBit(DivideBit(c)) <=> ~(10 \in c <=> 14 \in c)
         /\ 13 \in DivideBit(DivideBit(c)) <=> ~(11 \in c <=> 15 \in c)
         /\ 14 \in DivideBit(DivideBit(c)) <=> 12 \in c
         /\ 15 \in DivideBit(DivideBit(c)) <=> 13 \in c
BY DivideBits

LEMMA FourBits ==
  ASSUME NEW c \in Word16
  PROVE  /\ DivideNibble(c) \in Word16
         /\ 0 \in DivideNibble(c) <=> 12 \in c
         /\ 1 \in DivideNibble(c) <=> 13 \in c
         /\ 2 \in DivideNibble(c) <=> 14 \in c
         /\ 3 \in DivideNibble(c) <=> 15 \in c
         /\ 4 \in DivideNibble(c) <=> 0 \in c
         /\ 5 \in DivideNibble(c) <=> ~(1 \in c <=> 12 \in c)
         /\ 6 \in DivideNibble(c) <=> ~(2 \in c <=> 13 \in c)
         /\ 7 \in DivideNibble(c) <=> ~(3 \in c <=> 14 \in c)
         /\ 8 \in DivideNibble(c) <=> ~(4 \in c <=> 15 \in c)
         /\ 9 \in DivideNibble(c) <=> 5 \in c
         /\ 10 \in DivideNibble(c) <=> 6 \in c
         /\ 11 \in DivideNibble(c) <=> 7 \in c
         /\ 12 \in DivideNibble(c) <=> ~(8 \in c <=> 12 \in c)
         /\ 13 \in DivideNibble(c) <=> ~(9 \in c <=> 13 \in c)
         /\ 14 \in DivideNibble(c) <=> ~(10 \in c <=> 14 \in c)
         /\ 15 \in DivideNibble(c) <=> ~(11 \in c <=> 15 \in c)
<1> DEFINE r == DivideBit(DivideBit(c))
<1>1. DivideNibble(c) = DivideBit(DivideBit(r))
  BY DEF DivideNibble
<1>2. r \in Word16
  BY TwoBits
<1> QED BY TwoBits, <1>1, <1>2

LEMMA Crc16InWord16 ==
  ASSUME NEW c \in Word16, NEW d \in Byte
  PROVE  crc16(c, d) \in Word16
BY SwappedBits, FoldedBits, SpreadBits, MixedBits DEF crc16

(***************************************************************************)
(* crc16 of sd.c, which shifts bytes and nibbles, computes what its        *)
(* comment says: the remainder of the division by 0x11021, for every       *)
(* register and every byte.                                                *)
(***************************************************************************)
THEOREM Crc16IsRemainder ==
  ASSUME NEW c \in Word16, NEW d \in Byte
  PROVE  crc16(c, d) = DivideByte(c, d)
<1> DEFINE r0 == Xor(c, Shl(d, 8))
           r4 == DivideNibble(r0)
           r8 == DivideNibble(r4)
           s1 == swapped(c, d)
           s2 == folded(s1)
           s3 == spread(s2)
           s4 == mixed(s3)
<1>1. /\ crc16(c, d) = s4
      /\ DivideByte(c, d) = r8
  BY DEF crc16, DivideByte
<1>2. s1 \in Word16 /\ s2 \in Word16 /\ s3 \in Word16 /\ s4 \in Word16
  BY SwappedBits, FoldedBits, SpreadBits, MixedBits
<1>3. r0 \in Word16 /\ r4 \in Word16 /\ r8 \in Word16
  BY AddedBits, FourBits
<1>4. /\ 0 \in r8 <=> ~(8 \in r0 <=> 12 \in r0)
      /\ 1 \in r8 <=> ~(9 \in r0 <=> 13 \in r0)
      /\ 2 \in r8 <=> ~(10 \in r0 <=> 14 \in r0)
      /\ 3 \in r8 <=> ~(11 \in r0 <=> 15 \in r0)
      /\ 4 \in r8 <=> 12 \in r0
      /\ 5 \in r8 <=> ~(~(8 \in r0 <=> 12 \in r0) <=> 13 \in r0)
      /\ 6 \in r8 <=> ~(~(9 \in r0 <=> 13 \in r0) <=> 14 \in r0)
      /\ 7 \in r8 <=> ~(~(10 \in r0 <=> 14 \in r0) <=> 15 \in r0)
      /\ 8 \in r8 <=> ~(~(0 \in r0 <=> 11 \in r0) <=> 15 \in r0)
      /\ 9 \in r8 <=> ~(1 \in r0 <=> 12 \in r0)
      /\ 10 \in r8 <=> ~(2 \in r0 <=> 13 \in r0)
      /\ 11 \in r8 <=> ~(3 \in r0 <=> 14 \in r0)
      /\ 12 \in r8 <=> ~(~(~(4 \in r0 <=> 8 \in r0) <=> 12 \in r0) <=> 15 \in r0)
      /\ 13 \in r8 <=> ~(~(5 \in r0 <=> 9 \in r0) <=> 13 \in r0)
      /\ 14 \in r8 <=> ~(~(6 \in r0 <=> 10 \in r0) <=> 14 \in r0)
      /\ 15 \in r8 <=> ~(~(7 \in r0 <=> 11 \in r0) <=> 15 \in r0)
  BY FourBits, <1>3
<1>5. /\ 0 \in s4 <=> ~(8 \in r0 <=> 12 \in r0)
      /\ 1 \in s4 <=> ~(9 \in r0 <=> 13 \in r0)
      /\ 2 \in s4 <=> ~(10 \in r0 <=> 14 \in r0)
      /\ 3 \in s4 <=> ~(11 \in r0 <=> 15 \in r0)
      /\ 4 \in s4 <=> 12 \in r0
      /\ 5 \in s4 <=> ~(~(8 \in r0 <=> 12 \in r0) <=> 13 \in r0)
      /\ 6 \in s4 <=> ~(~(9 \in r0 <=> 13 \in r0) <=> 14 \in r0)
      /\ 7 \in s4 <=> ~(~(10 \in r0 <=> 14 \in r0) <=> 15 \in r0)
      /\ 8 \in s4 <=> ~(~(0 \in r0 <=> 11 \in r0) <=> 15 \in r0)
      /\ 9 \in s4 <=> ~(1 \in r0 <=> 12 \in r0)
      /\ 10 \in s4 <=> ~(2 \in r0 <=> 13 \in r0)
      /\ 11 \in s4 <=> ~(3 \in r0 <=> 14 \in r0)
      /\ 12 \in s4 <=> ~(~(~(4 \in r0 <=> 8 \in r0) <=> 12 \in r0) <=> 15 \in r0)
      /\ 13 \in s4 <=> ~(~(5 \in r0 <=> 9 \in r0) <=> 13 \in r0)
      /\ 14 \in s4 <=> ~(~(6 \in r0 <=> 10 \in r0) <=> 14 \in r0)
      /\ 15 \in s4 <=> ~(~(7 \in r0 <=> 11 \in r0) <=> 15 \in r0)
  BY SwappedBits, FoldedBits, SpreadBits, MixedBits, AddedBits, <1>2
<1> HIDE DEF r8, s4
<1>6. \A i \in 0 .. 15 : i \in s4 <=> i \in r8
  BY <1>4, <1>5
<1>7. s4 \subseteq 0 .. 15 /\ r8 \subseteq 0 .. 15
  BY <1>2, <1>3 DEF Word16
<1>8. s4 = r8
  BY <1>6, <1>7
<1> QED BY <1>1, <1>8

\* The register can be recovered from the result: nothing of it is lost.
LEMMA NibbleInjective ==
  ASSUME NEW a \in Word16, NEW b \in Word16, DivideNibble(a) = DivideNibble(b)
  PROVE  a = b
<1>1. \A i \in 0 .. 15 : i \in a <=> i \in b
  BY FourBits
<1>2. a \subseteq 0 .. 15 /\ b \subseteq 0 .. 15
  BY DEF Word16
<1> QED BY <1>1, <1>2

(***************************************************************************)
(* Two calls of crc16 with the same result had the same register exactly   *)
(* if they had the same byte: a different byte changes the register, and   *)
(* equal bytes never bring two different registers together again.         *)
(***************************************************************************)
THEOREM Crc16Detects ==
  ASSUME NEW c1 \in Word16, NEW c2 \in Word16, NEW d1 \in Byte, NEW d2 \in Byte,
         crc16(c1, d1) = crc16(c2, d2)
  PROVE  c1 = c2 <=> d1 = d2
<1> DEFINE a == Xor(c1, Shl(d1, 8))
           b == Xor(c2, Shl(d2, 8))
<1>1. a \in Word16 /\ b \in Word16
  BY AddedBits
<1>2. a = b
  <2>1. DivideNibble(DivideNibble(a)) = DivideNibble(DivideNibble(b))
    BY Crc16IsRemainder DEF DivideByte
  <2>2. DivideNibble(a) \in Word16 /\ DivideNibble(b) \in Word16
    BY <1>1, FourBits
  <2> HIDE DEF a, b
  <2> QED BY <1>1, <2>1, <2>2, NibbleInjective
<1>3. ASSUME c1 = c2 PROVE d1 = d2
  <2>1. \A i \in 8 .. 15 : i - 8 \in d1 <=> i - 8 \in d2
    BY <1>2, <1>3, AddedBits
  <2>2. \A i \in 0 .. 7 : i \in d1 <=> i \in d2
    BY <2>1
  <2> QED BY <2>2 DEF Byte
<1>4. ASSUME d1 = d2 PROVE c1 = c2
  <2>1. \A i \in 0 .. 15 : i \in c1 <=> i \in c2
    BY <1>2, <1>4, AddedBits
  <2> QED BY <2>1 DEF Word16
<1> QED BY <1>3, <1>4

(***************************************************************************)
(* For blocks of any length, sd_copy accepts every intact block and        *)
(* refuses every block in which one byte was damaged.                      *)
(***************************************************************************)
THEOREM OneByteErrorDetectedHolds == Spec => []OneByteErrorDetected
<1> DEFINE IndInv == crc \in Word16 /\ card \in Word16 /\ damaged \in Nat /\ OneByteErrorDetected
<1>1. Init => IndInv
  BY DEF Init, OneByteErrorDetected, Word16
<1>2. IndInv /\ [NextByte]_vars => IndInv'
  <2> SUFFICES ASSUME IndInv, [NextByte]_vars PROVE IndInv'
    OBVIOUS
  <2>1. CASE UNCHANGED vars
    BY <2>1 DEF vars, OneByteErrorDetected
  <2>2. CASE NextByte
    <3> PICK sent \in Byte, got \in Byte :
               /\ crc' = crc16(crc, got)
               /\ card' = DivideByte(card, sent)
               /\ damaged' = damaged + (IF got = sent THEN 0 ELSE 1)
      BY <2>2 DEF NextByte
    <3>1. card' = crc16(card, sent)
      BY Crc16IsRemainder
    <3>2. crc' \in Word16 /\ card' \in Word16
      BY <3>1, Crc16InWord16
    <3>3. crc' = card' => (crc = card <=> got = sent)
      BY <3>1, Crc16Detects
    <3>4. CASE got = sent
      <4>1. damaged' = damaged
        BY <3>4
      <4> QED BY <3>1, <3>2, <3>3, <3>4, <4>1 DEF OneByteErrorDetected
    <3>5. CASE got # sent
      <4>1. damaged' = damaged + 1
        BY <3>5
      <4> QED BY <3>2, <3>3, <3>5, <4>1 DEF OneByteErrorDetected
    <3> QED BY <3>4, <3>5
  <2> QED BY <2>1, <2>2
<1> QED BY <1>1, <1>2, PTL DEF Spec
=============================================================================
